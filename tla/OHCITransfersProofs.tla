------------------------- MODULE OHCITransfersProofs -------------------------
(***************************************************************************)
(* Proofs about OHCITransfers for any number of endpoints, TDs and         *)
(* transfers, with errors and resubmissions, in four parts.                *)
(*                                                                         *)
(* Abort, clear and delete have their endpoint for themselves.  The        *)
(* argument does not look at the TDs: the skip bit is set before the       *)
(* sleep, the controller leaves the endpoint during the sleep, and until   *)
(* the removal is over nothing clears the bit.                             *)
(*                                                                         *)
(* What USBPipe, which OHCITransfers implements, promises.                 *)
(*                                                                         *)
(* Every TD is in one place.  The lists of the driver and the controller   *)
(* exist only as pointers and links, and a step moves a TD by changing a   *)
(* few of them.  Layout(s) says that the sequences s[p], one for each      *)
(* place p, lie in those pointers, and Arranged that every TD is once in   *)
(* them.  Each step that moves TDs has a lemma that names the move, taken  *)
(* from DescriptorLists, and shows that the pointers follow it.            *)
(*                                                                         *)
(* The driver is a USBPipe until its error path runs.  View(l, k) reads    *)
(* the places as a line l of done TDs and a chain k[e] for each endpoint;  *)
(* Account(l, k) says what is in them for every transfer that waits for    *)
(* its completion.  InTurn(l, k, C) is the order: no pair of C stands in   *)
(* l followed by the chains.  Each move of a TD in the line and the chains *)
(* keeps the order of the others (lemmas Turn...), and with PromptHandler  *)
(* the filter's merge of two lists does so too.                            *)
(***************************************************************************)
EXTENDS OHCITransfers, DescriptorLists

Reserved ==
  pc \in {"sleep", "remove", "removeReturn"}
    => target \in Endpoint /\ skip[target] = TRUE

Left == Removing => serving.ep # target

IInv == skip \in [Endpoint -> BOOLEAN] /\ Reserved /\ Left

(* Nothing is removed at the start.                                        *)
LEMMA InitIInv == Init => IInv
<1> SUFFICES ASSUME Init PROVE IInv
  OBVIOUS
<1>1. skip \in [Endpoint -> BOOLEAN] /\ pc = "idle"
  BY DEF Init
<1> QED BY <1>1 DEF IInv, Reserved, Left, Removing

(* Most steps leave alone all that the invariant looks at.                 *)
LEMMA Untouched ==
  ASSUME IInv, UNCHANGED <<pc, target, skip, serving>>
  PROVE  IInv'
BY DEF IInv, Reserved, Left, Removing

(* Outside a removal only the type of skip has to be shown.                *)
LEMMA NotRemoving ==
  ASSUME skip' \in [Endpoint -> BOOLEAN],
         pc' \notin {"sleep", "remove", "removeReturn"}
  PROVE  IInv'
BY DEF IInv, Reserved, Left, Removing

(* The controller starts only on an endpoint that is not skipped.          *)
LEMMA ControllerStep == IInv /\ Controller => IInv'
<1> SUFFICES ASSUME IInv, Controller PROVE IInv'
  OBVIOUS
<1>1. CASE \E e \in Endpoint : HCStart(e)
  <2>1. PICK e \in Endpoint : HCStart(e)
    BY <1>1
  <2>2. ~skip[e] /\ serving'.ep = e /\ UNCHANGED <<pc, target, skip>>
    BY <2>1 DEF HCStart, edVars, wlVars
  <2> QED BY <2>2 DEF IInv, Reserved, Left, Removing
<1>2. CASE HCStop \/ \E e \in Endpoint, code \in {"ok", "error"} : HCRetire(e, code)
  <2>1. serving' = Idle /\ UNCHANGED <<pc, target, skip>>
    BY <1>2 DEF HCStop, HCRetire, edVars, wlVars
  <2>2. target \in Endpoint => target # Null
    BY ConstantsAssumption
  <2> QED BY <2>1, <2>2 DEF IInv, Reserved, Left, Removing, Idle
<1>3. CASE HCWriteback
  BY <1>3, Untouched DEF HCWriteback, edVars, wlVars
<1> QED BY <1>1, <1>2, <1>3 DEF Controller

(* A client starts a removal only when none is under way.                  *)
LEMMA ClientStep == IInv /\ Client => IInv'
<1> SUFFICES ASSUME IInv, Client PROVE IInv'
  OBVIOUS
<1>1. ASSUME NEW e \in Endpoint, CreateEndpoint(e) PROVE IInv'
  <2>1. skip' \in [Endpoint -> BOOLEAN] /\ pc' = "idle"
    BY <1>1 DEF CreateEndpoint, GateFree, wlVars, IInv
  <2> QED BY <2>1, NotRemoving
<1>2. ASSUME NEW e \in Endpoint, NEW x \in Transfer, SubmitStalled(x, e) PROVE IInv'
  BY <1>2, Untouched DEF SubmitStalled, edVars, hcVars, wlVars
<1>3. ASSUME NEW e \in Endpoint, NEW x \in Transfer, NEW n \in 1..MaxChunks,
             SubmitStart(x, e, n)
      PROVE  IInv'
  BY <1>3, Untouched DEF SubmitStart, hcVars, wlVars
<1>4. ASSUME NEW e \in Endpoint, NEW o \in Ops, RemovalStart(e, o) PROVE IInv'
  <2>1. skip' = [skip EXCEPT ![e] = TRUE] /\ target' = e /\ pc' = "sleep"
    BY <1>4 DEF RemovalStart
  <2>2. skip' \in [Endpoint -> BOOLEAN] /\ skip'[e] = TRUE
    BY <2>1 DEF IInv
  <2> QED BY <2>1, <2>2 DEF IInv, Reserved, Left, Removing
<1> QED BY <1>1, <1>2, <1>3, <1>4 DEF Client

(* The handler runs in another turn of the workloop.                       *)
LEMMA HandlerStep ==
  ASSUME IInv,
         HandleInterrupt \/ CompleteTransfer \/ HandlerReturn \/ FailTransfer
           \/ Quiesced \/ FailStep \/ FailRanOut
  PROVE  IInv'
<1> USE DEF IInv
<1>1. CASE HandleInterrupt
  <2>1. skip' = skip /\ pc' \in {"idle", "process"}
    BY <1>1 DEF HandleInterrupt, Continue, edVars
  <2> QED BY <2>1, NotRemoving
<1>2. CASE CompleteTransfer
  <2>1. skip' = skip /\ pc' = "return"
    BY <1>2 DEF CompleteTransfer, edVars
  <2> QED BY <2>1, NotRemoving
<1>3. CASE HandlerReturn
  <2>1. skip' = skip /\ pc' \in {"idle", "process"}
    BY <1>3 DEF HandlerReturn, Continue, edVars
  <2> QED BY <2>1, NotRemoving
<1>4. CASE FailTransfer
  <2>1. skip' \in [Endpoint -> BOOLEAN] /\ pc' = "quiesce"
    BY <1>4 DEF FailTransfer
  <2> QED BY <2>1, NotRemoving
<1>5. CASE Quiesced
  <2>1. skip' = skip /\ pc' = "fail"
    BY <1>5 DEF Quiesced, edVars
  <2> QED BY <2>1, NotRemoving
<1>6. CASE FailStep
  <2>1. skip' = skip \/ skip' = [skip EXCEPT ![target] = FALSE]
    BY <1>6 DEF FailStep
  <2>2. skip' \in [Endpoint -> BOOLEAN]
    BY <2>1
  <2>3. pc' \in {"crashed", "fail", "failReturn"}
    BY <1>6 DEF FailStep
  <2> QED BY <2>2, <2>3, NotRemoving
<1>7. CASE FailRanOut
  <2>1. skip' = skip /\ pc' \in {"idle", "process"}
    BY <1>7 DEF FailRanOut, Continue, edVars
  <2> QED BY <2>1, NotRemoving
<1> QED BY <1>1, <1>2, <1>3, <1>4, <1>5, <1>6, <1>7

(* The removal starts when the controller has left and ends by giving the  *)
(* endpoint up.                                                            *)
LEMMA RemovalStep ==
  ASSUME IInv, SleepDone \/ RemoveStep \/ RemoveReturn \/ RemoveDone
  PROVE  IInv'
<1>1. CASE SleepDone
  <2>1. /\ pc = "sleep" /\ serving.ep # target
        /\ UNCHANGED <<target, skip, serving>>
    BY <1>1 DEF SleepDone, hcVars
  <2> QED BY <2>1 DEF IInv, Reserved, Left
<1>2. CASE RemoveStep \/ RemoveReturn
  <2>1. /\ pc \in {"remove", "removeReturn"}
        /\ UNCHANGED <<target, skip, serving>>
    BY <1>2 DEF RemoveStep, RemoveReturn, edVars, hcVars
  <2> QED BY <2>1 DEF IInv, Reserved, Left, Removing
<1>3. CASE RemoveDone
  <2>1. skip' = skip \/ skip' = [skip EXCEPT ![target] = FALSE]
    BY <1>3 DEF RemoveDone
  <2>2. skip' \in [Endpoint -> BOOLEAN]
    BY <2>1 DEF IInv
  <2>3. pc' = "idle"
    BY <1>3 DEF RemoveDone
  <2> QED BY <2>2, <2>3, NotRemoving
<1> QED BY <1>1, <1>2, <1>3

(* Every step keeps the removal alone.                                     *)
LEMMA Inductive == IInv /\ [Next]_vars => IInv'
<1> SUFFICES ASSUME IInv, [Next]_vars PROVE IInv'
  OBVIOUS
<1>1. CASE Submission
  BY <1>1, Untouched DEF Submission, SubmitChunk, SubmitFails, edVars, hcVars, wlVars
<1>2. CASE FilterInterrupt
  BY <1>2, Untouched DEF FilterInterrupt, edVars, wlVars
<1>3. CASE UNCHANGED vars
  BY <1>3, Untouched DEF vars, edVars, hcVars, wlVars
<1> QED
  BY <1>1, <1>2, <1>3, ClientStep, ControllerStep, HandlerStep, RemovalStep
     DEF Next, Workloop

(* The controller is never on an endpoint while a removal edits its chain. *)
THEOREM RemovalAlone == Spec => []NotServedWhileRemoved
<1>1. IInv => NotServedWhileRemoved
  BY DEF IInv, Left, NotServedWhileRemoved
<1> QED BY <1>1, InitIInv, Inductive, PTL DEF Spec

-----------------------------------------------------------------------------
(* What the abstract pipe that OHCITransfers implements guarantees, for    *)
(* any transfers and pipes.                                                *)

(* Only accepted transfers are on a pipe, each once and on one pipe.       *)
IssuedOnce ==
  /\ \A e \in Endpoint : \A i \in DOMAIN issued[e] :
       status[issued[e][i]] = "accepted"
  /\ \A e, f \in Endpoint : \A i \in DOMAIN issued[e], j \in DOMAIN issued[f] :
       issued[e][i] = issued[f][j] => e = f /\ i = j

(* What every answer keeps, in whatever order the answers come.            *)
PipeBase == Pipe!TypeOK /\ IssuedOnce /\ Pipe!AnsweredOnce

(* The transfer is on the pipe; it was issued there after the other.       *)
On(e, x) == \E i \in DOMAIN issued[e] : issued[e][i] = x

(* One transfer was issued on the pipe of the other, after it.             *)
IssuedAfter(x, y) ==
  \E e \in Endpoint : \E i, j \in DOMAIN issued[e] : j < i /\ issued[e][i] = x /\ issued[e][j] = y

(* A transfer without an answer gets one.                                  *)
Answered(x, r) ==
  /\ results[x] = <<>>
  /\ results' = [results EXCEPT ![x] = <<r>>]
  /\ UNCHANGED <<status, issued>>

(* All that was issued before the transfer on its pipe has an answer.      *)
Before(x) == \A y \in Transfer : IssuedAfter(x, y) => results[y] # <<>>

(* A refusal is no answer and issues nothing.                              *)
LEMMA RefuseBase ==
  ASSUME PipeBase, NEW x \in Transfer, Pipe!Refuse(x)
  PROVE  PipeBase' /\ (Pipe!SuccessInOrder => Pipe!SuccessInOrder')
<1>1. /\ status[x] = "new"
      /\ status' = [status EXCEPT ![x] = "refused"]
      /\ results' = results /\ issued' = issued
  BY DEF Pipe!Refuse
<1>2. Pipe!TypeOK'
  BY <1>1 DEF PipeBase, Pipe!TypeOK
<1>3. IssuedOnce'
  BY <1>1 DEF PipeBase, Pipe!TypeOK, IssuedOnce
<1>4. Pipe!AnsweredOnce'
  BY <1>1 DEF PipeBase, Pipe!TypeOK, Pipe!AnsweredOnce
<1>5. Pipe!SuccessInOrder => Pipe!SuccessInOrder'
  BY <1>1 DEF Pipe!SuccessInOrder
<1> QED BY <1>2, <1>3, <1>4, <1>5 DEF PipeBase

(* Acceptance appends a transfer that was on no pipe and has no answer.    *)
LEMMA AcceptBase ==
  ASSUME PipeBase, NEW x \in Transfer, NEW e \in Endpoint, Pipe!Accept(x, e)
  PROVE  PipeBase' /\ (Pipe!SuccessInOrder => Pipe!SuccessInOrder')
<1>1. /\ status[x] = "new"
      /\ status' = [status EXCEPT ![x] = "accepted"]
      /\ issued' = [issued EXCEPT ![e] = Append(@, x)]
      /\ results' = results
  BY DEF Pipe!Accept
<1> USE DEF PipeBase, Pipe!TypeOK
<1>2. results[x] = <<>>
  BY <1>1 DEF Pipe!AnsweredOnce
<1>3. Pipe!TypeOK'
  BY <1>1
<1>4. \A f \in Endpoint : \A i \in DOMAIN issued[f] :
        i \in DOMAIN issued'[f] /\ issued'[f][i] = issued[f][i]
  BY <1>1
<1>5. \A f \in Endpoint : \A i \in DOMAIN issued'[f] :
        i \in DOMAIN issued[f] \/ (f = e /\ i = Len(issued[e]) + 1 /\ issued'[f][i] = x)
  BY <1>1
<1>6. \A f \in Endpoint : \A i \in DOMAIN issued[f] : issued[f][i] # x
  BY <1>1 DEF IssuedOnce
<1>7. \A f \in Endpoint : \A i \in DOMAIN issued[f] : issued[f][i] \in Transfer
  OBVIOUS
<1>8. IssuedOnce'
  <2>1. \A f \in Endpoint : \A i \in DOMAIN issued'[f] :
          status'[issued'[f][i]] = "accepted"
    BY <1>1, <1>4, <1>5, <1>6, <1>7 DEF IssuedOnce
  <2>2. \A f, g \in Endpoint : \A i \in DOMAIN issued'[f], j \in DOMAIN issued'[g] :
          issued'[f][i] = issued'[g][j] => f = g /\ i = j
    BY <1>4, <1>5, <1>6 DEF IssuedOnce
  <2> QED BY <2>1, <2>2 DEF IssuedOnce
<1>9. Pipe!AnsweredOnce'
  BY <1>1, <1>2 DEF Pipe!AnsweredOnce
<1>10. ASSUME Pipe!SuccessInOrder PROVE Pipe!SuccessInOrder'
  <2> SUFFICES ASSUME NEW f \in Endpoint, NEW i \in DOMAIN issued'[f],
                      NEW j \in DOMAIN issued'[f], i < j,
                      results[issued'[f][j]] = <<"ok">>
               PROVE  results[issued'[f][i]] # <<>>
    BY <1>1 DEF Pipe!SuccessInOrder
  <2>1. j \in DOMAIN issued[f] /\ issued'[f][j] = issued[f][j]
    <3>1. results[x] # <<"ok">>
      BY <1>2
    <3>2. issued'[f][j] # x
      BY <3>1
    <3> QED BY <3>2, <1>4, <1>5
  <2>2. i \in DOMAIN issued[f] /\ issued'[f][i] = issued[f][i]
    BY <2>1, <1>4, <1>5
  <2> QED BY <2>1, <2>2, <1>10 DEF Pipe!SuccessInOrder
<1> QED BY <1>3, <1>8, <1>9, <1>10

(* An answer goes to one transfer, which had none. It is a step of the pipe*)
(* if it is no success, or if everything before the transfer has an answer.*)
LEMMA AnswerBase ==
  ASSUME PipeBase, NEW x \in Transfer, NEW e \in Endpoint, On(e, x),
         NEW r \in {"ok", "error", "aborted"}, Answered(x, r)
  PROVE  /\ PipeBase'
         /\ Pipe!SuccessInOrder /\ (r = "ok" => Before(x)) => Pipe!SuccessInOrder'
         /\ (r = "ok" => Before(x)) => \E i \in DOMAIN issued[e] : Pipe!Finish(e, i)
<1> USE DEF PipeBase, Pipe!TypeOK
<1>1. PICK i \in DOMAIN issued[e] : issued[e][i] = x
  BY DEF On
<1>2. status[x] = "accepted"
  BY <1>1 DEF IssuedOnce
<1>3. results' = [results EXCEPT ![x] = <<r>>] /\ status' = status /\ issued' = issued
  BY DEF Answered
<1>4. Pipe!TypeOK'
  BY <1>3
<1>5. IssuedOnce'
  BY <1>3 DEF IssuedOnce
<1>6. Pipe!AnsweredOnce'
  BY <1>2, <1>3 DEF Pipe!AnsweredOnce
<1>7. ASSUME r = "ok" => Before(x), NEW j \in DOMAIN issued[e], j < i, r = "ok"
      PROVE  results[issued[e][j]] # <<>>
  <2>1. issued[e][j] \in Transfer /\ IssuedAfter(x, issued[e][j])
    BY <1>1, <1>7 DEF IssuedAfter
  <2> QED BY <2>1, <1>7 DEF Before
<1>8. ASSUME Pipe!SuccessInOrder, r = "ok" => Before(x) PROVE Pipe!SuccessInOrder'
  <2> SUFFICES ASSUME NEW f \in Endpoint, NEW k \in DOMAIN issued[f],
                      NEW j \in DOMAIN issued[f], k < j,
                      results'[issued[f][j]] = <<"ok">>
               PROVE  results'[issued[f][k]] # <<>>
    BY <1>3 DEF Pipe!SuccessInOrder
  <2>1. issued[f][j] \in Transfer /\ issued[f][k] \in Transfer
    OBVIOUS
  <2>2. CASE issued[f][j] = x
    <3>1. f = e /\ j = i
      BY <2>2, <1>1 DEF IssuedOnce
    <3>2. r = "ok"
      BY <1>3, <2>2
    <3>3. results[issued[f][k]] # <<>>
      BY <3>1, <3>2, <1>7, <1>8
    <3> QED BY <1>3, <2>1, <3>3
  <2>3. CASE issued[f][j] # x
    <3>1. results[issued[f][j]] = <<"ok">>
      BY <1>3, <2>1, <2>3
    <3>2. results[issued[f][k]] # <<>>
      BY <3>1, <1>8 DEF Pipe!SuccessInOrder
    <3> QED BY <1>3, <2>1, <3>2
  <2> QED BY <2>2, <2>3
<1>9. ASSUME r = "ok" => Before(x) PROVE Pipe!Finish(e, i)
  <2>1. r = "ok" => \A j \in 1 .. (i - 1) : results[issued[e][j]] # <<>>
    <3>1. \A j \in 1 .. (i - 1) : j \in DOMAIN issued[e] /\ j < i
      BY <1>1
    <3> QED BY <3>1, <1>7, <1>9
  <2>2. results[issued[e][i]] = <<>>
    BY <1>1 DEF Answered
  <2> QED BY <1>1, <1>3, <2>1, <2>2 DEF Pipe!Finish
<1> QED BY <1>1, <1>4, <1>5, <1>6, <1>8, <1>9

(* In a pipe successes are in order too.                                   *)
PipeInv == PipeBase /\ Pipe!SuccessInOrder

(* Initially nothing was issued or answered.                               *)
LEMMA PipeInit == Pipe!Init => PipeInv
  BY DEF Pipe!Init, PipeInv, PipeBase, Pipe!TypeOK, IssuedOnce, Pipe!AnsweredOnce,
         Pipe!SuccessInOrder

(* The invariant is inductive.                                             *)
LEMMA PipeInductive == PipeInv /\ [Pipe!Next]_(Pipe!vars) => PipeInv'
<1> SUFFICES ASSUME PipeInv, [Pipe!Next]_(Pipe!vars) PROVE PipeInv'
  OBVIOUS
<1>1. CASE UNCHANGED Pipe!vars
  BY <1>1 DEF Pipe!vars, PipeInv, PipeBase, Pipe!TypeOK, IssuedOnce, Pipe!AnsweredOnce,
              Pipe!SuccessInOrder
<1>2. ASSUME NEW x \in Transfer, Pipe!Refuse(x) PROVE PipeInv'
  BY <1>2, RefuseBase DEF PipeInv
<1>3. ASSUME NEW x \in Transfer, NEW e \in Endpoint, Pipe!Accept(x, e) PROVE PipeInv'
  BY <1>3, AcceptBase DEF PipeInv
<1>4. ASSUME NEW e \in Endpoint, NEW i \in DOMAIN issued[e], Pipe!Finish(e, i) PROVE PipeInv'
  <2>1. PICK x : x = issued[e][i]
    OBVIOUS
  <2>2. x \in Transfer /\ On(e, x)
    BY <2>1 DEF PipeInv, PipeBase, Pipe!TypeOK, On
  <2>3. PICK r \in {"ok", "error", "aborted"} :
          /\ Answered(x, r)
          /\ r = "ok" => \A j \in 1 .. (i - 1) : results[issued[e][j]] # <<>>
    BY <1>4, <2>1 DEF Pipe!Finish, Answered
  <2>4. r = "ok" => Before(x)
    <3> SUFFICES ASSUME r = "ok", NEW y \in Transfer, IssuedAfter(x, y) PROVE results[y] # <<>>
      BY DEF Before
    <3>1. PICK f \in Endpoint : \E m, j \in DOMAIN issued[f] :
            j < m /\ issued[f][m] = x /\ issued[f][j] = y
      BY DEF IssuedAfter
    <3>2. PICK m \in DOMAIN issued[f], j \in DOMAIN issued[f] :
            j < m /\ issued[f][m] = x /\ issued[f][j] = y
      BY <3>1
    <3>3. f = e /\ m = i
      BY <2>1, <3>2 DEF PipeInv, PipeBase, IssuedOnce
    <3>4. j \in 1 .. (i - 1)
      BY <3>2, <3>3 DEF PipeInv, PipeBase, Pipe!TypeOK
    <3> QED BY <2>3, <3>2, <3>3, <3>4
  <2> QED BY <2>2, <2>3, <2>4, AnswerBase DEF PipeInv
<1> QED BY <1>1, <1>2, <1>3, <1>4 DEF Pipe!Next

(* The completion of a transfer is called once at most, never for one that *)
(* was refused.                                                            *)
THEOREM OneAnswer == Pipe!Spec => []Pipe!AnsweredOnce
<1>1. Pipe!Init => PipeInv
  BY PipeInit
<1>2. PipeInv /\ [Pipe!Next]_(Pipe!vars) => PipeInv'
  BY PipeInductive
<1>3. PipeInv => Pipe!AnsweredOnce
  BY DEF PipeInv, PipeBase
<1> QED BY <1>1, <1>2, <1>3, PTL DEF Pipe!Spec

(* Successes of one pipe are reported after everything issued before them. *)
THEOREM OrderedSuccess == Pipe!Spec => []Pipe!SuccessInOrder
<1>1. Pipe!Init => PipeInv
  BY PipeInit
<1>2. PipeInv /\ [Pipe!Next]_(Pipe!vars) => PipeInv'
  BY PipeInductive
<1>3. PipeInv => Pipe!SuccessInOrder
  BY DEF PipeInv, PipeBase
<1> QED BY <1>1, <1>2, <1>3, PTL DEF Pipe!Spec

-----------------------------------------------------------------------------
(* Every TD is in one place.                                               *)

(* The driver allocates finitely many TDs.                                 *)
LEMMA Finite == IsFiniteSet(TD) /\ Cardinality(TD) \in Nat
<1>1. Pool \in Seq(TD) /\ ToSet(Pool) = TD
  BY ConstantsAssumption
<1>2. PICK n \in Nat : n = Len(Pool)
  BY <1>1
<1>3. Pool \in [1 .. n -> TD]
  BY <1>1, <1>2
<1>4. \A t \in TD : \E i \in 1 .. n : Pool[i] = t
  BY <1>1, <1>3 DEF ToSet
<1>5. IsFiniteSet(1 .. n)
  BY FS_Interval
<1>6. Pool \in Surjection(1 .. n, TD)
  BY <1>3, <1>4, Fun_IsSurj
<1> QED BY <1>5, <1>6, FS_Surjection, FS_CardinalityType

(* Chain, which follows links step by step, finds the members of the list. *)
LEMMA ChainIs ==
  ASSUME NEW l \in Seq(TD), NEW start, NEW next, LinkedBy(l, start, next, Null),
         NEW stop, EndsAt(l, stop), Distinct(l)
  PROVE  Chain(start, next, stop) = ToSet(l)
<1>1. PICK n \in Nat : n = Cardinality(TD)
  BY Finite
<1> DEFINE r == CHOOSE r : Reached(r, n, start, next, stop, Null)
<1>2. Chain(start, next, stop) = r[n]
  BY <1>1 DEF Chain, Reached
<1>3. Reached(r, n, start, next, stop, Null)
  BY ReachExists
<1> HIDE DEF r
<1>4. Null \notin TD
  BY ConstantsAssumption
<1>5. n \in 0 .. n
  OBVIOUS
<1>6. r[n] = {l[i] : i \in {j \in 1 .. Len(l) : j <= n + 1}}
  <2>1. \A k \in 0 .. n : r[k] = FirstOf(l, k + 1)
    BY <1>3, <1>4, ReachIs
  <2> QED BY <1>5, <2>1 DEF FirstOf
<1>7. Len(l) <= n
  BY <1>1, Finite, NotLonger
<1>8. {j \in 1 .. Len(l) : j <= n + 1} = 1 .. Len(l)
  BY <1>7
<1>9. DOMAIN l = 1 .. Len(l)
  OBVIOUS
<1> QED BY <1>2, <1>6, <1>8, <1>9 DEF ToSet

(* Where a TD can be.                                                      *)
FreeP  == <<"list", "free">>
HcP    == <<"list", "hcDone">>
HccaP  == <<"list", "hccaDone">>
QueueP == <<"list", "queue">>
WorkP  == <<"list", "work">>
EpP(e) == <<"endpoint", e>>
Place == {FreeP, HcP, HccaP, QueueP, WorkP} \cup {EpP(e) : e \in Endpoint}

(* The places differ.                                                      *)
LEMMA PlaceFacts ==
  /\ {FreeP, HcP, HccaP, QueueP, WorkP} \subseteq Place
  /\ FreeP # HcP /\ FreeP # HccaP /\ FreeP # QueueP /\ FreeP # WorkP
  /\ HcP # HccaP /\ HcP # QueueP /\ HcP # WorkP
  /\ HccaP # QueueP /\ HccaP # WorkP /\ QueueP # WorkP
  /\ \A e \in Endpoint : /\ EpP(e) \in Place
                         /\ EpP(e) # FreeP /\ EpP(e) # HcP /\ EpP(e) # HccaP
                         /\ EpP(e) # QueueP /\ EpP(e) # WorkP
  /\ \A e, f \in Endpoint : EpP(e) = EpP(f) => e = f
  /\ \A p \in Place : p \in {FreeP, HcP, HccaP, QueueP, WorkP} \/ \E e \in Endpoint : p = EpP(e)
BY DEF Place, FreeP, HcP, HccaP, QueueP, WorkP, EpP

(* The handler has detached the TD it works on.                            *)
Holding == pc \in {"return", "quiesce", "fail", "failReturn"}

(* The endpoints whose chain is on the controller's list.                  *)
Listed(e) == e \in linked /\ ~(Removing /\ e = target)

(* A chain that ends in the tail.                                          *)
TailedBy(l, start, next, end) ==
  l # <<>> /\ LinkedBy(l, start, next, Null) /\ Last(l) = end

(* The list the workloop holds in local variables: the done TDs not handled*)
(* yet, the one being handled first, or what is left of the chain of the   *)
(* endpoint being removed.                                                 *)
WorkIs(l) ==
  /\ pc = "process" => l # <<>> /\ LinkedBy(l, curr, nextTransfer, Null)
  /\ Holding => l # <<>> /\ Head(l) = curr /\ LinkedBy(Tail(l), saved, nextTransfer, Null)
  /\ Removing => TailedBy(l, curr, nextTD, tail[target])
  /\ pc = "removeReturn" => curr # tail[target]
  /\ pc # "process" /\ ~Holding /\ ~Removing => l = <<>>

(* t is in the list at p.                                                  *)
InPlace(s, p, t) == \E i \in 1 .. Len(s[p]) : s[p][i] = t

(* The controller works on the head of a chain that is on its list, and not*)
(* on the tail.                                                            *)
Served ==
  /\ serving # Idle => /\ Listed(serving.ep) /\ serving.td = head[serving.ep]
                       /\ serving.td # tail[serving.ep]
                       /\ serving.next = nextTD[serving.td]
  /\ Removing /\ op = "abort" => head[target] = tail[target]

(* What endpoint says of a TD, which is not cleared when the TD is freed.  *)
Owned(s) ==
  /\ \A t \in TD : InPlace(s, FreeP, t) \/ endpoint[t] \in Endpoint
  /\ \A e \in Endpoint : \/ e \in linked
                         \/ Removing /\ e = target
                         \/ tail[e] \notin TD \/ endpoint[tail[e]] # e
                         \/ InPlace(s, FreeP, tail[e])
  /\ pc \in {"quiesce", "fail"} => target = endpoint[curr]

(* Each listed endpoint has its chain, and the others none.                *)
EndpointsAre(s) ==
  \A e \in Endpoint : IF Listed(e) THEN TailedBy(s[EpP(e)], head[e], nextTD, tail[e])
                      ELSE s[EpP(e)] = <<>>

(* s is how the TDs lie in memory: a list for each place, found from its   *)
(* pointer.                                                                *)
Layout(s) ==
  /\ Arranged(s, Place, TD)
  /\ s[HcP] = hcDone /\ s[HccaP] = hccaDone
  /\ LinkedBy(s[FreeP], freeHead, nextTransfer, Null)
  /\ LinkedBy(s[QueueP], writeDoneHead, nextTransfer, Null)
  /\ EndpointsAre(s)
  /\ WorkIs(s[WorkP])
  /\ Served
  /\ Owned(s)

(* What the program counter and the flags say of the rest.                 *)
Control ==
  /\ wdh = (hccaDone # <<>>)
  /\ \A e \in linked : tail[e] \in TD
  /\ sub # NoSub => /\ sub.x \in Transfer /\ sub.ep \in linked /\ sub.left \in 1..MaxChunks
                    /\ pc \in {"idle", "return", "failReturn", "removeReturn"}
                    /\ pc = "removeReturn" => op \in ResubmitAfter
  /\ pc \in {"process", "return", "quiesce", "fail", "failReturn", "removeReturn"} => curr \in TD
  /\ pc \in {"sleep", "remove", "removeReturn"}
       => /\ op \in {"abort", "clear", "delete"}
          /\ target \in linked <=> ~(Removing /\ op = "delete")
  /\ serving # Idle => serving.ep \in Endpoint /\ serving.td \in TD
  /\ ~failed => pc \notin {"failReturn", "crashed"}

(* What holds also after the error path has run out of its list.           *)
Shape ==
  /\ TypeOK
  /\ Reserved /\ Left
  /\ Control

(* The inductive invariant.                                                *)
TInv == Shape /\ (~failed => \E s : Layout(s))

(* The null pointer points to nothing.                                     *)
LEMMA NullIsNone == Null \notin TD /\ Null \notin Endpoint /\ Null \notin Transfer
BY ConstantsAssumption

(* Every TD is once in the pool.                                           *)
LEMMA PoolIs ==
  /\ Pool \in Seq(TD) /\ Pool # <<>> /\ Len(Pool) \in Nat \ {0}
  /\ \A i, j \in 1 .. Len(Pool) : Pool[i] = Pool[j] => i = j
  /\ \A t \in TD : \E i \in 1 .. Len(Pool) : Pool[i] = t
<1>1. Pool \in Seq(TD) /\ Pool # <<>> /\ IsInjective(Pool) /\ ToSet(Pool) = TD
  BY ConstantsAssumption
<1>2. DOMAIN Pool = 1 .. Len(Pool) /\ Len(Pool) \in Nat \ {0}
  BY <1>1
<1> QED BY <1>1, <1>2 DEF IsInjective, ToSet

(* At the start every TD is in the free list.                              *)
LEMMA InitLayout == Init => \E s : Layout(s)
<1> SUFFICES ASSUME Init PROVE \E s : Layout(s)
  OBVIOUS
<1> DEFINE s == [p \in Place |-> IF p = FreeP THEN Pool ELSE <<>>]
<1>1. /\ s \in [Place -> Seq(TD)] /\ s[FreeP] = Pool
      /\ \A p \in Place : p # FreeP => s[p] = <<>>
  BY PoolIs, PlaceFacts
<1>2. Arranged(s, Place, TD)
  <2>1. \A p \in Place : p # FreeP => Len(s[p]) = 0
    BY <1>1
  <2>2. \A t \in TD : \E p \in Place : \E i \in 1 .. Len(s[p]) : s[p][i] = t
    BY <1>1, PoolIs, PlaceFacts
  <2>3. \A p, q \in Place : \A i \in 1 .. Len(s[p]), j \in 1 .. Len(s[q]) :
          s[p][i] = s[q][j] => p = q /\ i = j
    <3> SUFFICES ASSUME NEW p \in Place, NEW q \in Place, NEW i \in 1 .. Len(s[p]),
                        NEW j \in 1 .. Len(s[q]), s[p][i] = s[q][j]
                 PROVE  p = q /\ i = j
      OBVIOUS
    <3>1. p = FreeP /\ q = FreeP
      BY <2>1
    <3> QED BY <3>1, <1>1, PoolIs
  <2> QED BY <1>1, <2>2, <2>3 DEF Arranged
<1> HIDE DEF s
<1>3. s[HcP] = hcDone /\ s[HccaP] = hccaDone
  BY <1>1, PlaceFacts DEF Init
<1>4. LinkedBy(s[FreeP], freeHead, nextTransfer, Null)
  <2>1. PICK n \in Nat \ {0} : n = Len(Pool)
    BY PoolIs
  <2>2. freeHead = Nth(Pool, 1, Null)
    BY PoolIs DEF Init, Nth
  <2>3. ASSUME NEW k \in 1 .. n PROVE nextTransfer[Pool[k]] = Nth(Pool, k + 1, Null)
    <3> DEFINE i == CHOOSE i \in DOMAIN Pool : Pool[i] = Pool[k]
    <3>1. Pool[k] \in TD /\ DOMAIN Pool = 1 .. n
      BY PoolIs, <2>1
    <3>2. i = k
      BY <3>1, <2>1, PoolIs
    <3>3. nextTransfer[Pool[k]] = IF i = Len(Pool) THEN Null ELSE Pool[i + 1]
      BY <3>1 DEF Init
    <3> HIDE DEF i
    <3> QED BY <2>1, <3>2, <3>3 DEF Nth
  <2> QED BY <1>1, <2>1, <2>2, <2>3 DEF LinkedBy
<1>5. s[QueueP] = <<>> /\ s[WorkP] = <<>>
  BY <1>1, PlaceFacts
<1>6. LinkedBy(s[QueueP], writeDoneHead, nextTransfer, Null)
  BY <1>5 DEF Init, LinkedBy, Nth
<1>7. EndpointsAre(s)
  BY <1>1, PlaceFacts DEF Init, EndpointsAre, Listed
<1>8. WorkIs(s[WorkP]) /\ Served
  BY <1>5 DEF Init, WorkIs, Holding, Removing, Served
<1>9. Owned(s)
  <2>1. \A t \in TD : InPlace(s, FreeP, t)
    BY <1>1, PoolIs DEF InPlace
  <2> QED BY <2>1 DEF Owned, Init
<1> QED BY <1>2, <1>3, <1>4, <1>6, <1>7, <1>8, <1>9 DEF Layout

(* The rest of the invariant holds at the start.                           *)
LEMMA InitShape == Init => Shape
<1> SUFFICES ASSUME Init PROVE Shape
  OBVIOUS
<1>1. TypeOK
  <2>1. nextTransfer \in [TD -> TDOrNull]
    <3> SUFFICES ASSUME NEW t \in TD PROVE nextTransfer[t] \in TDOrNull
      BY DEF Init
    <3> DEFINE i == CHOOSE i \in DOMAIN Pool : Pool[i] = t
    <3>1. i \in 1 .. Len(Pool)
      BY PoolIs
    <3>2. nextTransfer[t] = IF i = Len(Pool) THEN Null ELSE Pool[i + 1]
      BY DEF Init
    <3> HIDE DEF i
    <3> QED BY <3>1, <3>2, PoolIs DEF TDOrNull
  <2>2. freeHead \in TDOrNull
    BY PoolIs DEF Init, TDOrNull
  <2>3. sub \in [x : Transfer \cup {Null}, ep : Endpoint \cup {Null}, left : 0..MaxChunks]
        /\ serving \in [ep : Endpoint \cup {Null}, td : TDOrNull, next : TDOrNull]
        /\ opsLeft \in 0..MaxOps
    BY ConstantsAssumption DEF Init, NoSub, Idle, TDOrNull
  <2>4. /\ nextTD \in [TD -> TDOrNull]
        /\ cc \in [TD -> {"notAccessed", "ok", "error"}]
        /\ last \in [TD -> BOOLEAN]
        /\ genCompletion \in [TD -> Transfer \cup {Null}]
        /\ endpoint \in [TD -> Endpoint \cup {Null}]
        /\ head \in [Endpoint -> TDOrNull] /\ tail \in [Endpoint -> TDOrNull]
        /\ halted \in [Endpoint -> BOOLEAN] /\ skip \in [Endpoint -> BOOLEAN]
    BY DEF Init, TDOrNull
  <2>0. \A S : <<>> \in Seq(S)
    BY EmptySeq
  <2>5. /\ linked \in SUBSET Endpoint /\ listOn \in BOOLEAN
        /\ hcDone \in Seq(TD) /\ hccaDone \in Seq(TD)
        /\ wdh \in BOOLEAN /\ writeDoneHead \in TDOrNull /\ signal \in BOOLEAN
        /\ curr \in TDOrNull /\ saved \in TDOrNull
    BY <2>0 DEF Init, TDOrNull
  <2>6. /\ status \in [Transfer -> {"new", "accepted", "refused"}]
        /\ results \in [Transfer -> Seq({"ok", "error", "aborted"})]
        /\ issued \in [Endpoint -> Seq(Transfer)]
        /\ parts \in [Transfer -> SUBSET TD]
        /\ failed \in BOOLEAN
    BY <2>0 DEF Init
  <2>7. pc = "idle" /\ target = Null /\ op = "none"
    BY DEF Init
  <2> QED BY <2>1, <2>2, <2>3, <2>4, <2>5, <2>6, <2>7 DEF TypeOK
<1> QED BY <1>1 DEF Shape, Control, Init, Reserved, Left, Removing

-----------------------------------------------------------------------------
(* The types by group.                                                     *)
TypeTD ==
  /\ nextTransfer \in [TD -> TDOrNull]
  /\ nextTD \in [TD -> TDOrNull]
  /\ cc \in [TD -> {"notAccessed", "ok", "error"}]
  /\ last \in [TD -> BOOLEAN]
  /\ genCompletion \in [TD -> Transfer \cup {Null}]
  /\ endpoint \in [TD -> Endpoint \cup {Null}]
  /\ freeHead \in TDOrNull
TypeEd ==
  /\ head \in [Endpoint -> TDOrNull]
  /\ tail \in [Endpoint -> TDOrNull]
  /\ halted \in [Endpoint -> BOOLEAN]
  /\ skip \in [Endpoint -> BOOLEAN]
  /\ linked \in SUBSET Endpoint
  /\ listOn \in BOOLEAN
TypeHc ==
  /\ serving \in [ep : Endpoint \cup {Null}, td : TDOrNull, next : TDOrNull]
  /\ hcDone \in Seq(TD)
  /\ hccaDone \in Seq(TD)
  /\ wdh \in BOOLEAN
TypeWl ==
  /\ writeDoneHead \in TDOrNull
  /\ signal \in BOOLEAN
  /\ pc \in {"idle", "process", "return", "quiesce", "fail", "failReturn",
             "sleep", "remove", "removeReturn", "crashed"}
  /\ curr \in TDOrNull
  /\ saved \in TDOrNull
  /\ target \in Endpoint \cup {Null}
  /\ op \in {"none", "abort", "clear", "delete"}
  /\ sub \in [x : Transfer \cup {Null}, ep : Endpoint \cup {Null}, left : 0..MaxChunks]
  /\ opsLeft \in 0..MaxOps
TypeHist ==
  /\ status \in [Transfer -> {"new", "accepted", "refused"}]
  /\ results \in [Transfer -> Seq({"ok", "error", "aborted"})]
  /\ issued \in [Endpoint -> Seq(Transfer)]
  /\ parts \in [Transfer -> SUBSET TD]
  /\ failed \in BOOLEAN

(* The types, group by group.                                              *)
LEMMA TypeParts == TypeOK <=> TypeTD /\ TypeEd /\ TypeHc /\ TypeWl /\ TypeHist
BY DEF TypeOK, TypeTD, TypeEd, TypeHc, TypeWl, TypeHist

(* The filter's reversal leads from TDs to TDs.                            *)
LEMMA LinkReversedType ==
  ASSUME TypeOK, NEW b \in Seq(TD), b # <<>>
  PROVE  LinkReversed(b) \in [TD -> TDOrNull] /\ Last(b) \in TD
<1>1. PICK n \in Nat \ {0} : n = Len(b)
  BY EmptySeq
<1>2. Last(b) \in TD
  BY <1>1 DEF Last
<1>3. ASSUME NEW t \in TD PROVE LinkReversed(b)[t] \in TDOrNull
  <2>1. CASE t \notin ToSet(b)
    BY <2>1 DEF LinkReversed, TypeOK
  <2>2. CASE t \in ToSet(b)
    <3> DEFINE i == CHOOSE i \in DOMAIN b : b[i] = t
    <3>1. i \in 1 .. n
      BY <2>2, <1>1 DEF ToSet
    <3>2. LinkReversed(b)[t] = IF i = 1 THEN writeDoneHead ELSE b[i - 1]
      BY <2>2 DEF LinkReversed
    <3> HIDE DEF i
    <3>3. i # 1 => i - 1 \in 1 .. n
      BY <3>1
    <3>4. i # 1 => b[i - 1] \in TD
      BY <3>3, <1>1
    <3> QED BY <3>2, <3>4 DEF TypeOK, TDOrNull
  <2> QED BY <2>1, <2>2
<1>4. LinkReversed(b) = [t \in TD |-> LinkReversed(b)[t]]
  BY DEF LinkReversed
<1> QED BY <1>2, <1>3, <1>4

(* The controller starts only where there is something to do.              *)
LEMMA ServedHead ==
  ASSUME Shape, NEW s, Layout(s), NEW e \in Endpoint, HCStart(e)
  PROVE  Listed(e) /\ head[e] \in TD
<1>1. Listed(e)
  BY DEF HCStart, Listed, Shape, Reserved, Removing
<1>2. TailedBy(s[EpP(e)], head[e], nextTD, tail[e]) /\ s[EpP(e)] \in Seq(TD)
  BY <1>1, PlaceFacts DEF Layout, EndpointsAre, Arranged
<1> QED BY <1>1, <1>2, LinkEmpty, NullIsNone DEF TailedBy

(* A completion is called with one of the results.                         *)
LEMMA CalledType ==
  ASSUME TypeOK, NEW t \in TD, NEW r \in {"ok", "error", "aborted"}
  PROVE  Called(t, r) \in [Transfer -> Seq({"ok", "error", "aborted"})]
<1>1. \A l \in Seq({"ok", "error", "aborted"}) : Append(l, r) \in Seq({"ok", "error", "aborted"})
  OBVIOUS
<1> QED BY <1>1 DEF Called, TypeOK

(* The types are kept. This needs the lists: a step may only dereference a *)
(* pointer that is not null.                                               *)
LEMMA TypeStep ==
  ASSUME Shape, ~failed => \E s : Layout(s), Next
  PROVE  TypeOK'
<1> USE NullIsNone DEF Shape, Control
<1>1. ASSUME NEW e \in Endpoint, CreateEndpoint(e) PROVE TypeOK'
  BY <1>1 DEF TypeOK, CreateEndpoint, TDOrNull, PopFree, hcVars, wlVars, history
<1>2. ASSUME NEW x \in Transfer, NEW e \in Endpoint, SubmitStalled(x, e) PROVE TypeOK'
  BY <1>2 DEF TypeOK, SubmitStalled, tdVars, edVars, hcVars, wlVars
<1>3. ASSUME NEW x \in Transfer, NEW e \in Endpoint, NEW n \in 1..MaxChunks,
             SubmitStart(x, e, n)
      PROVE  TypeOK'
  BY <1>3, ConstantsAssumption DEF TypeOK, SubmitStart, tdVars, hcVars, wlVars, history
<1>4. ASSUME SubmitChunk PROVE TypeOK'
  <2> DEFINE c == tail[sub.ep] final == sub.left = 1
  <2>0. /\ c \in TD /\ sub.x \in Transfer /\ sub.ep \in Endpoint /\ sub.left \in 1..MaxChunks
        /\ sub \in [x : Transfer \cup {Null}, ep : Endpoint \cup {Null}, left : 0..MaxChunks]
    BY <1>4 DEF SubmitChunk, TypeOK
  <2>a. PICK t \in TD : /\ PopFree(sub.ep, t)
            /\ nextTransfer' = [nextTransfer EXCEPT ![t] = Null, ![c] = t]
            /\ nextTD' = [nextTD EXCEPT ![t] = Null, ![c] = t]
            /\ last' = [last EXCEPT ![t] = FALSE, ![c] = final]
            /\ genCompletion' = [genCompletion EXCEPT ![t] = Null,
                                     ![c] = IF final THEN sub.x ELSE @]
            /\ tail' = [tail EXCEPT ![sub.ep] = t]
    BY <1>4 DEF SubmitChunk
  <2>b. /\ cc' = [cc EXCEPT ![c] = "notAccessed"]
        /\ parts' = [parts EXCEPT ![sub.x] = @ \cup {c}]
        /\ status' = IF final THEN [status EXCEPT ![sub.x] = "accepted"] ELSE status
        /\ issued' = IF final THEN [issued EXCEPT ![sub.ep] = Append(@, sub.x)] ELSE issued
        /\ sub' = IF final THEN NoSub ELSE [sub EXCEPT !.left = @ - 1]
        /\ UNCHANGED <<head, halted, skip, linked, listOn, hcVars, writeDoneHead,
                       signal, wlVars, results, failed>>
    BY <1>4 DEF SubmitChunk
  <2>1. TypeTD'
    <3>1. /\ nextTransfer' \in [TD -> TDOrNull] /\ nextTD' \in [TD -> TDOrNull]
          /\ last' \in [TD -> BOOLEAN]
      BY <2>0, <2>a, TypeParts DEF TypeTD, TDOrNull
    <3>2. genCompletion' \in [TD -> Transfer \cup {Null}]
      BY <2>0, <2>a, TypeParts DEF TypeTD
    <3>3. cc' \in [TD -> {"notAccessed", "ok", "error"}]
      BY <2>b, TypeParts DEF TypeTD
    <3>4. endpoint' \in [TD -> Endpoint \cup {Null}] /\ freeHead' \in TDOrNull
      BY <2>0, <2>a, TypeParts DEF TypeTD, PopFree
    <3> QED BY <3>1, <3>2, <3>3, <3>4 DEF TypeTD
  <2>2. TypeEd'
    BY <2>0, <2>a, <2>b, TypeParts DEF TypeEd, TDOrNull
  <2>3. TypeHc'
    BY <2>b, TypeParts DEF TypeHc, hcVars
  <2>4. TypeWl'
    <3>1. sub' \in [x : Transfer \cup {Null}, ep : Endpoint \cup {Null}, left : 0..MaxChunks]
      BY <2>0, <2>b, ConstantsAssumption DEF NoSub
    <3> QED BY <2>b, <3>1, TypeParts DEF TypeWl, wlVars
  <2>5. TypeHist'
    <3>1. parts' \in [Transfer -> SUBSET TD]
      BY <2>0, <2>b, TypeParts DEF TypeHist
    <3>2. status' \in [Transfer -> {"new", "accepted", "refused"}]
      BY <2>0, <2>b, TypeParts DEF TypeHist
    <3>3. issued' \in [Endpoint -> Seq(Transfer)]
      BY <2>0, <2>b, TypeParts DEF TypeHist
    <3> QED BY <2>b, <3>1, <3>2, <3>3, TypeParts DEF TypeHist
  <2> QED BY <2>1, <2>2, <2>3, <2>4, <2>5 DEF TypeOK, TypeTD, TypeEd, TypeHc, TypeWl, TypeHist
<1>5. ASSUME SubmitFails PROVE TypeOK'
  BY <1>5, ConstantsAssumption DEF TypeOK, SubmitFails, tdVars, edVars, hcVars, wlVars, NoSub
<1>6. ASSUME NEW e \in Endpoint, HCStart(e) PROVE TypeOK'
  <2>0. head[e] \in TD /\ nextTD[head[e]] \in TDOrNull
    <3>1. head[e] \in TD
      BY <1>6, ServedHead DEF HCStart
    <3> QED BY <3>1 DEF TypeOK
  <2>1. TypeTD'
    BY <1>6, <2>0, TypeParts DEF TypeTD, HCStart, TDOrNull, tdVars, edVars, hcVars, wlVars,
       history
  <2>2. TypeEd'
    BY <1>6, <2>0, TypeParts DEF TypeEd, HCStart, TDOrNull, tdVars, edVars, hcVars, wlVars,
       history
  <2>3. TypeHc'
    BY <1>6, <2>0, TypeParts DEF TypeHc, HCStart, TDOrNull, tdVars, edVars, hcVars, wlVars,
       history
  <2>4. TypeWl'
    BY <1>6, <2>0, TypeParts DEF TypeWl, HCStart, TDOrNull, tdVars, edVars, hcVars, wlVars,
       history
  <2>5. TypeHist'
    BY <1>6, <2>0, TypeParts DEF TypeHist, HCStart, TDOrNull, tdVars, edVars, hcVars, wlVars,
       history
  <2> QED BY <2>1, <2>2, <2>3, <2>4, <2>5 DEF TypeOK, TypeTD, TypeEd, TypeHc, TypeWl, TypeHist
<1>7. ASSUME HCStop PROVE TypeOK'
  BY <1>7 DEF TypeOK, HCStop, tdVars, edVars, wlVars, history, TDOrNull, Idle
<1>8. ASSUME NEW e \in Endpoint, NEW code \in {"ok", "error"}, HCRetire(e, code) PROVE TypeOK'
  BY <1>8 DEF TypeOK, HCRetire, wlVars, history, TDOrNull, Idle
<1>9. ASSUME HCWriteback PROVE TypeOK'
  BY <1>9 DEF TypeOK, HCWriteback, tdVars, edVars, wlVars, history, TDOrNull
<1>10. ASSUME FilterInterrupt PROVE TypeOK'
  <2>0. LinkReversed(hccaDone) \in [TD -> TDOrNull] /\ Last(hccaDone) \in TD
    BY <1>10, LinkReversedType DEF FilterInterrupt, TypeOK
  <2>z. <<>> \in Seq(TD)
    BY EmptySeq
  <2>1. TypeTD'
    BY <1>10, <2>0, <2>z, TypeParts DEF TypeTD, FilterInterrupt, TDOrNull, tdVars, edVars,
       hcVars, wlVars, history
  <2>2. TypeEd'
    BY <1>10, <2>0, <2>z, TypeParts DEF TypeEd, FilterInterrupt, TDOrNull, tdVars, edVars,
       hcVars, wlVars, history
  <2>3. TypeHc'
    BY <1>10, <2>0, <2>z, TypeParts DEF TypeHc, FilterInterrupt, TDOrNull, tdVars, edVars,
       hcVars, wlVars, history
  <2>4. TypeWl'
    BY <1>10, <2>0, <2>z, TypeParts DEF TypeWl, FilterInterrupt, TDOrNull, tdVars, edVars,
       hcVars, wlVars, history
  <2>5. TypeHist'
    BY <1>10, <2>0, <2>z, TypeParts DEF TypeHist, FilterInterrupt, TDOrNull, tdVars, edVars,
       hcVars, wlVars, history
  <2> QED BY <2>1, <2>2, <2>3, <2>4, <2>5 DEF TypeOK, TypeTD, TypeEd, TypeHc, TypeWl, TypeHist
<1>11. ASSUME HandleInterrupt PROVE TypeOK'
  <2>1. TypeTD'
    BY <1>11, TypeParts DEF TypeTD, HandleInterrupt, Continue, TDOrNull, tdVars, edVars,
       hcVars, wlVars, history
  <2>2. TypeEd'
    BY <1>11, TypeParts DEF TypeEd, HandleInterrupt, Continue, TDOrNull, tdVars, edVars,
       hcVars, wlVars, history
  <2>3. TypeHc'
    BY <1>11, TypeParts DEF TypeHc, HandleInterrupt, Continue, TDOrNull, tdVars, edVars,
       hcVars, wlVars, history
  <2>4. TypeWl'
    BY <1>11, TypeParts DEF TypeWl, HandleInterrupt, Continue, TDOrNull, tdVars, edVars,
       hcVars, wlVars, history
  <2>5. TypeHist'
    BY <1>11, TypeParts DEF TypeHist, HandleInterrupt, Continue, TDOrNull, tdVars, edVars,
       hcVars, wlVars, history
  <2> QED BY <2>1, <2>2, <2>3, <2>4, <2>5 DEF TypeOK, TypeTD, TypeEd, TypeHc, TypeWl, TypeHist
<1>12. ASSUME CompleteTransfer PROVE TypeOK'
  BY <1>12 DEF TypeOK, CompleteTransfer, CopiedBack, Called, tdVars, edVars, hcVars, TDOrNull
<1>13. ASSUME HandlerReturn PROVE TypeOK'
  BY <1>13 DEF TypeOK, HandlerReturn, Continue, ReturnTransfer, edVars, hcVars, history,
     TDOrNull
<1>14. ASSUME FailTransfer PROVE TypeOK'
  <2>0. endpoint[curr] \in Endpoint \cup {Null} /\ nextTransfer[curr] \in TDOrNull
    BY <1>14 DEF FailTransfer, TypeOK
  <2>a. pc' = "quiesce" /\ target' = endpoint[curr] /\ saved' = nextTransfer[curr]
    BY <1>14 DEF FailTransfer
  <2>1. TypeTD'
    BY <1>14, TypeParts DEF TypeTD, FailTransfer, TDOrNull, tdVars, edVars, hcVars, wlVars,
       history
  <2>2. TypeEd'
    BY <1>14, TypeParts DEF TypeEd, FailTransfer, TDOrNull, tdVars, edVars, hcVars, wlVars,
       history
  <2>3. TypeHc'
    BY <1>14, TypeParts DEF TypeHc, FailTransfer, TDOrNull, tdVars, edVars, hcVars, wlVars,
       history
  <2>4. TypeWl'
    BY <1>14, TypeParts, <2>0, <2>a DEF TypeWl, FailTransfer, TDOrNull, tdVars, edVars,
       hcVars, wlVars, history
  <2>5. TypeHist'
    BY <1>14, TypeParts DEF TypeHist, FailTransfer, TDOrNull, tdVars, edVars, hcVars, wlVars,
       history
  <2> QED BY <2>1, <2>2, <2>3, <2>4, <2>5 DEF TypeOK, TypeTD, TypeEd, TypeHc, TypeWl, TypeHist
<1>15. ASSUME Quiesced PROVE TypeOK'
  BY <1>15 DEF TypeOK, Quiesced, tdVars, edVars, hcVars, history, TDOrNull
<1>16. ASSUME FailStep PROVE TypeOK'
  <2> DEFINE n == nextTransfer[curr]
  <2>0. curr \in TD /\ n \in TDOrNull
    BY <1>16 DEF FailStep, TypeOK
  <2>a. /\ failed' = TRUE /\ parts' = CopiedBack(curr)
        /\ UNCHANGED <<tail, linked, listOn, hcVars, writeDoneHead, signal, saved,
                       target, op, opsLeft, sub, status, issued>>
    BY <1>16 DEF FailStep
  <2>b. \/ pc' = "crashed" /\ UNCHANGED <<tdVars, head, halted, skip, curr, results>>
        \/ /\ n # Null
           /\ head' = [head EXCEPT ![target] = n]
           /\ halted' = [halted EXCEPT ![target] = FALSE]
           /\ \/ /\ skip' = [skip EXCEPT ![target] = FALSE]
                 /\ results' = Called(curr, "error")
                 /\ pc' = "failReturn"
                 /\ UNCHANGED <<tdVars, curr>>
              \/ /\ ReturnTransfer(curr)
                 /\ curr' = n
                 /\ UNCHANGED <<skip, pc, results>>
    BY <1>16 DEF FailStep
  <2>1. TypeTD'
    BY <2>0, <2>b, TypeParts DEF TypeTD, ReturnTransfer, TDOrNull, tdVars
  <2>2. TypeEd'
    <3>1. head' \in [Endpoint -> TDOrNull] /\ halted' \in [Endpoint -> BOOLEAN]
          /\ skip' \in [Endpoint -> BOOLEAN]
      BY <2>0, <2>b, TypeParts DEF TypeEd
    <3> QED BY <2>a, <3>1, TypeParts DEF TypeEd
  <2>3. TypeHc'
    BY <2>a, TypeParts DEF TypeHc, hcVars
  <2>4. TypeWl'
    <3>1. curr' \in TDOrNull
      BY <2>0, <2>b DEF TDOrNull
    <3>2. pc' \in {"crashed", "failReturn", "fail"}
      BY <1>16, <2>b DEF FailStep
    <3> QED BY <2>a, <3>1, <3>2, TypeParts DEF TypeWl
  <2>5. TypeHist'
    <3>1. parts' \in [Transfer -> SUBSET TD]
      BY <2>a, TypeParts DEF TypeHist, CopiedBack
    <3>2. results' \in [Transfer -> Seq({"ok", "error", "aborted"})]
      BY <2>0, <2>b, CalledType, TypeParts DEF TypeHist
    <3> QED BY <2>a, <3>1, <3>2, TypeParts DEF TypeHist
  <2> QED BY <2>1, <2>2, <2>3, <2>4, <2>5 DEF TypeOK, TypeTD, TypeEd, TypeHc, TypeWl, TypeHist
<1>17. ASSUME FailRanOut PROVE TypeOK'
  BY <1>17 DEF TypeOK, FailRanOut, Continue, tdVars, edVars, hcVars, history, TDOrNull
<1>18. ASSUME NEW e \in Endpoint, NEW o \in Ops, RemovalStart(e, o) PROVE TypeOK'
  BY <1>18, ConstantsAssumption DEF TypeOK, RemovalStart, tdVars, hcVars, history, TDOrNull
<1>19. ASSUME SleepDone PROVE TypeOK'
  BY <1>19 DEF TypeOK, SleepDone, Reserved, tdVars, hcVars, history, TDOrNull
<1>20. ASSUME RemoveStep PROVE TypeOK'
  BY <1>20 DEF TypeOK, RemoveStep, CopiedBack, Called, tdVars, edVars, hcVars, TDOrNull
<1>21. ASSUME RemoveReturn PROVE TypeOK'
  BY <1>21 DEF TypeOK, RemoveReturn, ReturnTransfer, edVars, hcVars, history, TDOrNull
<1>22. ASSUME RemoveDone PROVE TypeOK'
  <2>0. target \in Endpoint /\ tail[target] \in TDOrNull
    BY <1>22 DEF RemoveDone, Reserved, TypeOK
  <2>1. TypeTD'
    BY <1>22, TypeParts, <2>0 DEF TypeTD, RemoveDone, ReturnTransfer, TDOrNull, tdVars,
       edVars, hcVars, wlVars, history
  <2>2. TypeEd'
    BY <1>22, TypeParts DEF TypeEd, RemoveDone, ReturnTransfer, TDOrNull, tdVars, edVars,
       hcVars, wlVars, history
  <2>3. TypeHc'
    BY <1>22, TypeParts DEF TypeHc, RemoveDone, ReturnTransfer, TDOrNull, tdVars, edVars,
       hcVars, wlVars, history
  <2>4. TypeWl'
    BY <1>22, TypeParts DEF TypeWl, RemoveDone, ReturnTransfer, TDOrNull, tdVars, edVars,
       hcVars, wlVars, history
  <2>5. TypeHist'
    BY <1>22, TypeParts DEF TypeHist, RemoveDone, ReturnTransfer, TDOrNull, tdVars, edVars,
       hcVars, wlVars, history
  <2> QED BY <2>1, <2>2, <2>3, <2>4, <2>5 DEF TypeOK, TypeTD, TypeEd, TypeHc, TypeWl, TypeHist
<1> QED
  BY <1>1, <1>2, <1>3, <1>4, <1>5, <1>6, <1>7, <1>8, <1>9, <1>10, <1>11, <1>12, <1>13,
     <1>14, <1>15, <1>16, <1>17, <1>18, <1>19, <1>20, <1>21, <1>22
     DEF Next, Client, Submission, Controller, Workloop

(* So is what the program counter says.                                    *)
LEMMA ControlStep ==
  ASSUME Shape, ~failed => \E s : Layout(s), Next, TypeOK'
  PROVE  Control'
<1> USE NullIsNone DEF Shape, Control
<1>1. ASSUME NEW e \in Endpoint, CreateEndpoint(e) PROVE Control'
  BY <1>1 DEF CreateEndpoint, GateFree, hcVars, wlVars, history, Removing, TypeOK
<1>2. ASSUME NEW x \in Transfer, NEW e \in Endpoint, SubmitStalled(x, e) PROVE Control'
  BY <1>2 DEF SubmitStalled, tdVars, edVars, hcVars, wlVars, Removing
<1>3. ASSUME NEW x \in Transfer, NEW e \in Endpoint, NEW n \in 1..MaxChunks,
             SubmitStart(x, e, n)
      PROVE  Control'
  BY <1>3 DEF SubmitStart, MaySubmit, InCallback, tdVars, hcVars, wlVars, history, Removing
<1>4. ASSUME SubmitChunk PROVE Control'
  <2>1. sub' = NoSub \/ (sub' = [sub EXCEPT !.left = @ - 1] /\ sub.left # 1)
    BY <1>4 DEF SubmitChunk
  <2>2. \E t \in TD : tail' = [tail EXCEPT ![sub.ep] = t]
    BY <1>4 DEF SubmitChunk
  <2>3. \A e \in linked : tail'[e] \in TD
    BY <2>2 DEF TypeOK
  <2>4. sub' # NoSub => /\ sub'.x \in Transfer /\ sub'.ep \in linked /\ sub'.left \in 1..MaxChunks
    <3>1. /\ sub \in [x : Transfer \cup {Null}, ep : Endpoint \cup {Null}, left : 0..MaxChunks]
          /\ sub.x \in Transfer /\ sub.ep \in linked /\ sub.left \in 1..MaxChunks
          /\ MaxChunks \in Nat
      BY <1>4, ConstantsAssumption DEF SubmitChunk, TypeOK
    <3>2. CASE sub' = [sub EXCEPT !.left = @ - 1] /\ sub.left # 1
      <4>1. sub'.x = sub.x /\ sub'.ep = sub.ep /\ sub'.left = sub.left - 1
        BY <3>1, <3>2
      <4>2. sub.left - 1 \in 1..MaxChunks
        BY <3>1, <3>2
      <4> QED BY <3>1, <4>1, <4>2
    <3> QED BY <2>1, <3>2
  <2> QED BY <1>4, <2>3, <2>4 DEF SubmitChunk, hcVars, wlVars, Removing
<1>5. ASSUME SubmitFails PROVE Control'
  BY <1>5 DEF SubmitFails, tdVars, edVars, hcVars, wlVars, Removing
<1>6. ASSUME NEW e \in Endpoint, HCStart(e) PROVE Control'
  <2>1. head[e] \in TD
    BY <1>6, ServedHead DEF HCStart
  <2> QED BY <1>6, <2>1 DEF HCStart, tdVars, edVars, wlVars, history, Removing
<1>7. ASSUME HCStop PROVE Control'
  BY <1>7 DEF HCStop, tdVars, edVars, wlVars, history, Removing
<1>8. ASSUME NEW e \in Endpoint, NEW code \in {"ok", "error"}, HCRetire(e, code) PROVE Control'
  BY <1>8 DEF HCRetire, wlVars, history, Removing
<1>9. ASSUME HCWriteback PROVE Control'
  BY <1>9 DEF HCWriteback, tdVars, edVars, wlVars, history, Removing
<1>10. ASSUME FilterInterrupt PROVE Control'
  BY <1>10 DEF FilterInterrupt, edVars, wlVars, history, Removing
<1>11. ASSUME HandleInterrupt PROVE Control'
  BY <1>11 DEF HandleInterrupt, GateFree, Continue, tdVars, edVars, hcVars, history,
     Removing, TypeOK, TDOrNull
<1>12. ASSUME CompleteTransfer PROVE Control'
  BY <1>12 DEF CompleteTransfer, tdVars, edVars, hcVars, Removing
<1>13. ASSUME HandlerReturn PROVE Control'
  BY <1>13 DEF HandlerReturn, Continue, edVars, hcVars, history, Removing, TypeOK, TDOrNull
<1>14. ASSUME FailTransfer PROVE Control'
  BY <1>14 DEF FailTransfer, tdVars, hcVars, history, Removing
<1>15. ASSUME Quiesced PROVE Control'
  BY <1>15 DEF Quiesced, tdVars, edVars, hcVars, history, Removing
<1>16. ASSUME FailStep PROVE Control'
  BY <1>16 DEF FailStep, hcVars, Removing, TypeOK, TDOrNull
<1>17. ASSUME FailRanOut PROVE Control'
  BY <1>17 DEF FailRanOut, Continue, tdVars, edVars, hcVars, history, Removing, TypeOK, TDOrNull
<1>18. ASSUME NEW e \in Endpoint, NEW o \in Ops, RemovalStart(e, o) PROVE Control'
  BY <1>18, ConstantsAssumption DEF RemovalStart, GateFree, tdVars, hcVars, history, Removing
<1>19. ASSUME SleepDone PROVE Control'
  BY <1>19 DEF SleepDone, tdVars, hcVars, history, Removing
<1>20. ASSUME RemoveStep PROVE Control'
  BY <1>20 DEF RemoveStep, tdVars, edVars, hcVars, Removing, TypeOK, TDOrNull
<1>21. ASSUME RemoveReturn PROVE Control'
  BY <1>21 DEF RemoveReturn, edVars, hcVars, history, Removing
<1>22. ASSUME RemoveDone PROVE Control'
  BY <1>22 DEF RemoveDone, hcVars, history, Removing
<1> QED
  BY <1>1, <1>2, <1>3, <1>4, <1>5, <1>6, <1>7, <1>8, <1>9, <1>10, <1>11, <1>12, <1>13,
     <1>14, <1>15, <1>16, <1>17, <1>18, <1>19, <1>20, <1>21, <1>22
     DEF Next, Client, Submission, Controller, Workloop

(* The links of all but S are the same in both.                            *)
Same(n1, n2, S) == \A t \in TD \ S : n2[t] = n1[t]

(* The list has no member in S.                                            *)
Avoids(l, S) == \A i \in 1 .. Len(l) : l[i] \notin S

(* A list stays when only links of others change.                          *)
LEMMA LinkAvoids ==
  ASSUME NEW l \in Seq(TD), NEW start, NEW n1, NEW n2, LinkedBy(l, start, n1, Null),
         NEW S, Same(n1, n2, S), Avoids(l, S)
  PROVE  LinkedBy(l, start, n2, Null)
<1>1. \A i \in 1 .. Len(l) : l[i] \in TD \ S
  BY DEF Avoids
<1>2. \A i \in 1 .. Len(l) : n2[l[i]] = n1[l[i]]
  BY <1>1 DEF Same
<1> QED BY <1>2, LinkKeeps

(* So does a chain that ends in the tail.                                  *)
LEMMA TailedAvoids ==
  ASSUME NEW l \in Seq(TD), NEW start, NEW n1, NEW n2, NEW x, TailedBy(l, start, n1, x),
         NEW S, Same(n1, n2, S), Avoids(l, S)
  PROVE  TailedBy(l, start, n2, x)
BY LinkAvoids DEF TailedBy

(* What Arranged means for two lists at a time.                            *)
LEMMA ArrangedParts ==
  ASSUME NEW s, Arranged(s, Place, TD)
  PROVE  /\ \A p \in Place : s[p] \in Seq(TD) /\ Distinct(s[p])
         /\ \A p, q \in Place : p # q => \A i \in 1 .. Len(s[q]) : Avoids(s[p], {s[q][i]})
         /\ \A t \in TD : \E p \in Place : InPlace(s, p, t)
         /\ \A p, q \in Place : \A t : InPlace(s, p, t) /\ InPlace(s, q, t) => p = q
<1>1. \A p \in Place : s[p] \in Seq(TD) /\ Distinct(s[p])
  BY DEF Arranged, Distinct
<1>2. \A p, q \in Place : p # q => \A i \in 1 .. Len(s[q]) : Avoids(s[p], {s[q][i]})
  BY DEF Arranged, Avoids
<1>3. \A t \in TD : \E p \in Place : InPlace(s, p, t)
  BY DEF Arranged, InPlace
<1>4. \A p, q \in Place : \A t : InPlace(s, p, t) /\ InPlace(s, q, t) => p = q
  <2> SUFFICES ASSUME NEW p \in Place, NEW q \in Place, NEW t, InPlace(s, p, t), InPlace(s, q, t)
               PROVE  p = q
    OBVIOUS
  <2>1. PICK i \in 1 .. Len(s[p]) : s[p][i] = t
    BY DEF InPlace
  <2>2. PICK j \in 1 .. Len(s[q]) : s[q][j] = t
    BY DEF InPlace
  <2>3. \A a, b \in Place : \A u \in 1 .. Len(s[a]), v \in 1 .. Len(s[b]) :
          s[a][u] = s[b][v] => a = b
    BY DEF Arranged
  <2> QED BY ONLY <2>1, <2>2, <2>3, p \in Place, q \in Place
<1> QED BY <1>1, <1>2, <1>3, <1>4

(* To avoid both is to avoid each.                                         *)
LEMMA AvoidsTwo ==
  ASSUME NEW l, NEW a, NEW b, Avoids(l, {a}), Avoids(l, {b})
  PROVE  Avoids(l, {a, b})
BY DEF Avoids

(* The first and the last of a list.                                       *)
LEMMA FirstIs ==
  ASSUME NEW l \in Seq(TD), l # <<>>
  PROVE  /\ 1 \in 1 .. Len(l) /\ Len(l) \in 1 .. Len(l) /\ Head(l) = l[1] /\ Last(l) = l[Len(l)]
         /\ Head(l) \in TD /\ Last(l) \in TD /\ Tail(l) \in Seq(TD)
<1>1. Len(l) \in Nat \ {0}
  BY EmptySeq
<1> QED BY <1>1 DEF Last

(* The rest of a list does not have its first.                             *)
LEMMA TailAvoids ==
  ASSUME NEW l \in Seq(TD), l # <<>>, Distinct(l)
  PROVE  Avoids(Tail(l), {Head(l)}) /\ \A S : Avoids(l, S) => Avoids(Tail(l), S)
<1>1. PICK k \in Nat : Len(l) = k + 1
  BY TailIs
<1>2. /\ Len(Tail(l)) = k /\ Head(l) = l[1]
      /\ \A i \in 1 .. k : Tail(l)[i] = l[i + 1] /\ i + 1 \in 1 .. k + 1 /\ i + 1 # 1
  BY <1>1, TailIs
<1>3. 1 \in 1 .. k + 1
  OBVIOUS
<1> QED BY <1>1, <1>2, <1>3 DEF Avoids, Distinct

(* The head of a chain is taken off, unless it is the tail.                *)
LEMMA TailedPop ==
  ASSUME NEW l \in Seq(TD), Distinct(l), NEW start, NEW next, NEW x,
         TailedBy(l, start, next, x)
  PROVE  /\ start = Head(l)
         /\ start # x => TailedBy(Tail(l), next[start], next, x)
         /\ start = x => l = <<x>>
<1>1. PICK k \in Nat : Len(l) = k + 1
  BY TailIs DEF TailedBy
<1>2. start = Head(l) /\ LinkedBy(Tail(l), next[start], next, Null)
  BY LinkPop DEF TailedBy
<1>3. /\ Tail(l) \in Seq(TD) /\ Len(Tail(l)) = k /\ Head(l) = l[1]
      /\ \A i \in 1 .. k : Tail(l)[i] = l[i + 1]
      /\ l[k + 1] = x
  BY <1>1, TailIs DEF TailedBy, Last
<1>4. CASE k = 0
  <2>1. l = <<x>>
    BY <1>1, <1>3, <1>4
  <2> QED BY <1>2, <1>3, <1>4, <2>1
<1>5. CASE k # 0
  <2>1. 1 \in 1 .. k + 1 /\ k + 1 \in 1 .. k + 1 /\ k \in 1 .. k /\ k + 1 # 1
    BY <1>5
  <2>2. start # x
    BY <1>1, <1>2, <1>3, <2>1 DEF Distinct
  <2> DEFINE m == Tail(l)
  <2>3. m # <<>> /\ Last(m) = x
    <3>1. m \in Seq(TD) /\ Len(m) = k /\ m[k] = x
      BY <1>3, <2>1
    <3> HIDE DEF m
    <3> QED BY <3>1, <1>5 DEF Last
  <2> QED BY <1>2, <2>2, <2>3 DEF TailedBy
<1> QED BY <1>4, <1>5

(* A chain with its tail only.                                             *)
LEMMA TailedSingle ==
  ASSUME NEW t \in TD, NEW next, next[t] = Null
  PROVE  TailedBy(<<t>>, t, next, t)
<1>1. <<t>> \in Seq(TD) /\ Len(<<t>>) = 1 /\ <<t>>[1] = t
  OBVIOUS
<1> QED BY <1>1, LinkSingle DEF TailedBy, Last

(* The tail of a chain is filled in and a new tail linked to it.           *)
LEMMA TailedAppend ==
  ASSUME NEW l \in Seq(TD), Distinct(l), NEW start, NEW next, NEW x,
         TailedBy(l, start, next, x), NEW t \in TD, Avoids(l, {t}),
         NEW next2, next2[x] = t, next2[t] = Null, Same(next, next2, {t, x})
  PROVE  TailedBy(Append(l, t), start, next2, t)
<1>1. PICK k \in Nat : Len(l) = k + 1
  BY TailIs DEF TailedBy
<1>2. x = l[k + 1]
  BY <1>1 DEF TailedBy, Last
<1>3. ASSUME NEW i \in 1 .. Len(l) - 1 PROVE next2[l[i]] = next[l[i]]
  <2>1. i \in 1 .. k + 1 /\ i # k + 1 /\ k + 1 \in 1 .. k + 1
    BY <1>1
  <2>2. l[i] # x /\ l[i] # t /\ l[i] \in TD
    BY <1>1, <1>2, <2>1 DEF Distinct, Avoids
  <2> QED BY <2>2 DEF Same
<1>4. LinkedBy(Append(l, t), start, next2, Null) /\ Last(Append(l, t)) = t
  BY <1>3, LinkAppend DEF TailedBy
<1>5. Append(l, t) # <<>>
  <2>1. Len(Append(l, t)) = k + 2
    BY <1>1
  <2> QED BY <2>1
<1> QED BY <1>4, <1>5 DEF TailedBy

(* What Layout looks at.                                                   *)
Seen == <<hcDone, hccaDone, freeHead, nextTransfer, writeDoneHead, head, nextTD, tail,
          linked, pc, target, curr, saved, serving, op, endpoint>>

(* A step that changes nothing of that keeps the layout.                   *)
LEMMA LayoutKept ==
  ASSUME NEW s, Layout(s), UNCHANGED Seen
  PROVE  Layout(s)'
BY DEF Seen, Layout, EndpointsAre, WorkIs, Served, Owned, Listed, Holding, Removing, TailedBy

(* Layout, where no list changes.                                          *)
LEMMA QuietStep ==
  ASSUME Shape, NEW s, Layout(s),
         \/ \E x \in Transfer, e \in Endpoint : \/ SubmitStalled(x, e)
                                               \/ \E n \in 1 .. MaxChunks : SubmitStart(x, e, n)
         \/ SubmitFails
  PROVE  Layout(s)'
BY LayoutKept DEF Seen, SubmitStalled, SubmitStart, SubmitFails, tdVars, edVars, hcVars, wlVars

(* The controller reads the head of a chain.                               *)
LEMMA StartStep ==
  ASSUME Shape, NEW s, Layout(s), NEW e \in Endpoint, HCStart(e)
  PROVE  Layout(s)'
<1>1. Listed(e) /\ head[e] \in TD
  BY ServedHead
<1>2. /\ serving' = [ep |-> e, td |-> head[e], next |-> nextTD[head[e]]]
      /\ head[e] # tail[e]
      /\ UNCHANGED <<hcDone, hccaDone, freeHead, nextTransfer, writeDoneHead, head, nextTD, tail,
          linked, pc, target, curr, saved, op, endpoint>>
  BY DEF HCStart, tdVars, edVars, wlVars
<1>3. Served'
  BY <1>1, <1>2 DEF Layout, Served, Listed, Removing
<1> QED BY <1>2, <1>3 DEF Layout, EndpointsAre, WorkIs, Owned, Listed, Holding, Removing, TailedBy

(* The controller gives up without retiring a TD.                          *)
LEMMA StopStep ==
  ASSUME Shape, NEW s, Layout(s), HCStop
  PROVE  Layout(s)'
<1>2. /\ serving' = Idle
      /\ UNCHANGED <<hcDone, hccaDone, freeHead, nextTransfer, writeDoneHead, head, nextTD, tail,
          linked, pc, target, curr, saved, op, endpoint>>
  BY DEF HCStop, tdVars, edVars, wlVars
<1>3. Served'
  BY <1>2 DEF Layout, Served, Listed, Removing
<1> QED BY <1>2, <1>3 DEF Layout, EndpointsAre, WorkIs, Owned, Listed, Holding, Removing, TailedBy

(* The program moves on, no list changes.                                  *)
LEMMA PassStep ==
  ASSUME Shape, NEW s, Layout(s),
         UNCHANGED <<hcDone, hccaDone, freeHead, nextTransfer, writeDoneHead, head, nextTD, tail,
                     linked, serving, curr, op, endpoint>>,
         ~Removing, ~Removing', WorkIs(s[WorkP])',
         pc' \in {"quiesce", "fail"} => target' = endpoint[curr]
  PROVE  Layout(s)'
<1>1. EndpointsAre(s)'
  BY DEF Layout, EndpointsAre, Listed
<1>2. Served' /\ Owned(s)'
  BY DEF Layout, Served, Owned, Listed
<1> QED BY <1>1, <1>2 DEF Layout

(* The handler detaches the first done TD.                                 *)
LEMMA CompleteStep ==
  ASSUME Shape, NEW s, Layout(s), CompleteTransfer \/ FailTransfer
  PROVE  Layout(s)'
<1>1. /\ pc = "process" /\ pc' \in {"return", "quiesce"} /\ saved' = nextTransfer[curr]
      /\ pc' = "quiesce" => target' = endpoint[curr]
      /\ UNCHANGED <<hcDone, hccaDone, freeHead, nextTransfer, writeDoneHead, head, nextTD, tail,
                     linked, serving, curr, op, endpoint>>
  BY DEF CompleteTransfer, FailTransfer, tdVars, edVars, hcVars
<1>2. s[WorkP] \in Seq(TD) /\ s[WorkP] # <<>> /\ LinkedBy(s[WorkP], curr, nextTransfer, Null)
  BY <1>1, ArrangedParts, PlaceFacts DEF Layout, WorkIs
<1>3. curr = Head(s[WorkP]) /\ LinkedBy(Tail(s[WorkP]), nextTransfer[curr], nextTransfer, Null)
  BY <1>2, LinkPop
<1>4. WorkIs(s[WorkP])'
  BY <1>1, <1>2, <1>3 DEF WorkIs, Holding, Removing
<1> QED BY <1>1, <1>4, PassStep DEF Removing

(* The steps of the workloop that wait for the controller.                 *)
LEMMA WaitStep ==
  ASSUME Shape, NEW s, Layout(s), Quiesced \/ \E e \in Endpoint, o \in Ops : RemovalStart(e, o)
  PROVE  Layout(s)'
<1>1. CASE Quiesced
  <2>1. /\ pc = "quiesce" /\ pc' = "fail" /\ saved' = saved /\ target' = target
        /\ UNCHANGED <<hcDone, hccaDone, freeHead, nextTransfer, writeDoneHead, head, nextTD, tail,
                       linked, serving, curr, op, endpoint>>
    BY <1>1 DEF Quiesced, tdVars, edVars, hcVars
  <2>2. WorkIs(s[WorkP])' /\ target = endpoint[curr]
    BY <2>1 DEF WorkIs, Holding, Removing, Layout, Owned
  <2> QED BY <2>1, <2>2, PassStep DEF Removing
<1>2. ASSUME NEW e \in Endpoint, NEW o \in Ops, RemovalStart(e, o) PROVE Layout(s)'
  <2>1. /\ pc = "idle" /\ pc' = "sleep"
        /\ UNCHANGED <<hcDone, hccaDone, freeHead, nextTransfer, writeDoneHead, head, nextTD, tail,
                       linked, serving, curr, saved, endpoint>>
    BY <1>2 DEF RemovalStart, GateFree, tdVars, edVars, hcVars
  <2>2. WorkIs(s[WorkP])'
    BY <2>1 DEF WorkIs, Holding, Removing, Layout
  <2>3. EndpointsAre(s)'
    BY <2>1 DEF Layout, EndpointsAre, Listed, Removing
  <2>4. Served' /\ Owned(s)'
    BY <2>1 DEF Layout, Served, Owned, Listed, Removing
  <2> QED BY <2>1, <2>2, <2>3, <2>4 DEF Layout
<1> QED BY <1>1, <1>2

(* The removal calls a completion before it frees the TD.                  *)
LEMMA CallStep ==
  ASSUME Shape, NEW s, Layout(s), RemoveStep
  PROVE  Layout(s)'
<1>1. /\ pc = "remove" /\ pc' = "removeReturn" /\ curr # tail[target]
      /\ UNCHANGED <<hcDone, hccaDone, freeHead, nextTransfer, writeDoneHead, head, nextTD, tail,
                     linked, serving, curr, saved, op, endpoint, target>>
  BY DEF RemoveStep, tdVars, edVars, hcVars
<1>2. WorkIs(s[WorkP])'
  BY <1>1 DEF WorkIs, Holding, Removing, Layout, TailedBy
<1>3. EndpointsAre(s)'
  BY <1>1 DEF Layout, EndpointsAre, Listed, Removing
<1>4. Served' /\ Owned(s)'
  BY <1>1 DEF Layout, Served, Owned, Listed, Removing
<1> QED BY <1>1, <1>2, <1>3, <1>4 DEF Layout

(* Without errors so far, the error path finds its TD.                     *)
LEMMA NotRanOut ==
  ASSUME Shape, NEW s, Layout(s)
  PROVE  ~FailRanOut
<1> SUFFICES ASSUME FailRanOut PROVE FALSE
  OBVIOUS
<1>1. pc = "fail" /\ curr \in TD /\ curr = tail[target]
  BY NullIsNone DEF FailRanOut, Shape, Control
<1>2. s[WorkP] \in Seq(TD) /\ s[WorkP] # <<>> /\ Head(s[WorkP]) = curr
  BY <1>1, ArrangedParts, PlaceFacts DEF Layout, WorkIs, Holding
<1>3. InPlace(s, WorkP, curr)
  BY <1>2, FirstIs DEF InPlace
<1>4. ~InPlace(s, FreeP, curr)
  BY <1>3, ArrangedParts, PlaceFacts DEF Layout
<1>5. target \in Endpoint /\ endpoint[curr] = target
  BY <1>1, <1>4 DEF Layout, Owned
<1>6. target \in linked /\ Listed(target)
  BY <1>1, <1>4, <1>5 DEF Layout, Owned, Removing, Listed
<1>7. TailedBy(s[EpP(target)], head[target], nextTD, curr) /\ s[EpP(target)] \in Seq(TD)
  BY <1>1, <1>5, <1>6, ArrangedParts, PlaceFacts DEF Layout, EndpointsAre
<1>8. InPlace(s, EpP(target), curr)
  BY <1>7, FirstIs DEF TailedBy, InPlace
<1> QED BY <1>3, <1>5, <1>8, ArrangedParts, PlaceFacts DEF Layout

(* The free list keeps what it has.                                        *)
LEMMA FreeGrows ==
  ASSUME NEW s, NEW r, NEW t, s[FreeP] \in Seq(TD), t \in TD, r[FreeP] = <<t>> \o s[FreeP]
  PROVE  InPlace(r, FreeP, t) /\ \A u : InPlace(s, FreeP, u) => InPlace(r, FreeP, u)
<1>1. PICK k \in Nat : k = Len(s[FreeP])
  OBVIOUS
<1>2. /\ Len(r[FreeP]) = k + 1 /\ r[FreeP][1] = t
      /\ \A i \in 1 .. k : r[FreeP][i + 1] = s[FreeP][i]
  BY <1>1, PushIs
<1>3. 1 \in 1 .. k + 1 /\ \A i \in 1 .. k : i + 1 \in 1 .. k + 1
  OBVIOUS
<1> QED BY <1>1, <1>2, <1>3 DEF InPlace

(* The free list keeps all but the one that is taken.                      *)
LEMMA FreeShrinks ==
  ASSUME NEW s, NEW r, s[FreeP] \in Seq(TD), s[FreeP] # <<>>, r[FreeP] = Tail(s[FreeP])
  PROVE  \A u : InPlace(s, FreeP, u) => u = Head(s[FreeP]) \/ InPlace(r, FreeP, u)
<1> DEFINE l == s[FreeP]
<1>0. l \in Seq(TD) /\ l # <<>>
  OBVIOUS
<1> HIDE DEF l
<1>a. PICK k \in Nat : Len(l) = k + 1
  BY <1>0, TailIs
<1>1. Len(s[FreeP]) = k + 1
  BY <1>a DEF l
<1>2. /\ Len(r[FreeP]) = k /\ Head(s[FreeP]) = s[FreeP][1]
      /\ \A i \in 1 .. k : r[FreeP][i] = s[FreeP][i + 1]
  BY <1>1, TailIs
<1>3. \A i \in 1 .. k + 1 : i = 1 \/ (i - 1 \in 1 .. k /\ (i - 1) + 1 = i)
  OBVIOUS
<1> QED BY <1>1, <1>2, <1>3 DEF InPlace

(* The controller moves the head of a chain to its done list.              *)
LEMMA RetireStep ==
  ASSUME Shape, NEW s, Layout(s), NEW e \in Endpoint, NEW code \in {"ok", "error"},
         HCRetire(e, code)
  PROVE  \E r : Layout(r)' /\ Moved(s, r, Place, EpP(e), HcP, Tail(s[EpP(e)]),
                                      <<Head(s[EpP(e)])>> \o s[HcP])
            /\ s[EpP(e)] # <<>>
<1> DEFINE l == s[EpP(e)] r == MoveFirst(s, EpP(e), HcP)
<1> USE PlaceFacts
<1>1. /\ serving.ep = e /\ serving.td = head[e] /\ serving.next = nextTD[head[e]]
      /\ Listed(e) /\ head[e] # tail[e] /\ serving # Idle
  BY NullIsNone DEF HCRetire, Layout, Served, Idle
<1>2. /\ head' = [head EXCEPT ![e] = nextTD[head[e]]]
      /\ hcDone' = <<head[e]>> \o hcDone /\ serving' = Idle
      /\ UNCHANGED <<hccaDone, freeHead, nextTransfer, writeDoneHead, nextTD, tail,
          linked, pc, target, curr, saved, op, endpoint>>
  BY <1>1 DEF HCRetire, wlVars
<1>3. l \in Seq(TD) /\ Distinct(l) /\ TailedBy(l, head[e], nextTD, tail[e]) /\ l # <<>>
  BY <1>1, ArrangedParts DEF Layout, EndpointsAre, TailedBy
<1>4. head[e] = Head(l) /\ TailedBy(Tail(l), nextTD[head[e]], nextTD, tail[e])
  BY <1>1, <1>3, TailedPop
<1>5. /\ Arranged(r, Place, TD)
      /\ Moved(s, r, Place, EpP(e), HcP, Tail(l), <<Head(l)>> \o s[HcP])
  BY <1>3, ArrangedMoveFirst DEF Layout
<1> HIDE DEF l, r
<1>6. /\ r[EpP(e)] = Tail(l) /\ r[HcP] = hcDone'
      /\ r[FreeP] = s[FreeP] /\ r[QueueP] = s[QueueP] /\ r[WorkP] = s[WorkP]
      /\ r[HccaP] = s[HccaP] /\ \A f \in Endpoint : f # e => r[EpP(f)] = s[EpP(f)]
  BY <1>2, <1>4, <1>5 DEF Moved, Layout
<1>7. EndpointsAre(r)'
  <2> SUFFICES ASSUME NEW f \in Endpoint
               PROVE  IF Listed(f)' THEN TailedBy(r[EpP(f)], head'[f], nextTD', tail'[f])
                      ELSE r[EpP(f)] = <<>>
    BY DEF EndpointsAre
  <2>1. Listed(f)' = Listed(f)
    BY <1>2 DEF Listed, Removing
  <2>2. CASE f = e
    BY <2>1, <2>2, <1>1, <1>2, <1>4, <1>6 DEF Shape, TypeOK
  <2>3. CASE f # e
    BY <2>1, <2>3, <1>2, <1>6 DEF Layout, EndpointsAre, Shape, TypeOK
  <2> QED BY <2>2, <2>3
<1>8. WorkIs(r[WorkP])'
  BY <1>2, <1>6 DEF Layout, WorkIs, Holding, Removing, TailedBy
<1>9. Served'
  <2>1. Removing => target # e /\ target \in Endpoint
    BY <1>1 DEF Shape, Left, Reserved, Removing
  <2> QED BY <1>2, <2>1 DEF Layout, Served, Removing, Shape, TypeOK
<1>10. Owned(r)'
  <2>1. \A u : InPlace(r, FreeP, u) <=> InPlace(s, FreeP, u)
    BY <1>6 DEF InPlace
  <2>2. Owned(s)
    BY DEF Layout
  <2> QED BY <1>2, <2>1, <2>2 DEF Owned, Removing
<1>11. Layout(r)'
  BY <1>2, <1>5, <1>6, <1>7, <1>8, <1>9, <1>10 DEF Layout
<1> QED BY <1>11, <1>3, <1>5 DEF l

(* The controller moves its done list to the HCCA.                         *)
LEMMA WritebackStep ==
  ASSUME Shape, NEW s, Layout(s), HCWriteback
  PROVE  \E r : Layout(r)' /\ Moved(s, r, Place, HcP, HccaP, <<>>, s[HcP]) /\ s[HccaP] = <<>>
<1> DEFINE r == MoveAll(s, HcP, HccaP)
<1> USE PlaceFacts
<1>1. /\ hccaDone' = hcDone /\ hcDone' = <<>> /\ hccaDone = <<>>
      /\ UNCHANGED <<freeHead, nextTransfer, writeDoneHead, head, nextTD, tail,
          linked, pc, target, curr, saved, serving, op, endpoint>>
  BY DEF HCWriteback, Shape, Control, tdVars, edVars, wlVars
<1>2. Arranged(r, Place, TD) /\ Moved(s, r, Place, HcP, HccaP, <<>>, s[HcP])
  BY <1>1, ArrangedMoveAll DEF Layout
<1> HIDE DEF r
<1>3. /\ r[HccaP] = hccaDone' /\ r[HcP] = hcDone'
      /\ r[FreeP] = s[FreeP] /\ r[QueueP] = s[QueueP] /\ r[WorkP] = s[WorkP]
      /\ \A f \in Endpoint : r[EpP(f)] = s[EpP(f)]
  BY <1>1, <1>2 DEF Moved, Layout
<1>4. EndpointsAre(r)'
  BY <1>1, <1>3 DEF Layout, EndpointsAre, Listed, Removing
<1>5. WorkIs(r[WorkP])' /\ Served'
  BY <1>1, <1>3 DEF Layout, WorkIs, Holding, Removing, TailedBy, Served, Listed
<1>6. Owned(r)'
  BY <1>1, <1>3 DEF Layout, Owned, InPlace, Removing
<1>7. Layout(r)'
  BY <1>1, <1>2, <1>3, <1>4, <1>5, <1>6 DEF Layout
<1> QED BY <1>7, <1>1, <1>2 DEF Layout

(* The members of a list.                                                  *)
Members(l) == {l[i] : i \in 1 .. Len(l)}

(* The filter's reversal, position by position.                            *)
LEMMA LinkReversedIs ==
  ASSUME NEW b \in Seq(TD), b # <<>>, Distinct(b)
  PROVE  /\ LinkReversed(b)[b[1]] = writeDoneHead
         /\ \A i \in 2 .. Len(b) : LinkReversed(b)[b[i]] = b[i - 1]
         /\ Same(nextTransfer, LinkReversed(b), Members(b))
<1>1. PICK n \in Nat \ {0} : n = Len(b)
  BY EmptySeq
<1>2. DOMAIN b = 1 .. n /\ ToSet(b) = {b[i] : i \in 1 .. n} /\ \A i \in 1 .. n : b[i] \in TD
  BY <1>1 DEF ToSet
<1>3. ASSUME NEW k \in 1 .. n
      PROVE  LinkReversed(b)[b[k]] = IF k = 1 THEN writeDoneHead ELSE b[k - 1]
  <2> DEFINE i == CHOOSE i \in DOMAIN b : b[i] = b[k]
  <2>1. i = k
    BY <1>1, <1>2 DEF Distinct
  <2>2. LinkReversed(b)[b[k]] = IF i = 1 THEN writeDoneHead ELSE b[i - 1]
    BY <1>2 DEF LinkReversed
  <2> HIDE DEF i
  <2> QED BY <2>1, <2>2
<1>4. LinkReversed(b)[b[1]] = writeDoneHead
  <2>1. 1 \in 1 .. n
    OBVIOUS
  <2> QED BY <1>3, <2>1
<1>5. \A i \in 2 .. n : LinkReversed(b)[b[i]] = b[i - 1]
  <2>1. \A i \in 2 .. n : i \in 1 .. n /\ i # 1
    OBVIOUS
  <2> QED BY <1>3, <2>1
<1>6. Same(nextTransfer, LinkReversed(b), {b[i] : i \in 1 .. n})
  BY <1>2 DEF Same, LinkReversed
<1> QED BY <1>1, <1>4, <1>5, <1>6 DEF Members

(* A list has no member of another one.                                    *)
LEMMA AvoidsAll ==
  ASSUME NEW s, Arranged(s, Place, TD), NEW p \in Place, NEW q \in Place, p # q
  PROVE  Avoids(s[p], Members(s[q]))
BY DEF Arranged, Avoids, Members

(* Nor has its rest.                                                       *)
LEMMA AvoidsTail ==
  ASSUME NEW l \in Seq(TD), NEW S, Avoids(l, S)
  PROVE  l # <<>> => Avoids(Tail(l), S)
<1> SUFFICES ASSUME l # <<>> PROVE Avoids(Tail(l), S)
  OBVIOUS
<1>1. PICK k \in Nat : Len(l) = k + 1
  BY TailIs
<1>2. Len(Tail(l)) = k /\ \A i \in 1 .. k : Tail(l)[i] = l[i + 1] /\ i + 1 \in 1 .. k + 1
  BY <1>1, TailIs
<1> QED BY <1>1, <1>2 DEF Avoids

(* What the workloop holds is not disturbed by a change elsewhere.         *)
LEMMA WorkAvoids ==
  ASSUME NEW l \in Seq(TD), WorkIs(l), NEW S, Avoids(l, S), Same(nextTransfer, nextTransfer', S),
         UNCHANGED <<pc, curr, saved, target>>,
         Removing => TailedBy(l, curr, nextTD', tail'[target]) /\ tail'[target] = tail[target]
  PROVE  WorkIs(l)'
<1>1. pc = "process" => LinkedBy(l, curr, nextTransfer', Null)
  BY LinkAvoids DEF WorkIs
<1>2. Holding => LinkedBy(Tail(l), saved, nextTransfer', Null)
  <2> SUFFICES ASSUME Holding PROVE LinkedBy(Tail(l), saved, nextTransfer', Null)
    OBVIOUS
  <2>1. l # <<>> /\ LinkedBy(Tail(l), saved, nextTransfer, Null) /\ Tail(l) \in Seq(TD)
    BY FirstIs DEF WorkIs
  <2> QED BY <2>1, AvoidsTail, LinkAvoids
<1> QED BY <1>1, <1>2 DEF WorkIs, Holding, Removing, TailedBy

(* The filter moves the done list of the HCCA to the queue, in the order of*)
(* retirement.                                                             *)
LEMMA FilterStep ==
  ASSUME Shape, NEW s, Layout(s), FilterInterrupt
  PROVE  \E r : Layout(r)' /\ Moved(s, r, Place, HccaP, QueueP, <<>>,
                                      ReversedOn(s[HccaP], s[QueueP]))
<1> DEFINE b == s[HccaP] r == MoveBack(s, HccaP, QueueP)
           S == Members(b)
<1> USE PlaceFacts
<1>1. /\ hccaDone # <<>> /\ nextTransfer' = LinkReversed(hccaDone)
      /\ writeDoneHead' = Last(hccaDone) /\ hccaDone' = <<>>
      /\ UNCHANGED <<hcDone, freeHead, head, nextTD, tail,
          linked, pc, target, curr, saved, serving, op, endpoint>>
  BY DEF FilterInterrupt, Shape, Control, edVars, wlVars
<1>2. b = hccaDone /\ b \in Seq(TD) /\ b # <<>> /\ Distinct(b)
  BY <1>1, ArrangedParts DEF Layout
<1>3. /\ Arranged(r, Place, TD)
      /\ Moved(s, r, Place, HccaP, QueueP, <<>>, ReversedOn(b, s[QueueP]))
  BY ArrangedMoveBack DEF Layout
<1>4. /\ nextTransfer'[b[1]] = writeDoneHead
      /\ \A i \in 2 .. Len(b) : nextTransfer'[b[i]] = b[i - 1]
      /\ Same(nextTransfer, nextTransfer', S)
  BY <1>1, <1>2, LinkReversedIs
<1>5. ASSUME NEW p \in Place, p # HccaP PROVE Avoids(s[p], S) /\ s[p] \in Seq(TD)
  <2>1. Arranged(s, Place, TD)
    BY DEF Layout
  <2>2. Avoids(s[p], Members(s[HccaP]))
    BY <1>5, <2>1, AvoidsAll
  <2> QED BY <2>1, <2>2, ArrangedParts
<1> HIDE DEF b, r, S
<1>6. /\ r[HccaP] = <<>> /\ r[QueueP] = ReversedOn(b, s[QueueP])
      /\ r[FreeP] = s[FreeP] /\ r[HcP] = s[HcP] /\ r[WorkP] = s[WorkP]
      /\ \A f \in Endpoint : r[EpP(f)] = s[EpP(f)]
  BY <1>3 DEF Moved
<1>7. LinkedBy(r[FreeP], freeHead', nextTransfer', Null)
  BY <1>1, <1>4, <1>5, <1>6, LinkAvoids DEF Layout
<1>8. LinkedBy(r[QueueP], writeDoneHead', nextTransfer', Null)
  <2>1. s[QueueP] \in Seq(TD) /\ LinkedBy(s[QueueP], writeDoneHead, nextTransfer, Null)
    BY <1>5 DEF Layout
  <2>2. \A i \in 1 .. Len(s[QueueP]) : nextTransfer'[s[QueueP][i]] = nextTransfer[s[QueueP][i]]
    <3>1. \A i \in 1 .. Len(s[QueueP]) : s[QueueP][i] \in TD \ S
      BY <2>1, <1>5 DEF Avoids
    <3> QED BY <3>1, <1>4 DEF Same
  <2>3. LinkedBy(ReversedOn(b, s[QueueP]), Last(b), nextTransfer', Null)
    BY <2>1, <2>2, <1>2, <1>4, LinkBack
  <2> QED BY <2>3, <1>1, <1>2, <1>6
<1>9. EndpointsAre(r)'
  BY <1>1, <1>6 DEF Layout, EndpointsAre, Listed, Removing
<1>10. WorkIs(r[WorkP])'
  BY <1>1, <1>4, <1>5, <1>6, WorkAvoids DEF Layout, WorkIs
<1>11. Served' /\ Owned(r)'
  BY <1>1, <1>6 DEF Layout, Owned, InPlace, Removing, Served, Listed
<1>12. Layout(r)'
  BY <1>1, <1>3, <1>6, <1>7, <1>8, <1>9, <1>10, <1>11 DEF Layout
<1> QED BY <1>12, <1>3 DEF b

(* The workloop takes the queue.                                           *)
LEMMA TakeStep ==
  ASSUME Shape, NEW s, Layout(s), HandleInterrupt
  PROVE  \E r : Layout(r)' /\ Moved(s, r, Place, QueueP, WorkP, <<>>, s[QueueP]) /\ s[WorkP] = <<>>
<1> DEFINE r == MoveAll(s, QueueP, WorkP)
<1> USE PlaceFacts
<1>1. /\ pc = "idle" /\ Continue(writeDoneHead) /\ writeDoneHead' = Null
      /\ UNCHANGED <<hcDone, hccaDone, freeHead, nextTransfer, head, nextTD, tail,
          linked, target, serving, op, endpoint>>
  BY DEF HandleInterrupt, GateFree, tdVars, edVars, hcVars
<1>2. s[WorkP] = <<>>
  BY <1>1 DEF Layout, WorkIs, Holding, Removing
<1>3. Arranged(r, Place, TD) /\ Moved(s, r, Place, QueueP, WorkP, <<>>, s[QueueP])
  BY <1>2, ArrangedMoveAll DEF Layout
<1> HIDE DEF r
<1>4. /\ r[QueueP] = <<>> /\ r[WorkP] = s[QueueP] /\ s[QueueP] \in Seq(TD)
      /\ r[FreeP] = s[FreeP] /\ r[HcP] = s[HcP] /\ r[HccaP] = s[HccaP]
      /\ \A f \in Endpoint : r[EpP(f)] = s[EpP(f)]
  BY <1>3, ArrangedParts DEF Moved, Layout
<1>5. LinkedBy(r[QueueP], writeDoneHead', nextTransfer', Null)
  BY <1>1, <1>4 DEF LinkedBy, Nth
<1>6. WorkIs(r[WorkP])'
  <2>1. LinkedBy(s[QueueP], writeDoneHead, nextTransfer, Null)
    BY DEF Layout
  <2>2. s[QueueP] = <<>> <=> writeDoneHead = Null
    BY <1>4, <2>1, LinkEmpty, NullIsNone
  <2> QED BY <1>1, <1>4, <2>1, <2>2 DEF WorkIs, Holding, Removing, Continue
<1>7. EndpointsAre(r)'
  BY <1>1, <1>4 DEF Layout, EndpointsAre, Listed, Removing, Continue
<1>8. Served' /\ Owned(r)'
  BY <1>1, <1>4 DEF Layout, Owned, InPlace, Removing, Served, Listed, Continue
<1>9. Layout(r)'
  BY <1>1, <1>3, <1>4, <1>5, <1>6, <1>7, <1>8 DEF Layout
<1> QED BY <1>9, <1>2, <1>3

(* The first of a list, and how it stands to the other lists.              *)
LEMMA HeadOf ==
  ASSUME NEW s, Arranged(s, Place, TD), NEW p \in Place, s[p] # <<>>
  PROVE  /\ Head(s[p]) \in TD /\ Tail(s[p]) \in Seq(TD)
         /\ Avoids(Tail(s[p]), {Head(s[p])})
         /\ \A q \in Place : q # p => Avoids(s[q], {Head(s[p])})
         /\ InPlace(s, p, Head(s[p]))
<1>1. s[p] \in Seq(TD) /\ Distinct(s[p])
  BY ArrangedParts
<1>2. 1 \in 1 .. Len(s[p]) /\ Head(s[p]) = s[p][1]
  BY <1>1, FirstIs
<1>3. \A q \in Place : q # p => Avoids(s[q], {s[p][1]})
  BY <1>2, ArrangedParts
<1>4. Head(s[p]) \in TD /\ Tail(s[p]) \in Seq(TD)
  BY <1>1, FirstIs
<1>5. Avoids(Tail(s[p]), {Head(s[p])})
  BY <1>1, TailAvoids
<1> QED BY <1>2, <1>3, <1>4, <1>5 DEF InPlace

(* The handler frees the TD it has completed.                              *)
LEMMA ReturnStep ==
  ASSUME Shape, NEW s, Layout(s), HandlerReturn, ~failed
  PROVE  \E r : Layout(r)' /\ Moved(s, r, Place, WorkP, FreeP, Tail(s[WorkP]), <<curr>> \o s[FreeP])
            /\ s[WorkP] # <<>>
<1> DEFINE l == s[WorkP] r == MoveFirst(s, WorkP, FreeP)
<1> USE PlaceFacts
<1>1. /\ pc = "return" /\ nextTransfer' = [nextTransfer EXCEPT ![curr] = freeHead]
      /\ freeHead' = curr /\ Continue(saved) /\ curr \in TD
      /\ UNCHANGED <<hcDone, hccaDone, writeDoneHead, head, nextTD, tail,
          linked, serving, op, endpoint>>
  BY DEF HandlerReturn, ReturnTransfer, Shape, Control, edVars, hcVars
<1>2. l # <<>> /\ Head(l) = curr /\ LinkedBy(Tail(l), saved, nextTransfer, Null)
  BY <1>1 DEF Layout, WorkIs, Holding
<1>3. /\ Arranged(s, Place, TD) /\ Arranged(r, Place, TD)
      /\ Moved(s, r, Place, WorkP, FreeP, Tail(l), <<curr>> \o s[FreeP])
  BY <1>2, ArrangedMoveFirst DEF Layout
<1>4. Same(nextTransfer, nextTransfer', {curr}) /\ nextTransfer'[curr] = freeHead
  BY <1>1 DEF Same, Shape, TypeOK
<1>5. /\ Tail(l) \in Seq(TD) /\ Avoids(Tail(l), {curr})
      /\ \A q \in Place : q # WorkP => Avoids(s[q], {curr}) /\ s[q] \in Seq(TD)
  BY <1>2, <1>3, HeadOf, ArrangedParts
<1> HIDE DEF l, r
<1>6. /\ r[WorkP] = Tail(l) /\ r[FreeP] = <<curr>> \o s[FreeP]
      /\ r[HccaP] = s[HccaP] /\ r[QueueP] = s[QueueP] /\ r[HcP] = s[HcP]
      /\ \A f \in Endpoint : r[EpP(f)] = s[EpP(f)]
  BY <1>3 DEF Moved
<1>7. LinkedBy(r[FreeP], freeHead', nextTransfer', Null)
  <2>1. s[FreeP] \in Seq(TD) /\ LinkedBy(s[FreeP], freeHead, nextTransfer, Null)
    BY <1>5 DEF Layout
  <2>2. LinkedBy(s[FreeP], freeHead, nextTransfer', Null)
    BY <2>1, <1>4, <1>5, LinkAvoids
  <2>3. LinkedBy(<<curr>> \o s[FreeP], curr, nextTransfer', Null)
    BY <2>1, <2>2, <1>1, <1>4, LinkPush
  <2> QED BY <1>1, <1>6, <2>3
<1>8. LinkedBy(r[QueueP], writeDoneHead', nextTransfer', Null)
  BY <1>1, <1>4, <1>5, <1>6, LinkAvoids DEF Layout
<1>9. WorkIs(r[WorkP])'
  <2>1. LinkedBy(Tail(l), saved, nextTransfer', Null)
    BY <1>2, <1>4, <1>5, LinkAvoids
  <2>2. Tail(l) = <<>> <=> saved = Null
    <3>1. Tail(l) \in Seq(TD)
      BY <1>5
    <3> QED BY ONLY <2>1, <3>1, LinkEmpty, NullIsNone
  <2> QED BY <2>1, <2>2, <1>1, <1>6 DEF WorkIs, Holding, Removing, Continue
<1>10. EndpointsAre(r)'
  BY <1>1, <1>6 DEF Layout, EndpointsAre, Listed, Removing, Continue
<1>11. Served'
  BY <1>1 DEF Layout, Served, Listed, Removing, Continue
<1>12. Owned(r)'
  <2>1. \A u : InPlace(s, FreeP, u) => InPlace(r, FreeP, u)
    BY <1>1, <1>5, <1>6, FreeGrows
  <2>2. Owned(s)
    BY DEF Layout
  <2> QED BY <1>1, <2>1, <2>2 DEF Owned, Removing, Continue
<1>13. Layout(r)'
  BY <1>1, <1>3, <1>6, <1>7, <1>8, <1>9, <1>10, <1>11, <1>12 DEF Layout
<1> QED BY <1>13, <1>2, <1>3 DEF l

(* The removal frees the TD it has completed.                              *)
LEMMA RemoveReturnStep ==
  ASSUME Shape, NEW s, Layout(s), RemoveReturn
  PROVE  \E r : Layout(r)' /\ Moved(s, r, Place, WorkP, FreeP, Tail(s[WorkP]), <<curr>> \o s[FreeP])
            /\ s[WorkP] # <<>>
<1> DEFINE l == s[WorkP] r == MoveFirst(s, WorkP, FreeP)
<1> USE PlaceFacts
<1>1. /\ pc = "removeReturn" /\ nextTransfer' = [nextTransfer EXCEPT ![curr] = freeHead]
      /\ freeHead' = curr /\ curr' = nextTD[curr] /\ pc' = "remove" /\ curr \in TD
      /\ UNCHANGED <<hcDone, hccaDone, writeDoneHead, head, nextTD, tail,
          linked, serving, op, endpoint, saved, target>>
  BY DEF RemoveReturn, ReturnTransfer, Shape, Control, edVars, hcVars
<1>2. l # <<>> /\ TailedBy(l, curr, nextTD, tail[target]) /\ curr # tail[target]
  BY <1>1 DEF Layout, WorkIs, Removing, TailedBy
<1>a. l \in Seq(TD) /\ Distinct(l)
  BY ArrangedParts DEF Layout
<1>b. curr = Head(l) /\ TailedBy(Tail(l), nextTD[curr], nextTD, tail[target])
  BY <1>2, <1>a, TailedPop
<1>3. /\ Arranged(s, Place, TD) /\ Arranged(r, Place, TD)
      /\ Moved(s, r, Place, WorkP, FreeP, Tail(l), <<curr>> \o s[FreeP])
  BY <1>2, <1>b, ArrangedMoveFirst DEF Layout
<1>4. Same(nextTransfer, nextTransfer', {curr}) /\ nextTransfer'[curr] = freeHead
  BY <1>1 DEF Same, Shape, TypeOK
<1>5. \A q \in Place : q # WorkP => Avoids(s[q], {curr}) /\ s[q] \in Seq(TD)
  BY <1>2, <1>b, <1>3, HeadOf, ArrangedParts
<1> HIDE DEF l, r
<1>6. /\ r[WorkP] = Tail(l) /\ r[FreeP] = <<curr>> \o s[FreeP]
      /\ r[HccaP] = s[HccaP] /\ r[QueueP] = s[QueueP] /\ r[HcP] = s[HcP]
      /\ \A f \in Endpoint : r[EpP(f)] = s[EpP(f)]
  BY <1>3 DEF Moved
<1>7. LinkedBy(r[FreeP], freeHead', nextTransfer', Null)
  <2>1. s[FreeP] \in Seq(TD) /\ LinkedBy(s[FreeP], freeHead, nextTransfer, Null)
    BY <1>5 DEF Layout
  <2>2. LinkedBy(s[FreeP], freeHead, nextTransfer', Null)
    BY <2>1, <1>4, <1>5, LinkAvoids
  <2>3. LinkedBy(<<curr>> \o s[FreeP], curr, nextTransfer', Null)
    BY <2>1, <2>2, <1>1, <1>4, LinkPush
  <2> QED BY <1>1, <1>6, <2>3
<1>8. LinkedBy(r[QueueP], writeDoneHead', nextTransfer', Null)
  BY <1>1, <1>4, <1>5, <1>6, LinkAvoids DEF Layout
<1>9. WorkIs(r[WorkP])'
  BY <1>1, <1>6, <1>b DEF WorkIs, Holding, Removing, TailedBy
<1>10. EndpointsAre(r)'
  BY <1>1, <1>6 DEF Layout, EndpointsAre, Listed, Removing
<1>11. Served'
  BY <1>1 DEF Layout, Served, Listed, Removing
<1>12. Owned(r)'
  <2>1. \A u : InPlace(s, FreeP, u) => InPlace(r, FreeP, u)
    BY <1>1, <1>5, <1>6, FreeGrows
  <2>2. Owned(s)
    BY DEF Layout
  <2> QED BY <1>1, <2>1, <2>2 DEF Owned, Removing
<1>13. Layout(r)'
  BY <1>1, <1>3, <1>6, <1>7, <1>8, <1>9, <1>10, <1>11, <1>12 DEF Layout
<1> QED BY <1>13, <1>2, <1>3 DEF l, TailedBy

(* The removal takes the chain of its endpoint.                            *)
LEMMA DetachStep ==
  ASSUME Shape, NEW s, Layout(s), SleepDone
  PROVE  \E r : Layout(r)' /\ Moved(s, r, Place, EpP(target), WorkP, <<>>, s[EpP(target)])
            /\ s[WorkP] = <<>>
<1>0. PICK e \in Endpoint : e = target
  BY DEF SleepDone, Shape, Reserved
<1> DEFINE l == s[EpP(e)] r == MoveAll(s, EpP(e), WorkP)
<1> USE PlaceFacts
<1>1. /\ pc = "sleep" /\ pc' = "remove" /\ serving.ep # e /\ e \in linked
      /\ linked' = (IF op = "delete" THEN linked \ {e} ELSE linked)
      /\ curr' = head[e] /\ head' = [head EXCEPT ![e] = tail[e]]
      /\ UNCHANGED <<hcDone, hccaDone, freeHead, nextTransfer, writeDoneHead, nextTD, tail,
          target, saved, serving, op, endpoint>>
  BY <1>0 DEF SleepDone, Shape, Control, Removing, tdVars, hcVars
<1>2. s[WorkP] = <<>>
  BY <1>1 DEF Layout, WorkIs, Holding, Removing
<1>3. Arranged(r, Place, TD) /\ Moved(s, r, Place, EpP(e), WorkP, <<>>, l)
  BY <1>2, ArrangedMoveAll DEF Layout
<1>4. TailedBy(l, head[e], nextTD, tail[e])
  BY <1>1 DEF Layout, EndpointsAre, Listed, Removing
<1> HIDE DEF l, r
<1>5. /\ r[EpP(e)] = <<>> /\ r[WorkP] = l /\ r[QueueP] = s[QueueP]
      /\ r[FreeP] = s[FreeP] /\ r[HcP] = s[HcP] /\ r[HccaP] = s[HccaP]
      /\ \A f \in Endpoint : f # e => r[EpP(f)] = s[EpP(f)]
  BY <1>3 DEF Moved
<1>6. WorkIs(r[WorkP])'
  BY <1>0, <1>1, <1>4, <1>5 DEF WorkIs, Holding, Removing, TailedBy
<1>7. EndpointsAre(r)'
  <2> SUFFICES ASSUME NEW f \in Endpoint
               PROVE  IF Listed(f)' THEN TailedBy(r[EpP(f)], head'[f], nextTD', tail'[f])
                      ELSE r[EpP(f)] = <<>>
    BY DEF EndpointsAre
  <2>1. CASE f = e
    BY <2>1, <1>0, <1>1, <1>5 DEF Listed, Removing
  <2>2. CASE f # e
    <3>1. Listed(f)' = Listed(f)
      BY <2>2, <1>0, <1>1 DEF Listed, Removing
    <3>2. head'[f] = head[f]
      BY <2>2, <1>1 DEF Shape, TypeOK
    <3> QED BY <2>2, <3>1, <3>2, <1>1, <1>5 DEF Layout, EndpointsAre
  <2> QED BY <2>1, <2>2
<1>8. Served'
  <2>1. serving # Idle => serving.ep \in Endpoint /\ head'[serving.ep] = head[serving.ep]
    BY <1>1 DEF Shape, TypeOK, Control
  <2>2. head'[e] = tail[e]
    BY <1>1 DEF Shape, TypeOK
  <2> QED BY <2>1, <2>2, <1>0, <1>1 DEF Layout, Served, Listed, Removing
<1>9. Owned(r)'
  <2>1. \A u : InPlace(r, FreeP, u) <=> InPlace(s, FreeP, u)
    BY <1>5 DEF InPlace
  <2>2. Owned(s)
    BY DEF Layout
  <2> QED BY <1>0, <1>1, <2>1, <2>2 DEF Owned, Removing
<1>10. s[HcP] = hcDone /\ s[HccaP] = hccaDone
        /\ LinkedBy(s[FreeP], freeHead, nextTransfer, Null)
        /\ LinkedBy(s[QueueP], writeDoneHead, nextTransfer, Null)
  BY DEF Layout
<1>11. Layout(r)'
  BY <1>1, <1>3, <1>5, <1>6, <1>7, <1>8, <1>9, <1>10 DEF Layout
<1> QED BY <1>11, <1>0, <1>2, <1>3 DEF l

(* The chain of the endpoint being removed is its tail only.               *)
LEMMA OnlyTail ==
  ASSUME Shape, NEW s, Layout(s), pc = "remove", curr \in {Null, tail[target]}
  PROVE  /\ s[WorkP] = <<tail[target]>> /\ curr = tail[target] /\ curr \in TD
         /\ nextTD[curr] = Null
<1> DEFINE l == s[WorkP]
<1>1. TailedBy(l, curr, nextTD, tail[target])
  BY DEF Layout, WorkIs, Removing
<1>2. l \in Seq(TD) /\ Distinct(l)
  BY PlaceFacts, ArrangedParts DEF Layout
<1>3. curr = Head(l) /\ curr \in TD
  BY <1>1, <1>2, TailedPop, FirstIs DEF TailedBy
<1>4. curr = tail[target]
  BY <1>3, NullIsNone
<1>5. l = <<tail[target]>>
  BY <1>1, <1>2, <1>4, TailedPop
<1>6. nextTD[curr] = Null
  <2> DEFINE c == curr
  <2>1. l = <<c>> /\ LinkedBy(l, c, nextTD, Null)
    BY <1>1, <1>4, <1>5 DEF TailedBy
  <2> HIDE DEF l, c
  <2>2. 1 \in 1 .. Len(l) /\ l[1] = c /\ 2 \notin 1 .. Len(l) /\ 1 + 1 = 2
    BY <2>1
  <2>3. nextTD[c] = Null
    BY <2>1, <2>2 DEF LinkedBy, Nth
  <2> QED BY <2>3 DEF c
<1> QED BY <1>3, <1>4, <1>5, <1>6

(* Abort and clear leave the tail as an empty chain.                       *)
LEMMA RestoreStep ==
  ASSUME Shape, NEW s, Layout(s), RemoveDone, op # "delete"
  PROVE  \E r : Layout(r)' /\ Moved(s, r, Place, WorkP, EpP(target), <<>>, <<tail[target]>>)
            /\ s[WorkP] = <<tail[target]>> /\ s[EpP(target)] = <<>>
<1>0. PICK e \in Endpoint : e = target
  BY DEF RemoveDone, Shape, Reserved
<1> DEFINE r == MoveAll(s, WorkP, EpP(e))
<1> USE PlaceFacts
<1>1. /\ pc = "remove" /\ pc' = "idle" /\ serving.ep # e /\ e \in linked
      /\ curr \in {Null, tail[target]}
      /\ UNCHANGED <<hcDone, hccaDone, freeHead, nextTransfer, writeDoneHead, nextTD, tail,
          linked, saved, serving, endpoint>>
  BY <1>0 DEF RemoveDone, Shape, Control, Left, Removing, tdVars, hcVars
<1>2. head' = [head EXCEPT ![e] = tail[e]]
  <2>1. op = "abort" => head[e] = tail[e]
    BY <1>0, <1>1 DEF Layout, Served, Removing
  <2>3. (op = "abort" /\ head' = head) \/ (op = "clear" /\ head' = [head EXCEPT ![e] = tail[e]])
    BY <1>0 DEF RemoveDone
  <2> QED BY <2>1, <2>3 DEF Shape, TypeOK
<1>3. s[WorkP] = <<tail[e]>> /\ tail[e] \in TD /\ nextTD[tail[e]] = Null
  BY <1>0, <1>1, OnlyTail
<1>4. s[EpP(e)] = <<>>
  BY <1>0, <1>1 DEF Layout, EndpointsAre, Listed, Removing
<1>5. Arranged(r, Place, TD) /\ Moved(s, r, Place, WorkP, EpP(e), <<>>, <<tail[e]>>)
  BY <1>3, <1>4, ArrangedMoveAll DEF Layout
<1> HIDE DEF r
<1>6. /\ r[EpP(e)] = <<tail[e]>> /\ r[WorkP] = <<>> /\ r[QueueP] = s[QueueP]
      /\ r[FreeP] = s[FreeP] /\ r[HcP] = s[HcP] /\ r[HccaP] = s[HccaP]
      /\ \A f \in Endpoint : f # e => r[EpP(f)] = s[EpP(f)]
  BY <1>5 DEF Moved
<1>7. WorkIs(r[WorkP])'
  BY <1>1, <1>6 DEF WorkIs, Holding, Removing
<1>8. EndpointsAre(r)'
  <2> SUFFICES ASSUME NEW f \in Endpoint
               PROVE  IF Listed(f)' THEN TailedBy(r[EpP(f)], head'[f], nextTD', tail'[f])
                      ELSE r[EpP(f)] = <<>>
    BY DEF EndpointsAre
  <2>1. CASE f = e
    <3>1. head'[e] = tail[e] /\ Listed(e)'
      BY <1>1, <1>2 DEF Shape, TypeOK, Listed, Removing
    <3>2. TailedBy(<<tail[e]>>, tail[e], nextTD, tail[e])
      BY <1>3, TailedSingle
    <3> QED BY <2>1, <3>1, <3>2, <1>1, <1>6
  <2>2. CASE f # e
    <3>1. Listed(f)' = Listed(f)
      BY <2>2, <1>0, <1>1 DEF Listed, Removing
    <3>2. head'[f] = head[f]
      BY <2>2, <1>2 DEF Shape, TypeOK
    <3> QED BY <2>2, <3>1, <3>2, <1>1, <1>6 DEF Layout, EndpointsAre
  <2> QED BY <2>1, <2>2
<1>9. Served'
  <2>1. serving # Idle => serving.ep \in Endpoint /\ head'[serving.ep] = head[serving.ep]
    BY <1>1, <1>2 DEF Shape, TypeOK, Control
  <2> QED BY <2>1, <1>0, <1>1 DEF Layout, Served, Listed, Removing
<1>10. Owned(r)'
  <2>1. \A u : InPlace(r, FreeP, u) <=> InPlace(s, FreeP, u)
    BY <1>6 DEF InPlace
  <2>2. Owned(s)
    BY DEF Layout
  <2> QED BY <1>0, <1>1, <2>1, <2>2 DEF Owned, Removing
<1>11. s[HcP] = hcDone /\ s[HccaP] = hccaDone
        /\ LinkedBy(s[FreeP], freeHead, nextTransfer, Null)
        /\ LinkedBy(s[QueueP], writeDoneHead, nextTransfer, Null)
  BY DEF Layout
<1>12. Layout(r)'
  BY <1>1, <1>5, <1>6, <1>7, <1>8, <1>9, <1>10, <1>11 DEF Layout
<1> QED BY <1>12, <1>0, <1>3, <1>4, <1>5

(* Delete frees the tail too.                                              *)
LEMMA DeleteStep ==
  ASSUME Shape, NEW s, Layout(s), RemoveDone, op = "delete"
  PROVE  \E r : Layout(r)' /\ Moved(s, r, Place, WorkP, FreeP, <<>>, <<tail[target]>> \o s[FreeP])
            /\ s[WorkP] = <<tail[target]>> /\ s[EpP(target)] = <<>>
<1>0. PICK e \in Endpoint : e = target
  BY DEF RemoveDone, Shape, Reserved
<1> DEFINE r == MoveFirst(s, WorkP, FreeP) t == tail[e]
<1> USE PlaceFacts
<1>1. /\ pc = "remove" /\ pc' = "idle" /\ serving.ep # e /\ e \notin linked
      /\ curr \in {Null, tail[target]}
      /\ nextTransfer' = [nextTransfer EXCEPT ![t] = freeHead] /\ freeHead' = t
      /\ UNCHANGED <<hcDone, hccaDone, writeDoneHead, nextTD, tail, head,
          linked, saved, serving, endpoint>>
  BY <1>0 DEF RemoveDone, ReturnTransfer, Shape, Control, Left, Removing, tdVars, hcVars
<1>2. s[WorkP] = <<t>> /\ t \in TD
  BY <1>0, <1>1, OnlyTail
<1>a. Head(<<t>>) = t /\ Tail(<<t>>) = <<>> /\ <<t>> # <<>>
  OBVIOUS
<1>3. /\ Arranged(s, Place, TD) /\ Arranged(r, Place, TD)
      /\ Moved(s, r, Place, WorkP, FreeP, <<>>, <<t>> \o s[FreeP])
  <2>1. Arranged(s, Place, TD) /\ s[WorkP] # <<>>
    BY <1>2, <1>a DEF Layout
  <2>2. /\ Arranged(r, Place, TD)
        /\ Moved(s, r, Place, WorkP, FreeP, Tail(s[WorkP]), <<Head(s[WorkP])>> \o s[FreeP])
    BY <2>1, ArrangedMoveFirst
  <2>3. Tail(s[WorkP]) = <<>> /\ Head(s[WorkP]) = t
    BY <1>2, <1>a
  <2> QED BY <2>1, <2>2, <2>3
<1>4. Same(nextTransfer, nextTransfer', {t}) /\ nextTransfer'[t] = freeHead
  BY <1>1, <1>2 DEF Same, Shape, TypeOK
<1>5. \A q \in Place : q # WorkP => Avoids(s[q], {t}) /\ s[q] \in Seq(TD)
  BY <1>2, <1>a, <1>3, HeadOf, ArrangedParts
<1> HIDE DEF r, t
<1>6. /\ r[WorkP] = <<>> /\ r[FreeP] = <<t>> \o s[FreeP]
      /\ r[HccaP] = s[HccaP] /\ r[QueueP] = s[QueueP] /\ r[HcP] = s[HcP]
      /\ \A f \in Endpoint : r[EpP(f)] = s[EpP(f)]
  BY <1>3 DEF Moved
<1>7. LinkedBy(r[FreeP], freeHead', nextTransfer', Null)
  <2>1. s[FreeP] \in Seq(TD) /\ LinkedBy(s[FreeP], freeHead, nextTransfer, Null)
    BY <1>5 DEF Layout
  <2>2. LinkedBy(s[FreeP], freeHead, nextTransfer', Null)
    BY <2>1, <1>4, <1>5, LinkAvoids
  <2>3. LinkedBy(<<t>> \o s[FreeP], t, nextTransfer', Null)
    BY <2>1, <2>2, <1>2, <1>4, LinkPush
  <2> QED BY <1>1, <1>6, <2>3
<1>8. LinkedBy(r[QueueP], writeDoneHead', nextTransfer', Null)
  BY <1>1, <1>4, <1>5, <1>6, LinkAvoids DEF Layout
<1>9. WorkIs(r[WorkP])'
  BY <1>1, <1>6 DEF WorkIs, Holding, Removing
<1>10. EndpointsAre(r)'
  BY <1>0, <1>1, <1>6 DEF Layout, EndpointsAre, Listed, Removing
<1>11. Served'
  BY <1>0, <1>1 DEF Layout, Served, Listed, Removing
<1>12. Owned(r)'
  <2>1. InPlace(r, FreeP, t) /\ \A u : InPlace(s, FreeP, u) => InPlace(r, FreeP, u)
    BY <1>2, <1>5, <1>6, FreeGrows
  <2>2. Owned(s)
    BY DEF Layout
  <2> QED BY <1>0, <1>1, <2>1, <2>2 DEF Owned, Removing, t
<1>13. Layout(r)'
  BY <1>1, <1>3, <1>6, <1>7, <1>8, <1>9, <1>10, <1>11, <1>12 DEF Layout
<1> QED BY <1>13, <1>0, <1>1, <1>2, <1>3 DEF t, Layout, EndpointsAre, Listed

(* A new endpoint takes a TD from the free list as its tail.               *)
LEMMA CreateStep ==
  ASSUME Shape, NEW s, Layout(s), NEW e \in Endpoint, CreateEndpoint(e)
  PROVE  \E r : Layout(r)' /\ Moved(s, r, Place, FreeP, EpP(e), Tail(s[FreeP]), <<freeHead>>)
            /\ s[EpP(e)] = <<>>
<1> DEFINE l == s[FreeP] r == MoveLast(s, FreeP, EpP(e))
<1> USE PlaceFacts
<1>0. PICK t \in TD :
       /\ PopFree(e, t)
       /\ nextTransfer' = [nextTransfer EXCEPT ![t] = Null]
       /\ nextTD' = [nextTD EXCEPT ![t] = Null]
       /\ head' = [head EXCEPT ![e] = t]
       /\ tail' = [tail EXCEPT ![e] = t]
  BY DEF CreateEndpoint
<1>1. /\ pc = "idle" /\ e \notin linked /\ linked' = linked \cup {e}
      /\ t = freeHead /\ freeHead' = nextTransfer[t] /\ endpoint' = [endpoint EXCEPT ![t] = e]
      /\ UNCHANGED <<hcDone, hccaDone, writeDoneHead, pc, target, curr, op, saved, serving>>
  BY <1>0 DEF CreateEndpoint, GateFree, PopFree, hcVars, wlVars
<1>2. l \in Seq(TD) /\ Distinct(l) /\ LinkedBy(l, t, nextTransfer, Null) /\ l # <<>>
  BY <1>1, ArrangedParts, LinkEmpty, NullIsNone DEF Layout
<1>3. t = Head(l) /\ LinkedBy(Tail(l), nextTransfer[t], nextTransfer, Null)
  BY <1>2, LinkPop
<1>4. s[EpP(e)] = <<>>
  BY <1>1 DEF Layout, EndpointsAre, Listed
<1>a. Append(<<>>, t) = <<t>>
  OBVIOUS
<1>5. /\ Arranged(s, Place, TD) /\ Arranged(r, Place, TD)
      /\ Moved(s, r, Place, FreeP, EpP(e), Tail(l), <<t>>)
  <2>1. Arranged(s, Place, TD) /\ s[FreeP] # <<>>
    BY <1>2 DEF Layout
  <2>2. /\ Arranged(r, Place, TD)
        /\ Moved(s, r, Place, FreeP, EpP(e), Tail(s[FreeP]), Append(s[EpP(e)], Head(s[FreeP])))
    BY <2>1, ArrangedMoveLast
  <2>3. Append(s[EpP(e)], Head(s[FreeP])) = <<t>>
    BY <1>3, <1>4, <1>a
  <2> QED BY <2>1, <2>2, <2>3
<1>6. /\ Same(nextTransfer, nextTransfer', {t}) /\ Same(nextTD, nextTD', {t})
      /\ nextTD'[t] = Null /\ head'[e] = t /\ tail'[e] = t
      /\ \A f \in Endpoint : f # e => head'[f] = head[f] /\ tail'[f] = tail[f]
  BY <1>0 DEF Same, Shape, TypeOK
<1>7. /\ Tail(l) \in Seq(TD) /\ Avoids(Tail(l), {t})
      /\ \A q \in Place : q # FreeP => Avoids(s[q], {t}) /\ s[q] \in Seq(TD)
  BY <1>2, <1>3, <1>5, HeadOf, ArrangedParts
<1> HIDE DEF l, r
<1>8. /\ r[FreeP] = Tail(l) /\ r[EpP(e)] = <<t>> /\ r[WorkP] = s[WorkP]
      /\ r[HccaP] = s[HccaP] /\ r[QueueP] = s[QueueP] /\ r[HcP] = s[HcP]
      /\ \A f \in Endpoint : f # e => r[EpP(f)] = s[EpP(f)]
  BY <1>5 DEF Moved
<1>9. LinkedBy(r[FreeP], freeHead', nextTransfer', Null)
  BY <1>1, <1>3, <1>6, <1>7, <1>8, LinkAvoids
<1>10. LinkedBy(r[QueueP], writeDoneHead', nextTransfer', Null)
  BY <1>1, <1>6, <1>7, <1>8, LinkAvoids DEF Layout
<1>11. WorkIs(r[WorkP])'
  BY <1>1, <1>8 DEF Layout, WorkIs, Holding, Removing
<1>12. EndpointsAre(r)'
  <2> SUFFICES ASSUME NEW f \in Endpoint
               PROVE  IF Listed(f)' THEN TailedBy(r[EpP(f)], head'[f], nextTD', tail'[f])
                      ELSE r[EpP(f)] = <<>>
    BY DEF EndpointsAre
  <2>1. CASE f = e
    <3>1. Listed(e)'
      BY <1>1 DEF Listed, Removing
    <3> QED BY <2>1, <3>1, <1>6, <1>8, TailedSingle
  <2>2. CASE f # e
    <3>1. Listed(f)' = Listed(f)
      BY <2>2, <1>1 DEF Listed, Removing
    <3>2. CASE Listed(f)
      <4>1. TailedBy(s[EpP(f)], head[f], nextTD, tail[f])
        BY <3>2 DEF Layout, EndpointsAre
      <4>2. TailedBy(s[EpP(f)], head[f], nextTD', tail[f])
        BY <4>1, <1>6, <1>7, TailedAvoids
      <4> QED BY <2>2, <3>1, <3>2, <4>2, <1>6, <1>8
    <3>3. CASE ~Listed(f)
      BY <2>2, <3>1, <3>3, <1>8 DEF Layout, EndpointsAre
    <3> QED BY <3>2, <3>3
  <2> QED BY <2>1, <2>2
<1>13. Served'
  <2>1. ~Removing /\ ~Removing'
    BY <1>1 DEF Removing
  <2> SUFFICES ASSUME serving # Idle
               PROVE  /\ Listed(serving.ep)' /\ serving.td = head'[serving.ep]
                      /\ serving.td # tail'[serving.ep]
                      /\ serving.next = nextTD'[serving.td]
    BY <1>1, <2>1 DEF Served
  <2>2. PICK f \in Endpoint : f = serving.ep
    BY DEF Shape, Control
  <2>3. /\ Listed(f) /\ serving.td = head[f] /\ serving.td # tail[f] /\ f # e
        /\ serving.next = nextTD[serving.td]
    BY <2>2, <1>1 DEF Layout, Served, Listed
  <2>4. TailedBy(s[EpP(f)], head[f], nextTD, tail[f]) /\ s[EpP(f)] \in Seq(TD)
    BY <2>3, <1>7 DEF Layout, EndpointsAre
  <2>5. head[f] \in TD /\ head[f] # t
    <3>1. s[EpP(f)] # <<>> /\ head[f] = s[EpP(f)][1] /\ 1 \in 1 .. Len(s[EpP(f)]) /\ head[f] \in TD
      BY <2>4, LinkEmpty, FirstIs, NullIsNone DEF TailedBy
    <3> QED BY <3>1, <1>7 DEF Avoids
  <2>6. nextTD'[head[f]] = nextTD[head[f]]
    BY <2>5, <1>6 DEF Same
  <2> QED BY <2>2, <2>3, <2>6, <1>1, <1>6, <2>1 DEF Listed
<1>14. Owned(r)'
  <2>1. \A u : InPlace(s, FreeP, u) => u = t \/ InPlace(r, FreeP, u)
    BY <1>2, <1>3, <1>8, FreeShrinks DEF l
  <2>2. Owned(s)
    BY DEF Layout
  <2>3. endpoint'[t] = e /\ \A u \in TD : u # t => endpoint'[u] = endpoint[u]
    BY <1>1 DEF Shape, TypeOK
  <2> QED BY <1>1, <1>6, <2>1, <2>2, <2>3 DEF Owned, Removing
<1>15. s[HcP] = hcDone /\ s[HccaP] = hccaDone
  BY DEF Layout
<1>16. Layout(r)'
  BY <1>1, <1>5, <1>8, <1>9, <1>10, <1>11, <1>12, <1>13, <1>14, <1>15 DEF Layout
<1> QED BY <1>16, <1>1, <1>4, <1>5 DEF l

(* A chunk fills the tail and takes a TD from the free list as the new one.*)
LEMMA ChunkStep ==
  ASSUME "abort" \notin ResubmitAfter, Shape, NEW s, Layout(s), SubmitChunk
  PROVE  \E r : Layout(r)' /\ \E q \in Place :
             /\ IF Listed(sub.ep) THEN q = EpP(sub.ep)
                ELSE Removing /\ sub.ep = target /\ q = WorkP
             /\ Moved(s, r, Place, FreeP, q, Tail(s[FreeP]), Append(s[q], freeHead))
<1> USE PlaceFacts
<1>0. PICK e \in Endpoint : e = sub.ep
  BY DEF SubmitChunk, Shape, Control, TypeOK
<1>a. PICK c \in TD : c = tail[e]
  BY <1>0 DEF SubmitChunk, Shape, Control
<1>b. PICK t \in TD :
       /\ PopFree(e, t)
       /\ nextTransfer' = [nextTransfer EXCEPT ![t] = Null, ![c] = t]
       /\ nextTD' = [nextTD EXCEPT ![t] = Null, ![c] = t]
       /\ tail' = [tail EXCEPT ![e] = t]
  BY <1>0, <1>a DEF SubmitChunk
<1>1. /\ pc \in {"idle", "return", "failReturn", "removeReturn"} /\ e \in linked
      /\ pc = "removeReturn" => op # "abort"
      /\ t = freeHead /\ freeHead' = nextTransfer[t] /\ endpoint' = [endpoint EXCEPT ![t] = e]
      /\ UNCHANGED <<head, linked, hcDone, hccaDone, writeDoneHead, pc, target, curr, op, saved, serving>>
  BY <1>0, <1>b DEF SubmitChunk, PopFree, Shape, Control, hcVars, wlVars
<1>c. PICK q \in Place : \/ Listed(e) /\ q = EpP(e)
                         \/ ~Listed(e) /\ Removing /\ e = target /\ q = WorkP
  BY <1>1 DEF Listed
<1>d. PICK start \in TDOrNull : start = IF Listed(e) THEN head[e] ELSE curr
  BY DEF Shape, TypeOK
<1> DEFINE l == s[FreeP] m == s[q] r == MoveLast(s, FreeP, q)
<1>2. l \in Seq(TD) /\ Distinct(l) /\ LinkedBy(l, t, nextTransfer, Null) /\ l # <<>>
  BY <1>1, ArrangedParts, LinkEmpty, NullIsNone DEF Layout
<1>3. t = Head(l) /\ LinkedBy(Tail(l), nextTransfer[t], nextTransfer, Null)
  BY <1>2, LinkPop
<1>4. m \in Seq(TD) /\ Distinct(m) /\ TailedBy(m, start, nextTD, c) /\ q # FreeP
  BY <1>a, <1>c, <1>d, ArrangedParts DEF Layout, EndpointsAre, WorkIs
<1>5. /\ Arranged(s, Place, TD) /\ Arranged(r, Place, TD)
      /\ Moved(s, r, Place, FreeP, q, Tail(l), Append(m, t))
  <2>1. Arranged(s, Place, TD) /\ s[FreeP] # <<>>
    BY <1>2 DEF Layout
  <2>2. /\ Arranged(r, Place, TD)
        /\ Moved(s, r, Place, FreeP, q, Tail(s[FreeP]), Append(s[q], Head(s[FreeP])))
    BY <2>1, <1>4, ArrangedMoveLast
  <2> QED BY <2>1, <2>2, <1>3
<1>6. /\ Tail(l) \in Seq(TD) /\ Avoids(Tail(l), {t})
      /\ \A p \in Place : p # FreeP => Avoids(s[p], {t}) /\ s[p] \in Seq(TD)
  BY <1>2, <1>3, <1>5, HeadOf, ArrangedParts
<1>7. /\ \A p \in Place : p # q => Avoids(s[p], {c})
      /\ Avoids(Tail(l), {c})
  <2>1. m # <<>> /\ Len(m) \in 1 .. Len(m) /\ c = m[Len(m)]
    BY <1>4, FirstIs DEF TailedBy
  <2>2. \A p \in Place : p # q => Avoids(s[p], {c})
    BY <2>1, <1>5, ArrangedParts
  <2>3. Avoids(l, {c})
    BY <2>2, <1>4
  <2> QED BY <2>2, <2>3, <1>2, TailAvoids
<1>8. t # c
  <2>1. m # <<>> /\ Len(m) \in 1 .. Len(m) /\ c = m[Len(m)]
    BY <1>4, FirstIs DEF TailedBy
  <2>2. Avoids(m, {t})
    BY <1>4, <1>6
  <2> QED BY <2>1, <2>2 DEF Avoids
<1>9. /\ Same(nextTransfer, nextTransfer', {t, c}) /\ Same(nextTD, nextTD', {t, c})
      /\ nextTD'[t] = Null /\ nextTD'[c] = t /\ tail'[e] = t
      /\ \A f \in Endpoint : f # e => tail'[f] = tail[f]
  BY <1>b, <1>8 DEF Same, Shape, TypeOK
<1> HIDE DEF l, m, r
<1>10. /\ r[FreeP] = Tail(l) /\ r[q] = Append(m, t)
       /\ \A p \in Place : p \notin {FreeP, q} =>
            r[p] = s[p] /\ Avoids(s[p], {t, c}) /\ s[p] \in Seq(TD)
  BY <1>5, <1>6, <1>7, AvoidsTwo DEF Moved
<1>11. TailedBy(r[q], start, nextTD', t)
  <2>1. Avoids(m, {t})
    BY <1>4, <1>6 DEF m
  <2>2. /\ m \in Seq(TD) /\ Distinct(m) /\ TailedBy(m, start, nextTD, c)
        /\ nextTD'[c] = t /\ nextTD'[t] = Null /\ Same(nextTD, nextTD', {t, c})
    BY <1>4, <1>9
  <2>3. TailedBy(Append(m, t), start, nextTD', t)
    BY <2>1, <2>2, TailedAppend
  <2> QED BY <2>3, <1>10
<1>12. LinkedBy(r[FreeP], freeHead', nextTransfer', Null)
  <2>1. Avoids(Tail(l), {t, c})
    BY <1>6, <1>7, AvoidsTwo
  <2> QED BY <2>1, <1>1, <1>3, <1>6, <1>9, <1>10, LinkAvoids
<1>13. LinkedBy(r[QueueP], writeDoneHead', nextTransfer', Null)
  <2>1. QueueP \notin {FreeP, q}
    BY <1>c
  <2> QED BY <2>1, <1>1, <1>9, <1>10, LinkAvoids DEF Layout
<1>14. WorkIs(r[WorkP])'
  <2>1. CASE q = WorkP
    <3>1. Removing /\ pc = "removeReturn" /\ e = target /\ start = curr
      BY <2>1, <1>1, <1>c, <1>d DEF Removing
    <3>2. curr # t
      <4>1. curr = Head(m) /\ m # <<>>
        BY <3>1, <1>4, TailedPop DEF TailedBy
      <4>2. 1 \in 1 .. Len(m) /\ curr = m[1]
        BY <4>1, <1>4, FirstIs
      <4>3. Avoids(m, {t})
        BY <1>4, <1>6 DEF m
      <4> QED BY <4>2, <4>3 DEF Avoids
    <3> QED BY <2>1, <3>1, <3>2, <1>1, <1>9, <1>11 DEF WorkIs, Holding, Removing, TailedBy
  <2>2. CASE q # WorkP
    <3>1. WorkP \notin {FreeP, q} /\ q = EpP(e)
      BY <2>2, <1>c
    <3>2. r[WorkP] = s[WorkP] /\ Avoids(s[WorkP], {t, c}) /\ s[WorkP] \in Seq(TD)
      BY <3>1, <1>10
    <3>3. WorkIs(s[WorkP])
      BY DEF Layout
    <3>4. Removing => TailedBy(s[WorkP], curr, nextTD', tail'[target]) /\ tail'[target] = tail[target]
      <4> SUFFICES ASSUME Removing
                   PROVE  TailedBy(s[WorkP], curr, nextTD', tail'[target]) /\ tail'[target] = tail[target]
        OBVIOUS
      <4>1. target # e /\ target \in Endpoint
        BY <2>2, <1>c DEF Listed, Shape, Reserved, Removing
      <4>2. TailedBy(s[WorkP], curr, nextTD, tail[target])
        BY <3>3 DEF WorkIs
      <4> QED BY <4>1, <4>2, <3>2, <1>9, TailedAvoids
    <3> QED BY <3>2, <3>3, <3>4, <1>1, <1>9, WorkAvoids
  <2> QED BY <2>1, <2>2
<1>15. EndpointsAre(r)'
  <2> SUFFICES ASSUME NEW f \in Endpoint
               PROVE  IF Listed(f)' THEN TailedBy(r[EpP(f)], head'[f], nextTD', tail'[f])
                      ELSE r[EpP(f)] = <<>>
    BY DEF EndpointsAre
  <2>0. Listed(f)' = Listed(f)
    BY <1>1 DEF Listed, Removing
  <2>1. CASE EpP(f) = q
    BY <2>0, <2>1, <1>c, <1>d, <1>1, <1>9, <1>11
  <2>2. CASE EpP(f) # q
    <3>0. r[EpP(f)] = s[EpP(f)] /\ Avoids(s[EpP(f)], {t, c}) /\ s[EpP(f)] \in Seq(TD)
      BY <2>2, <1>10
    <3>2. CASE Listed(f)
      <4>0. f # e
        BY <2>2, <3>2, <1>c
      <4>1. TailedBy(s[EpP(f)], head[f], nextTD, tail[f])
        BY <3>2 DEF Layout, EndpointsAre
      <4>2. TailedBy(s[EpP(f)], head[f], nextTD', tail[f])
        BY <4>1, <3>0, <1>9, TailedAvoids
      <4> QED BY <2>0, <3>0, <3>2, <4>0, <4>2, <1>1, <1>9
    <3>3. CASE ~Listed(f)
      BY <2>0, <3>0, <3>3 DEF Layout, EndpointsAre
    <3> QED BY <3>2, <3>3
  <2> QED BY <2>1, <2>2
<1>16. Served'
  <2>a. Removing /\ op = "abort" => FALSE
    BY <1>1 DEF Removing
  <2> SUFFICES ASSUME serving # Idle
               PROVE  /\ Listed(serving.ep)' /\ serving.td = head'[serving.ep]
                      /\ serving.td # tail'[serving.ep]
                      /\ serving.next = nextTD'[serving.td]
    BY <2>a, <1>1 DEF Served, Removing
  <2>2. PICK f \in Endpoint : f = serving.ep
    BY DEF Shape, Control
  <2>3. /\ Listed(f) /\ serving.td = head[f] /\ serving.td # tail[f]
        /\ serving.next = nextTD[serving.td] /\ Listed(f)'
    BY <2>2, <1>1 DEF Layout, Served, Listed, Removing
  <2>4. TailedBy(s[EpP(f)], head[f], nextTD, tail[f]) /\ s[EpP(f)] \in Seq(TD)
    BY <2>3, <1>6 DEF Layout, EndpointsAre
  <2>b. s[EpP(f)] # <<>> /\ head[f] = s[EpP(f)][1] /\ 1 \in 1 .. Len(s[EpP(f)]) /\ head[f] \in TD
    BY <2>4, LinkEmpty, FirstIs, NullIsNone DEF TailedBy
  <2>5. head[f] # t
    BY <2>b, <1>6 DEF Avoids
  <2>6. head[f] # c
    <3>1. CASE f = e
      BY <3>1, <2>3, <1>a
    <3>2. CASE f # e
      <4>1. EpP(f) # q
        BY <3>2, <1>c
      <4> QED BY <4>1, <2>b, <1>7 DEF Avoids
    <3> QED BY <3>1, <3>2
  <2>7. nextTD'[head[f]] = nextTD[head[f]]
    BY <2>b, <2>5, <2>6, <1>9 DEF Same
  <2>8. head[f] # tail'[f]
    BY <2>3, <2>5, <1>9
  <2> QED BY <2>2, <2>3, <2>7, <2>8, <1>1
<1>17. Owned(r)'
  <2>1. \A u : InPlace(s, FreeP, u) => u = t \/ InPlace(r, FreeP, u)
    BY <1>2, <1>3, <1>10, FreeShrinks DEF l
  <2>2. Owned(s)
    BY DEF Layout
  <2>3. endpoint'[t] = e /\ \A u \in TD : u # t => endpoint'[u] = endpoint[u]
    BY <1>1 DEF Shape, TypeOK
  <2> QED BY <1>1, <1>9, <2>1, <2>2, <2>3 DEF Owned, Removing
<1>18. s[HcP] = hcDone /\ s[HccaP] = hccaDone /\ HcP \notin {FreeP, q} /\ HccaP \notin {FreeP, q}
  BY <1>c DEF Layout
<1>19. Layout(r)'
  BY <1>1, <1>5, <1>10, <1>12, <1>13, <1>14, <1>15, <1>16, <1>17, <1>18 DEF Layout
<1> QED BY <1>19, <1>0, <1>1, <1>c, <1>5 DEF l, m

(* Every step that does not end in the error path keeps the layout. A      *)
(* completion that submits again during an abort would not: the removal has*)
(* stored the head of the chain, and restores it when its TD is freed.     *)
LEMMA LayoutStep ==
  ASSUME "abort" \notin ResubmitAfter, Shape, NEW s, Layout(s), ~failed, ~failed', Next
  PROVE  \E r : Layout(r)'
<1>1. CASE \E e \in Endpoint : CreateEndpoint(e)
  BY <1>1, CreateStep
<1>2. CASE \/ \E x \in Transfer, e \in Endpoint : \/ SubmitStalled(x, e)
                                                 \/ \E n \in 1 .. MaxChunks : SubmitStart(x, e, n)
           \/ SubmitFails
  BY <1>2, QuietStep
<1>3. CASE SubmitChunk
  BY <1>3, ChunkStep
<1>4. CASE \E e \in Endpoint : HCStart(e)
  BY <1>4, StartStep
<1>5. CASE HCStop
  BY <1>5, StopStep
<1>6. CASE \E e \in Endpoint, code \in {"ok", "error"} : HCRetire(e, code)
  BY <1>6, RetireStep
<1>7. CASE HCWriteback
  BY <1>7, WritebackStep
<1>8. CASE FilterInterrupt
  BY <1>8, FilterStep
<1>9. CASE HandleInterrupt
  BY <1>9, TakeStep
<1>10. CASE CompleteTransfer \/ FailTransfer
  BY <1>10, CompleteStep
<1>11. CASE HandlerReturn
  BY <1>11, ReturnStep
<1>12. CASE Quiesced \/ \E e \in Endpoint, o \in Ops : RemovalStart(e, o)
  BY <1>12, WaitStep
<1>13. CASE FailStep
  BY <1>13 DEF FailStep
<1>14. CASE FailRanOut
  BY <1>14, NotRanOut
<1>15. CASE SleepDone
  BY <1>15, DetachStep
<1>16. CASE RemoveStep
  BY <1>16, CallStep
<1>17. CASE RemoveReturn
  BY <1>17, RemoveReturnStep
<1>18. CASE RemoveDone
  BY <1>18, RestoreStep, DeleteStep
<1> QED
  BY <1>1, <1>2, <1>3, <1>4, <1>5, <1>6, <1>7, <1>8, <1>9, <1>10, <1>11, <1>12, <1>13,
     <1>14, <1>15, <1>16, <1>17, <1>18
     DEF Next, Client, Submission, Controller, Workloop

(* Every step keeps the rest.                                              *)
LEMMA ShapeStep ==
  ASSUME Shape, ~failed => \E s : Layout(s), Next
  PROVE  Shape'
<1>1. TypeOK'
  BY TypeStep
<1>2. Control'
  BY <1>1, ControlStep
<1>3. IInv
  BY DEF Shape, IInv, TypeOK
<1>4. IInv'
  BY <1>3, Inductive
<1> QED BY <1>1, <1>2, <1>4 DEF Shape, IInv

(* The invariant is inductive.                                             *)
LEMMA TInvInductive ==
  ASSUME "abort" \notin ResubmitAfter, TInv, [Next]_vars
  PROVE  TInv'
<1>1. CASE Next
  <2>1. Shape'
    BY <1>1, ShapeStep DEF TInv
  <2>2. failed => failed'
    BY <1>1 DEF Next, Client, Submission, Controller, Workloop,
       CreateEndpoint, SubmitStalled, SubmitStart, RemovalStart, SubmitChunk, SubmitFails,
       HCStart, HCRetire, HCStop, HCWriteback, FilterInterrupt, HandleInterrupt,
       CompleteTransfer, HandlerReturn, FailTransfer, Quiesced, FailStep, FailRanOut,
       SleepDone, RemoveStep, RemoveReturn, RemoveDone, history
  <2>3. CASE ~failed /\ ~failed'
    <3>1. PICK s : Layout(s)
      BY <2>3 DEF TInv
    <3>2. \E r : Layout(r)'
      BY <1>1, <2>3, <3>1, LayoutStep DEF TInv
    <3> QED BY <2>1, <3>2 DEF TInv
  <2> QED BY <2>1, <2>2, <2>3 DEF TInv
<1>2. CASE UNCHANGED vars
  <2>1. Shape'
    BY <1>2 DEF TInv, Shape, TypeOK, Reserved, Left, Control, Removing, vars, tdVars, edVars,
       hcVars, wlVars, history
  <2>2. UNCHANGED Seen /\ failed' = failed
    BY <1>2 DEF Seen, vars, tdVars, edVars, hcVars, wlVars, history
  <2>3. CASE failed
    BY <2>1, <2>2, <2>3 DEF TInv
  <2>4. CASE ~failed
    <3>1. PICK s : Layout(s)
      BY <2>4 DEF TInv
    <3>2. Layout(s)'
      BY <2>2, <3>1, LayoutKept
    <3> QED BY <2>1, <3>2 DEF TInv
  <2> QED BY <2>3, <2>4
<1> QED BY <1>1, <1>2

(* The lists of the state function are those of the layout.                *)
PlaceNo == <<FreeP, HcP, HccaP, QueueP, WorkP>>

(* The members of the list at a place.                                     *)
LEMMA ToSetIs ==
  ASSUME NEW s, Arranged(s, Place, TD), NEW p \in Place
  PROVE  ToSet(s[p]) = {t \in TD : InPlace(s, p, t)}
<1>1. s[p] \in Seq(TD)
  BY DEF Arranged
<1> DEFINE l == s[p]
<1>2. l \in Seq(TD)
  BY <1>1
<1> HIDE DEF l
<1>3. ToSet(l) = {t \in TD : \E i \in 1 .. Len(l) : l[i] = t}
  BY <1>2 DEF ToSet
<1> QED BY <1>3 DEF l, InPlace

(* A list has no null pointer.                                             *)
LEMMA NullFree ==
  ASSUME NEW l \in Seq(TD)
  PROVE  EndsAt(l, Null)
BY NullIsNone DEF EndsAt

(* Chain finds the members of a chain that ends in the tail.               *)
LEMMA TailedChain ==
  ASSUME NEW l \in Seq(TD), Distinct(l), NEW start, NEW next, NEW x, TailedBy(l, start, next, x)
  PROVE  Chain(start, next, x) = ToSet(l)
<1>1. LinkedBy(l, start, next, Null) /\ l # <<>> /\ x = Last(l)
  BY DEF TailedBy
<1>2. EndsAt(l, x)
  BY <1>1, FirstIs DEF EndsAt, Distinct
<1> QED BY <1>1, <1>2, ChainIs

(* The lists that Places counts in are those of the layout.                *)
LEMMA ListsAre ==
  ASSUME Shape, NEW s, Layout(s)
  PROVE  /\ \A i \in 1 .. 5 : Lists[i] = {t \in TD : InPlace(s, PlaceNo[i], t)}
         /\ \A e \in Endpoint : Linked(e) = {t \in TD : InPlace(s, EpP(e), t)}
<1> USE PlaceFacts
<1>0. Arranged(s, Place, TD) /\ \A p \in Place : s[p] \in Seq(TD) /\ Distinct(s[p])
  BY ArrangedParts DEF Layout
<1>1. Free = {t \in TD : InPlace(s, FreeP, t)}
  <2>1. LinkedBy(s[FreeP], freeHead, nextTransfer, Null)
    BY DEF Layout
  <2> QED BY <1>0, <2>1, NullFree, ChainIs, ToSetIs DEF Free
<1>2. Queue = {t \in TD : InPlace(s, QueueP, t)}
  <2>1. LinkedBy(s[QueueP], writeDoneHead, nextTransfer, Null)
    BY DEF Layout
  <2> QED BY <1>0, <2>1, NullFree, ChainIs, ToSetIs DEF Queue
<1>3. ToSet(hcDone) = {t \in TD : InPlace(s, HcP, t)} /\ ToSet(hccaDone) = {t \in TD : InPlace(s, HccaP, t)}
  BY <1>0, ToSetIs DEF Layout
<1>4. Work = ToSet(s[WorkP])
  <2> DEFINE l == s[WorkP]
  <2>0. l \in Seq(TD) /\ Distinct(l) /\ WorkIs(l)
    BY <1>0 DEF Layout
  <2> HIDE DEF l
  <2>1. CASE pc = "process"
    <3>1. Chain(curr, nextTransfer, Null) = ToSet(l)
      BY <2>0, <2>1, NullFree, ChainIs DEF WorkIs
    <3> QED BY <2>1, <3>1 DEF Work, Removing, l
  <2>2. CASE Holding
    <3>1. l # <<>> /\ Head(l) = curr /\ LinkedBy(Tail(l), saved, nextTransfer, Null)
      BY <2>0, <2>2 DEF WorkIs
    <3>2. Tail(l) \in Seq(TD) /\ Distinct(Tail(l)) /\ ToSet(l) = {Head(l)} \cup ToSet(Tail(l))
      <4>1. PICK k \in Nat : Len(l) = k + 1
        BY <2>0, <3>1, TailIs
      <4> DEFINE m == Tail(l)
      <4>2. m \in Seq(TD) /\ Len(m) = k /\ Head(l) = l[1] /\ \A i \in 1 .. k : m[i] = l[i + 1]
        BY <4>1, <2>0, <3>1, TailIs
      <4> HIDE DEF m
      <4>3. Distinct(m)
        <5>1. \A i \in 1 .. k : i + 1 \in 1 .. k + 1
          OBVIOUS
        <5> QED BY <5>1, <4>1, <4>2, <2>0 DEF Distinct
      <4>4. ToSet(l) = {l[i] : i \in 1 .. k + 1} /\ ToSet(m) = {m[i] : i \in 1 .. k}
        BY <4>1, <4>2, <2>0 DEF ToSet
      <4>5. \A i \in 1 .. k + 1 : i = 1 \/ (i - 1 \in 1 .. k /\ (i - 1) + 1 = i)
        OBVIOUS
      <4>6. \A i \in 1 .. k : i + 1 \in 1 .. k + 1
        OBVIOUS
      <4>7. 1 \in 1 .. k + 1
        OBVIOUS
      <4>8. ToSet(l) = {l[1]} \cup ToSet(m)
        <5>1. ASSUME NEW x \in ToSet(l) PROVE x \in {l[1]} \cup ToSet(m)
          <6>1. PICK i \in 1 .. k + 1 : x = l[i]
            BY <4>4
          <6>2. i = 1 \/ (i - 1 \in 1 .. k /\ m[i - 1] = x)
            BY <6>1, <4>2, <4>5
          <6> QED BY <6>1, <6>2, <4>4
        <5>2. ASSUME NEW x \in {l[1]} \cup ToSet(m) PROVE x \in ToSet(l)
          <6>1. CASE x = l[1]
            BY <6>1, <4>4, <4>7
          <6>2. CASE x \in ToSet(m)
            <7>1. PICK i \in 1 .. k : x = m[i]
              BY <6>2, <4>4
            <7> QED BY <7>1, <4>2, <4>4, <4>6
          <6> QED BY <6>1, <6>2
        <5> QED BY <5>1, <5>2
      <4> QED BY <4>2, <4>3, <4>8 DEF m
    <3>3. Chain(saved, nextTransfer, Null) = ToSet(Tail(l))
      BY <3>1, <3>2, NullFree, ChainIs
    <3> QED BY <2>2, <3>1, <3>2, <3>3 DEF Work, Holding, Removing, l
  <2>3. CASE Removing
    <3>1. Chain(curr, nextTD, tail[target]) = ToSet(l)
      BY <2>0, <2>3, TailedChain DEF WorkIs
    <3> QED BY <2>3, <3>1 DEF Work, Removing, l
  <2>4. CASE ~(pc = "process") /\ ~Holding /\ ~Removing
    <3>1. l = <<>>
      BY <2>0, <2>4 DEF WorkIs
    <3>2. ToSet(l) = {}
      BY <3>1 DEF ToSet
    <3> QED BY <2>4, <3>2 DEF Work, Holding, Removing, l
  <2> QED BY <2>1, <2>2, <2>3, <2>4
<1>5. ASSUME NEW e \in Endpoint PROVE Linked(e) = {t \in TD : InPlace(s, EpP(e), t)}
  <2>1. CASE Listed(e)
    <3>1. TailedBy(s[EpP(e)], head[e], nextTD, tail[e])
      BY <2>1 DEF Layout, EndpointsAre
    <3>2. Chain(head[e], nextTD, tail[e]) = ToSet(s[EpP(e)])
      BY <1>0, <3>1, TailedChain
    <3> QED BY <1>0, <2>1, <3>2, ToSetIs DEF Linked, Listed
  <2>2. CASE ~Listed(e)
    <3>1. s[EpP(e)] = <<>>
      BY <2>2 DEF Layout, EndpointsAre
    <3>2. \A t : ~InPlace(s, EpP(e), t)
      BY <3>1 DEF InPlace
    <3> QED BY <2>2, <3>2 DEF Linked, Listed
  <2> QED BY <2>1, <2>2
<1> QED BY <1>0, <1>1, <1>2, <1>3, <1>4, <1>5, ToSetIs DEF Lists, PlaceNo

(* The invariant says that each TD is in one place.                        *)
LEMMA OnePlace ==
  ASSUME Shape, NEW s, Layout(s), NEW t \in TD
  PROVE  Places(t) = 1
<1> USE PlaceFacts
<1>1. PICK p \in Place : InPlace(s, p, t)
  BY ArrangedParts DEF Layout
<1>2. \A q \in Place : InPlace(s, q, t) <=> q = p
  BY <1>1, ArrangedParts DEF Layout
<1>3. DOMAIN Lists = 1 .. 5
  BY DEF Lists
<1> DEFINE A == {i \in DOMAIN Lists : t \in Lists[i]}
           B == {e \in Endpoint : t \in Linked(e)}
<1>4. \A i \in 1 .. 5 : i \in A <=> PlaceNo[i] = p
  BY <1>2, <1>3, ListsAre DEF PlaceNo
<1>5. \A e \in Endpoint : e \in B <=> EpP(e) = p
  BY <1>2, ListsAre
<1>6. A \subseteq 1 .. 5 /\ B \subseteq Endpoint
  BY <1>3
<1> HIDE DEF A, B
<1>7. \A x : Cardinality({x}) = 1
  BY FS_Singleton
<1>8. Cardinality({}) = 0
  BY FS_EmptySet
<1>9. CASE \E e \in Endpoint : p = EpP(e)
  <2>1. PICK e \in Endpoint : p = EpP(e)
    BY <1>9
  <2>2. B = {e}
    BY <2>1, <1>5, <1>6
  <2>3. A = {}
    BY <2>1, <1>4, <1>6 DEF PlaceNo
  <2>4. Cardinality(B) = 1 /\ Cardinality(A) = 0
    BY <2>2, <2>3, <1>7, <1>8
  <2> QED BY <2>4 DEF Places, A, B
<1>10. CASE p \in {FreeP, HcP, HccaP, QueueP, WorkP}
  <2>1. B = {}
    BY <1>10, <1>5, <1>6
  <2>2. \E i \in 1 .. 5 : A = {i}
    <3>1. \E i \in 1 .. 5 : PlaceNo[i] = p
      BY <1>10 DEF PlaceNo
    <3>2. \A i, j \in 1 .. 5 : PlaceNo[i] = PlaceNo[j] => i = j
      BY DEF PlaceNo
    <3>3. PICK i \in 1 .. 5 : PlaceNo[i] = p
      BY <3>1
    <3>4. A = {i}
      BY <3>2, <3>3, <1>4, <1>6
    <3> QED BY <3>4
  <2>4. Cardinality(B) = 0 /\ Cardinality(A) = 1
    BY <2>1, <2>2, <1>7, <1>8
  <2> QED BY <2>4 DEF Places, A, B
<1> QED BY <1>9, <1>10

(* The invariant holds.                                                    *)
LEMMA InvariantHolds ==
  ASSUME "abort" \notin ResubmitAfter
  PROVE  Spec => []TInv
<1>1. Init => TInv
  BY InitShape, InitLayout DEF TInv
<1>2. TInv /\ [Next]_vars => TInv'
  BY TInvInductive
<1> QED BY <1>1, <1>2, PTL DEF Spec

(* No TD leaks, is on two lists or twice on one, through submissions,      *)
(* retirement, reordering by the filter, completion, abort, clear and      *)
(* delete, for any number of endpoints, transfers and TDs, as long as the  *)
(* error path has not run out of its list. It assumes what the code relies *)
(* on and does not enforce: that no completion submits to an endpoint      *)
(* during its abort.                                                       *)
THEOREM TDsInOnePlace ==
  ASSUME "abort" \notin ResubmitAfter
  PROVE  Spec => []EveryTDInOnePlace
<1>1. TInv => EveryTDInOnePlace
  BY OnePlace DEF TInv, EveryTDInOnePlace, Shape
<1> QED BY <1>1, InvariantHolds, PTL

(* The invariant says where the controller works.                          *)
LEMMA ServedIsLinked ==
  ASSUME Shape, NEW s, Layout(s), serving # Idle
  PROVE  /\ serving.td \in Linked(serving.ep) \ {tail[serving.ep]}
         /\ serving.td \notin Free
<1> USE PlaceFacts
<1>1. PICK e \in Endpoint : e = serving.ep
  BY DEF Shape, Control
<1>2. Listed(e) /\ serving.td = head[e] /\ serving.td # tail[e]
  BY <1>1 DEF Layout, Served
<1>3. TailedBy(s[EpP(e)], head[e], nextTD, tail[e]) /\ s[EpP(e)] \in Seq(TD)
  BY <1>2, ArrangedParts DEF Layout, EndpointsAre
<1>4. head[e] \in TD /\ InPlace(s, EpP(e), head[e])
  BY <1>3, LinkEmpty, FirstIs, NullIsNone DEF TailedBy, InPlace
<1>5. head[e] \in Linked(e)
  BY <1>4, ListsAre
<1>6. ~InPlace(s, FreeP, head[e])
  BY <1>4, ArrangedParts DEF Layout
<1>7. Free = {t \in TD : InPlace(s, FreeP, t)}
  BY ListsAre DEF Lists, PlaceNo
<1> QED BY <1>1, <1>2, <1>5, <1>6, <1>7

(* The TD the controller works on is on the chain of its endpoint and not  *)
(* its tail, and was not freed: the driver takes no TD back before the     *)
(* controller has left it. The assumption is that of TDsInOnePlace.        *)
THEOREM ServedTDIsQueued ==
  ASSUME "abort" \notin ResubmitAfter
  PROVE  Spec => []ControllerOwnsItsTD
<1>1. TInv => ControllerOwnsItsTD
  BY ServedIsLinked DEF TInv, ControllerOwnsItsTD
<1> QED BY <1>1, InvariantHolds, PTL

-----------------------------------------------------------------------------
(* The driver is a pipe. The done TDs are one line, in the order in which  *)
(* the handler comes to them: the TD in hand, what is left of its work, the*)
(* software queue, and the two lists of the controller, which are          *)
(* backwards. The chains of the endpoints follow. A TD only moves from the *)
(* head of a chain to the end of the line and from there to the free list. *)

(* The TDs of a list of done ones and of the chains.                       *)
LiveIn(l, k) == {t \in TD : t \in ToSet(l) \/ \E e \in Endpoint : t \in ToSet(k[e])}

(* The chains with m for that of e.                                        *)
With(k, e, m) == [k EXCEPT ![e] = m]

(* The list with the head of that chain behind it.                         *)
Retired(l, k, e) == Append(l, Head(k[e]))

(* No pair of C stands in that order in the list l and the chains k, where *)
(* l goes before each chain and the chains are independent.                *)
InTurn(l, k, C) ==
  /\ Ordered(l, C)
  /\ \A e \in Endpoint : Ordered(k[e], C) /\ Precedes(ToSet(l), ToSet(k[e]), C)
  /\ \A e, f \in Endpoint : e # f => Precedes(ToSet(k[e]), ToSet(k[f]), C)

(* No TD is twice in them.                                                 *)
Separate(l, k) ==
  /\ Distinct(l)
  /\ \A e \in Endpoint : Distinct(k[e]) /\ ToSet(l) \cap ToSet(k[e]) = {}
  /\ \A e, f \in Endpoint : e # f => ToSet(k[e]) \cap ToSet(k[f]) = {}

(* A list and the chains.                                                  *)
Lined(l, k) == l \in Seq(TD) /\ k \in [Endpoint -> Seq(TD)]

(* Who is in them.                                                         *)
LEMMA LiveIs ==
  ASSUME NEW l, NEW k, Lined(l, k)
  PROVE  /\ ToSet(l) \in SUBSET TD /\ \A e \in Endpoint : k[e] \in Seq(TD) /\ ToSet(k[e]) \in SUBSET TD
         /\ \A t : t \in LiveIn(l, k) <=> t \in ToSet(l) \/ \E e \in Endpoint : t \in ToSet(k[e])
<1>1. l \in Seq(TD) /\ \A e \in Endpoint : k[e] \in Seq(TD)
  BY DEF Lined
<1>2. ToSet(l) \in SUBSET TD /\ \A e \in Endpoint : ToSet(k[e]) \in SUBSET TD
  BY <1>1, MemberIs
<1> QED BY <1>1, <1>2 DEF LiveIn

(* A smaller set of pairs.                                                 *)
LEMMA PrecedesLess ==
  ASSUME NEW A, NEW B, NEW C, Precedes(A, B, C), NEW A2, NEW B2,
         A2 \subseteq A, B2 \subseteq B
  PROVE  Precedes(A2, B2, C)
BY DEF Precedes

(* The head of a chain goes to the end of the list.                        *)
LEMMA TurnRetire ==
  ASSUME NEW l, NEW k, Lined(l, k), NEW e \in Endpoint, k[e] # <<>>,
         NEW l2, l2 = Retired(l, k, e), NEW k2, k2 = With(k, e, Tail(k[e]))
  PROVE  /\ Lined(l2, k2) /\ LiveIn(l2, k2) = LiveIn(l, k)
         /\ \A f \in Endpoint : ToSet(k2[f]) \subseteq ToSet(k[f])
         /\ \A C : InTurn(l, k, C) => InTurn(l2, k2, C)
<1> USE DEF With, Retired
<1> DEFINE h == Head(k[e]) m == Tail(k[e])
<1>1. l \in Seq(TD) /\ k[e] \in Seq(TD)
  BY DEF Lined
<1>2. h \in TD /\ m \in Seq(TD) /\ ToSet(k[e]) = {h} \cup ToSet(m)
  BY <1>1, TailSet
<1>3. l2 \in Seq(TD) /\ ToSet(l2) = ToSet(l) \cup {h}
  BY <1>1, <1>2, AppendSet
<1>4. Lined(l, k2) /\ k2[e] = m /\ \A f \in Endpoint : f # e => k2[f] = k[f]
  <2>1. k2 = [k EXCEPT ![e] = m] /\ m \in Seq(TD)
    BY <1>2
  <2>2. Lined(l, k)
    OBVIOUS
  <2> HIDE DEF m
  <2> QED BY ONLY <2>1, <2>2, e \in Endpoint DEF Lined
<1>5. Lined(l2, k2)
  BY <1>3, <1>4 DEF Lined
<1>6. \A f \in Endpoint : ToSet(k2[f]) \subseteq ToSet(k[f])
  BY <1>2, <1>4
<1>7. LiveIn(l2, k2) = LiveIn(l, k)
  <2>1. \A t : (t \in ToSet(l2) \/ \E f \in Endpoint : t \in ToSet(k2[f]))
                 <=> (t \in ToSet(l) \/ \E f \in Endpoint : t \in ToSet(k[f]))
    BY <1>2, <1>3, <1>4
  <2> QED BY <2>1 DEF LiveIn
<1>8. ASSUME NEW C, InTurn(l, k, C) PROVE InTurn(l2, k2, C)
  <2>1. Ordered(m, C) /\ Precedes({h}, ToSet(m), C)
    BY <1>1, <1>8, TailOrdered DEF InTurn
  <2>2. Ordered(l2, C)
    <3>1. <<h>> \in Seq(TD) /\ l2 = l \o <<h>>
      BY <1>1, <1>2
    <3>2. Ordered(<<h>>, C) /\ ToSet(<<h>>) = {h}
      BY DEF Ordered, ToSet
    <3>3. Ordered(l, C) /\ Precedes(ToSet(l), ToSet(k[e]), C)
      BY <1>8 DEF InTurn
    <3>4. Precedes(ToSet(l), {h}, C)
      BY <3>3, <1>2 DEF Precedes
    <3>5. Precedes(ToSet(l), ToSet(<<h>>), C)
      BY <3>2, <3>4
    <3>6. Ordered(l \o <<h>>, C)
      BY <1>1, <3>1, <3>2, <3>3, <3>5, JoinOrdered
    <3> QED BY <3>1, <3>6
  <2>3. \A f \in Endpoint : Ordered(k2[f], C)
    BY <2>1, <1>4, <1>8 DEF InTurn
  <2>4. ASSUME NEW f \in Endpoint PROVE Precedes(ToSet(l2), ToSet(k2[f]), C)
    <3>1. Precedes(ToSet(l), ToSet(k[f]), C)
      BY <1>8 DEF InTurn
    <3>2. Precedes({h}, ToSet(k2[f]), C)
      <4>1. CASE f = e
        BY <4>1, <1>4, <2>1
      <4>2. CASE f # e
        <5>1. Precedes(ToSet(k[e]), ToSet(k[f]), C)
          BY <4>2, <1>8 DEF InTurn
        <5> QED BY <4>2, <5>1, <1>2, <1>4 DEF Precedes
      <4> QED BY <4>1, <4>2
    <3> QED BY <3>1, <3>2, <1>3, <1>6 DEF Precedes
  <2>5. ASSUME NEW f \in Endpoint, NEW g \in Endpoint, f # g
        PROVE  Precedes(ToSet(k2[f]), ToSet(k2[g]), C)
    <3>1. Precedes(ToSet(k[f]), ToSet(k[g]), C)
      BY <2>5, <1>8 DEF InTurn
    <3> QED BY <3>1, <1>6, PrecedesLess
  <2> QED BY <2>2, <2>3, <2>4, <2>5 DEF InTurn
<1> QED BY <1>5, <1>6, <1>7, <1>8

(* The first of the list is answered.                                      *)
LEMMA TurnPop ==
  ASSUME NEW l, NEW k, Lined(l, k), l # <<>>
  PROVE  /\ Lined(Tail(l), k) /\ Head(l) \in LiveIn(l, k)
         /\ Separate(l, k) => LiveIn(Tail(l), k) = LiveIn(l, k) \ {Head(l)}
         /\ \A C : InTurn(l, k, C) => InTurn(Tail(l), k, C)
         /\ \A C : InTurn(l, k, C) => Precedes({Head(l)}, LiveIn(Tail(l), k), C)
<1>1. l \in Seq(TD) /\ Tail(l) \in Seq(TD) /\ ToSet(l) = {Head(l)} \cup ToSet(Tail(l))
      /\ Head(l) \in TD /\ (Distinct(l) => Head(l) \notin ToSet(Tail(l)))
  BY TailSet DEF Lined
<1>2. Lined(Tail(l), k)
  BY <1>1 DEF Lined
<1>3. Head(l) \in LiveIn(l, k)
  BY <1>1 DEF LiveIn
<1>4. Separate(l, k) => LiveIn(Tail(l), k) = LiveIn(l, k) \ {Head(l)}
  <2> SUFFICES ASSUME Separate(l, k) PROVE LiveIn(Tail(l), k) = LiveIn(l, k) \ {Head(l)}
    OBVIOUS
  <2>1. Head(l) \notin ToSet(Tail(l)) /\ \A e \in Endpoint : Head(l) \notin ToSet(k[e])
    BY <1>1 DEF Separate
  <2> QED BY <2>1, <1>1 DEF LiveIn
<1>5. ASSUME NEW C, InTurn(l, k, C) PROVE InTurn(Tail(l), k, C)
  <2>1. Ordered(Tail(l), C)
    BY <1>1, <1>5, TailOrdered DEF InTurn
  <2>2. \A e \in Endpoint : Precedes(ToSet(Tail(l)), ToSet(k[e]), C)
    BY <1>1, <1>5 DEF InTurn, Precedes
  <2> QED BY <2>1, <2>2, <1>5 DEF InTurn
<1>6. ASSUME NEW C, InTurn(l, k, C) PROVE Precedes({Head(l)}, LiveIn(Tail(l), k), C)
  <2>1. Precedes({Head(l)}, ToSet(Tail(l)), C)
    BY <1>1, <1>6, TailOrdered DEF InTurn
  <2>2. \A e \in Endpoint : Precedes({Head(l)}, ToSet(k[e]), C)
    BY <1>1, <1>6 DEF InTurn, Precedes
  <2> QED BY <2>1, <2>2 DEF Precedes, LiveIn
<1> QED BY <1>2, <1>3, <1>4, <1>5, <1>6

(* The head of a chain leaves, or all of it does.                          *)
LEMMA TurnDrop ==
  ASSUME NEW l, NEW k, Lined(l, k), NEW e \in Endpoint, k[e] # <<>>,
         NEW k2, k2 = With(k, e, Tail(k[e]))
  PROVE  /\ Lined(l, k2) /\ Head(k[e]) \in LiveIn(l, k)
         /\ Separate(l, k) => LiveIn(l, k2) = LiveIn(l, k) \ {Head(k[e])}
         /\ \A f \in Endpoint : ToSet(k2[f]) \subseteq ToSet(k[f])
         /\ \A C : InTurn(l, k, C) => InTurn(l, k2, C)
<1> USE DEF With
<1> DEFINE h == Head(k[e]) m == Tail(k[e])
<1>1. k[e] \in Seq(TD)
  BY DEF Lined
<1>2. h \in TD /\ m \in Seq(TD) /\ ToSet(k[e]) = {h} \cup ToSet(m)
      /\ (Distinct(k[e]) => h \notin ToSet(m))
  BY <1>1, TailSet
<1>4. Lined(l, k2) /\ k2[e] = m /\ \A f \in Endpoint : f # e => k2[f] = k[f]
  <2>1. k2 = [k EXCEPT ![e] = m] /\ m \in Seq(TD)
    BY <1>2
  <2>2. Lined(l, k)
    OBVIOUS
  <2> HIDE DEF m
  <2> QED BY ONLY <2>1, <2>2, e \in Endpoint DEF Lined
<1>5. h \in LiveIn(l, k)
  BY <1>2 DEF LiveIn
<1>6. \A f \in Endpoint : ToSet(k2[f]) \subseteq ToSet(k[f])
  BY <1>2, <1>4
<1>7. ASSUME Separate(l, k) PROVE LiveIn(l, k2) = LiveIn(l, k) \ {h}
  <2>1. h \notin ToSet(m) /\ h \notin ToSet(l)
        /\ \A f \in Endpoint : f # e => h \notin ToSet(k[f])
    BY <1>2, <1>7 DEF Separate
  <2>2. \A t : (t \in ToSet(l) \/ \E f \in Endpoint : t \in ToSet(k2[f]))
                 <=> t # h /\ (t \in ToSet(l) \/ \E f \in Endpoint : t \in ToSet(k[f]))
    BY <2>1, <1>2, <1>4
  <2> QED BY <2>2 DEF LiveIn
<1>8. ASSUME NEW C, InTurn(l, k, C) PROVE InTurn(l, k2, C)
  <2>1. Ordered(m, C)
    BY <1>1, <1>8, TailOrdered DEF InTurn
  <2>2. \A f \in Endpoint : Ordered(k2[f], C)
    BY <2>1, <1>4, <1>8 DEF InTurn
  <2>3. \A f \in Endpoint : Precedes(ToSet(l), ToSet(k2[f]), C)
    BY <1>6, <1>8 DEF InTurn, Precedes
  <2>4. ASSUME NEW f \in Endpoint, NEW g \in Endpoint, f # g
        PROVE  Precedes(ToSet(k2[f]), ToSet(k2[g]), C)
    <3>1. Precedes(ToSet(k[f]), ToSet(k[g]), C)
      BY <2>4, <1>8 DEF InTurn
    <3> QED BY <3>1, <1>6, PrecedesLess
  <2> QED BY <2>2, <2>3, <2>4, <1>8 DEF InTurn
<1> QED BY <1>4, <1>5, <1>6, <1>7, <1>8

(* A TD that is in no pair comes to the end of a chain.                    *)
LEMMA TurnAdd ==
  ASSUME NEW l, NEW k, Lined(l, k), NEW e \in Endpoint, NEW t \in TD,
         NEW k2, k2 = With(k, e, Append(k[e], t))
  PROVE  /\ Lined(l, k2) /\ LiveIn(l, k2) = LiveIn(l, k) \cup {t}
         /\ ToSet(k2[e]) = ToSet(k[e]) \cup {t}
         /\ \A f \in Endpoint : f # e => k2[f] = k[f]
         /\ \A C : InTurn(l, k, C) /\ (\A u : <<u, t>> \notin C /\ <<t, u>> \notin C) => InTurn(l, k2, C)
<1> USE DEF With
<1> DEFINE m == Append(k[e], t)
<1>1. k[e] \in Seq(TD)
  BY DEF Lined
<1>2. m \in Seq(TD) /\ ToSet(m) = ToSet(k[e]) \cup {t}
  BY <1>1, AppendSet
<1>4. Lined(l, k2) /\ k2[e] = m /\ \A f \in Endpoint : f # e => k2[f] = k[f]
  <2>1. k2 = [k EXCEPT ![e] = m] /\ m \in Seq(TD)
    BY <1>2
  <2>2. Lined(l, k)
    OBVIOUS
  <2> HIDE DEF m
  <2> QED BY ONLY <2>1, <2>2, e \in Endpoint DEF Lined
<1>6. \A f \in Endpoint : ToSet(k2[f]) \subseteq ToSet(k[f]) \cup {t}
  BY <1>2, <1>4
<1>7. LiveIn(l, k2) = LiveIn(l, k) \cup {t}
  <2>2. \A u : (u \in ToSet(l) \/ \E f \in Endpoint : u \in ToSet(k2[f]))
                 <=> u = t \/ (u \in ToSet(l) \/ \E f \in Endpoint : u \in ToSet(k[f]))
    BY <1>2, <1>4
  <2> QED BY <2>2 DEF LiveIn
<1>8. ASSUME NEW C, InTurn(l, k, C), \A u : <<u, t>> \notin C /\ <<t, u>> \notin C
      PROVE  InTurn(l, k2, C)
  <2>1. Ordered(m, C)
    <3>1. <<t>> \in Seq(TD) /\ m = k[e] \o <<t>>
      BY <1>1, <1>2
    <3>2. Ordered(<<t>>, C) /\ ToSet(<<t>>) = {t}
      BY DEF Ordered, ToSet
    <3>3. Ordered(k[e], C) /\ Precedes(ToSet(k[e]), {t}, C)
      BY <1>8 DEF InTurn, Precedes
    <3>4. Precedes(ToSet(k[e]), ToSet(<<t>>), C)
      BY <3>2, <3>3
    <3>6. Ordered(k[e] \o <<t>>, C)
      BY <1>1, <3>1, <3>2, <3>3, <3>4, JoinOrdered
    <3> QED BY <3>1, <3>6
  <2>2. \A f \in Endpoint : Ordered(k2[f], C)
    BY <2>1, <1>4, <1>8 DEF InTurn
  <2>3. \A f \in Endpoint : Precedes(ToSet(l), ToSet(k2[f]), C)
    BY <1>6, <1>8 DEF InTurn, Precedes
  <2>4. ASSUME NEW f \in Endpoint, NEW g \in Endpoint, f # g
        PROVE  Precedes(ToSet(k2[f]), ToSet(k2[g]), C)
    <3>1. Precedes(ToSet(k[f]), ToSet(k[g]), C)
      BY <2>4, <1>8 DEF InTurn
    <3> QED BY <3>1, <1>6, <1>8 DEF Precedes
  <2> QED BY <2>2, <2>3, <2>4, <1>8 DEF InTurn
<1> QED BY <1>2, <1>4, <1>7, <1>8

(* Other pairs, which say more only of the last of a chain, and nothing of *)
(* it and another chain.                                                   *)
LEMMA TurnPairs ==
  ASSUME NEW l, NEW k, Lined(l, k), Separate(l, k), NEW e \in Endpoint, NEW C, NEW D,
         InTurn(l, k, C),
         \A t, u \in LiveIn(l, k) : <<t, u>> \in D =>
           \/ <<t, u>> \in C
           \/ /\ k[e] # <<>> /\ t = Last(k[e])
              /\ \A f \in Endpoint : f # e => u \notin ToSet(k[f])
  PROVE  InTurn(l, k, D)
<1> DEFINE c == Last(k[e])
<1>1. /\ l \in Seq(TD) /\ \A f \in Endpoint : k[f] \in Seq(TD)
      /\ \A t \in ToSet(l) : t \in LiveIn(l, k)
      /\ \A f \in Endpoint : \A t \in ToSet(k[f]) : t \in LiveIn(l, k)
  BY LiveIs DEF Lined
<1>2. k[e] # <<>> => c \in ToSet(k[e]) /\ c = k[e][Len(k[e])] /\ Len(k[e]) \in 1 .. Len(k[e])
  <2> SUFFICES ASSUME k[e] # <<>> PROVE c \in ToSet(k[e]) /\ c = k[e][Len(k[e])] /\ Len(k[e]) \in 1 .. Len(k[e])
    OBVIOUS
  <2>1. Len(k[e]) \in 1 .. Len(k[e]) /\ c = k[e][Len(k[e])]
    BY <1>1, FirstIs
  <2> QED BY <2>1, <1>1, MemberIs
<1>3. k[e] # <<>> => c \notin ToSet(l) /\ \A f \in Endpoint : f # e => c \notin ToSet(k[f])
  BY <1>2 DEF Separate
<1>4. Ordered(l, D)
  <2>1. Ordered(l, C)
    BY DEF InTurn
  <2>2. \A t, u \in ToSet(l) : <<t, u>> \in D => <<t, u>> \in C
    BY <1>1, <1>3
  <2> QED BY <1>1, <2>1, <2>2, OrderedStays
<1>5. ASSUME NEW f \in Endpoint PROVE Ordered(k[f], D)
  <2>1. Ordered(k[f], C)
    BY DEF InTurn
  <2>2. CASE f # e
    <3>1. \A t, u \in ToSet(k[f]) : <<t, u>> \in D => <<t, u>> \in C
      BY <2>2, <1>1, <1>3
    <3> QED BY <1>1, <2>1, <3>1, OrderedStays
  <2>3. CASE f = e
    <3> SUFFICES ASSUME NEW i \in 1 .. Len(k[e]), NEW j \in 1 .. Len(k[e]), i < j,
                        <<k[e][i], k[e][j]>> \in D
                 PROVE  FALSE
      BY <2>3 DEF Ordered
    <3>1. k[e][i] \in LiveIn(l, k) /\ k[e][j] \in LiveIn(l, k)
      BY <1>1, MemberIs
    <3>2. <<k[e][i], k[e][j]>> \notin C
      BY <2>1, <2>3 DEF Ordered
    <3>3. k[e] # <<>> /\ k[e][i] = c
      BY <3>1, <3>2
    <3>4. i = Len(k[e])
      BY <3>3, <1>2 DEF Separate, Distinct
    <3> QED BY <3>4
  <2> QED BY <2>2, <2>3
<1>6. ASSUME NEW f \in Endpoint PROVE Precedes(ToSet(l), ToSet(k[f]), D)
  <2>1. Precedes(ToSet(l), ToSet(k[f]), C)
    BY DEF InTurn
  <2> QED BY <2>1, <1>1, <1>3 DEF Precedes
<1>7. ASSUME NEW f \in Endpoint, NEW g \in Endpoint, f # g
      PROVE  Precedes(ToSet(k[f]), ToSet(k[g]), D)
  <2>1. Precedes(ToSet(k[f]), ToSet(k[g]), C)
    BY <1>7 DEF InTurn
  <2>2. CASE f # e
    BY <2>1, <2>2, <1>1, <1>3 DEF Precedes
  <2>3. CASE f = e
    BY <2>1, <2>3, <1>7, <1>1 DEF Precedes
  <2> QED BY <2>2, <2>3
<1> QED BY <1>4, <1>5, <1>6, <1>7 DEF InTurn

(* What the handler has in hand and has not answered yet.                  *)
InHand(s) ==
  IF Removing THEN <<>> ELSE IF pc = "return" THEN Tail(s[WorkP]) ELSE s[WorkP]

(* The done TDs in the order in which the handler will come to them.       *)
DoneLine(s) == InHand(s) \o s[QueueP] \o Reverse(s[HccaP]) \o Reverse(s[HcP])

(* The chain of an endpoint, its tail included; that of the endpoint being *)
(* removed is with the workloop.                                           *)
ChainAt(s, e) ==
  IF Removing /\ e = target
    THEN IF pc = "removeReturn" THEN Tail(s[WorkP]) ELSE s[WorkP]
    ELSE s[EpP(e)]

(* The chains of all endpoints.                                            *)
Chains(s) == [e \in Endpoint |-> ChainAt(s, e)]

(* Lists of different places have nothing in common, and none repeats.     *)
LEMMA PlacesApart ==
  ASSUME NEW s, Layout(s)
  PROVE  /\ \A p \in Place : s[p] \in Seq(TD) /\ Distinct(s[p]) /\ ToSet(s[p]) \in SUBSET TD
         /\ \A p, q \in Place : p # q => ToSet(s[p]) \cap ToSet(s[q]) = {}
<1>1. Arranged(s, Place, TD)
  BY DEF Layout
<1>2. \A p \in Place : s[p] \in Seq(TD) /\ Distinct(s[p])
  BY <1>1, ArrangedParts
<1>3. \A p \in Place : ToSet(s[p]) \in SUBSET TD
  BY <1>2, MemberIs
<1>4. ASSUME NEW p \in Place, NEW q \in Place, p # q, NEW t \in ToSet(s[p]), t \in ToSet(s[q])
      PROVE  FALSE
  <2>1. PICK i \in 1 .. Len(s[p]) : s[p][i] = t
    BY <1>2, <1>4, MemberIs
  <2>2. PICK j \in 1 .. Len(s[q]) : s[q][j] = t
    BY <1>2, <1>4, MemberIs
  <2> QED BY <2>1, <2>2, <1>1, <1>4 DEF Arranged
<1> QED BY <1>2, <1>3, <1>4

(* The rest of a list, if it is not empty.                                 *)
LEMMA RestIs ==
  ASSUME NEW l \in Seq(TD), l # <<>>
  PROVE  Tail(l) \in Seq(TD) /\ ToSet(Tail(l)) \subseteq ToSet(l) /\ (Distinct(l) => Distinct(Tail(l)))
BY TailSet

(* What is in hand is part of the work, and the work is one chain while an *)
(* endpoint is removed.                                                    *)
LEMMA HandIs ==
  ASSUME NEW s, Layout(s)
  PROVE  /\ InHand(s) \in Seq(TD) /\ Distinct(InHand(s)) /\ ToSet(InHand(s)) \subseteq ToSet(s[WorkP])
         /\ Removing => ToSet(InHand(s)) = {}
<1>1. s[WorkP] \in Seq(TD) /\ Distinct(s[WorkP])
  BY PlacesApart, PlaceFacts
<1>2. CASE Removing
  <2>1. InHand(s) = <<>> /\ <<>> \in Seq(TD)
    BY <1>2 DEF InHand
  <2>2. ToSet(<<>>) = {} /\ Distinct(<<>>)
    BY DEF ToSet, Distinct
  <2> QED BY <2>1, <2>2
<1>3. CASE ~Removing /\ pc = "return"
  <2>1. s[WorkP] # <<>>
    BY <1>3 DEF Layout, WorkIs, Holding
  <2>2. InHand(s) = Tail(s[WorkP])
    BY <1>3 DEF InHand
  <2> QED BY <1>1, <1>3, <2>1, <2>2, RestIs
<1>4. CASE ~Removing /\ pc # "return"
  <2>1. InHand(s) = s[WorkP]
    BY <1>4 DEF InHand
  <2> QED BY <1>1, <1>4, <2>1
<1> QED BY <1>2, <1>3, <1>4

(* A chain, wherever it is, ends in the tail.                              *)
LEMMA ChainIsAt ==
  ASSUME Shape, NEW s, Layout(s), NEW e \in Endpoint
  PROVE  /\ ChainAt(s, e) \in Seq(TD) /\ Distinct(ChainAt(s, e))
         /\ \E p \in Place : /\ ToSet(ChainAt(s, e)) \subseteq ToSet(s[p])
                             /\ IF Removing /\ e = target THEN p = WorkP ELSE p = EpP(e)
         /\ ChainAt(s, e) # <<>> => Last(ChainAt(s, e)) = tail[e]
         /\ Listed(e) => ChainAt(s, e) # <<>>
         /\ Removing /\ e = target => ChainAt(s, e) # <<>>
<1> USE PlaceFacts
<1>1. \A p \in Place : s[p] \in Seq(TD) /\ Distinct(s[p])
  BY PlacesApart
<1>2. CASE Removing /\ e = target
  <2>1. s[WorkP] # <<>> /\ TailedBy(s[WorkP], curr, nextTD, tail[e]) /\ s[WorkP] \in Seq(TD) /\ Distinct(s[WorkP])
    BY <1>1, <1>2 DEF Layout, WorkIs, TailedBy
  <2>2. CASE pc = "removeReturn"
    <3>1. curr # tail[e]
      BY <1>2, <2>2 DEF Layout, WorkIs
    <3>2. TailedBy(Tail(s[WorkP]), nextTD[curr], nextTD, tail[e])
      BY <2>1, <3>1, TailedPop
    <3>3. Tail(s[WorkP]) # <<>> /\ Last(Tail(s[WorkP])) = tail[e]
      BY <3>2 DEF TailedBy
    <3>4. /\ Tail(s[WorkP]) \in Seq(TD) /\ Distinct(Tail(s[WorkP]))
          /\ ToSet(Tail(s[WorkP])) \subseteq ToSet(s[WorkP])
      BY <2>1, RestIs
    <3>5. ChainAt(s, e) = Tail(s[WorkP]) /\ ~Listed(e)
      BY <1>2, <2>2 DEF ChainAt, Listed
    <3> QED BY <1>2, <3>3, <3>4, <3>5
  <2>3. CASE pc # "removeReturn"
    <3>1. ChainAt(s, e) = s[WorkP] /\ ~Listed(e)
      BY <1>2, <2>3 DEF ChainAt, Listed
    <3>2. Last(s[WorkP]) = tail[e]
      BY <2>1 DEF TailedBy
    <3> QED BY <1>2, <2>1, <3>1, <3>2
  <2> QED BY <2>2, <2>3
<1>3. CASE ~(Removing /\ e = target)
  <2>1. ChainAt(s, e) = s[EpP(e)]
    BY <1>3 DEF ChainAt
  <2>2. CASE Listed(e)
    <3>1. TailedBy(s[EpP(e)], head[e], nextTD, tail[e])
      BY <2>2 DEF Layout, EndpointsAre
    <3> QED BY <2>1, <3>1, <1>1, <1>3 DEF TailedBy
  <2>3. CASE ~Listed(e)
    <3>1. s[EpP(e)] = <<>>
      BY <2>3 DEF Layout, EndpointsAre
    <3> QED BY <2>1, <2>3, <3>1, <1>1, <1>3
  <2> QED BY <2>2, <2>3
<1> QED BY <1>2, <1>3

(* The done TDs, by place.                                                 *)
LEMMA LineIs ==
  ASSUME NEW s, Layout(s)
  PROVE  /\ DoneLine(s) \in Seq(TD) /\ Distinct(DoneLine(s))
         /\ ToSet(DoneLine(s)) = ToSet(InHand(s)) \cup ToSet(s[QueueP])
                                   \cup ToSet(s[HccaP]) \cup ToSet(s[HcP])
<1> USE PlaceFacts
<1>1. PICK a \in Seq(TD) : a = InHand(s) /\ Distinct(a) /\ ToSet(a) \subseteq ToSet(s[WorkP])
  BY HandIs
<1>2. PICK b \in Seq(TD) : b = s[QueueP] /\ Distinct(b)
  BY PlacesApart
<1>3. PICK c \in Seq(TD) : c = Reverse(s[HccaP]) /\ Distinct(c) /\ ToSet(c) = ToSet(s[HccaP])
  <2>1. s[HccaP] \in Seq(TD) /\ Distinct(s[HccaP])
    BY PlacesApart
  <2> QED BY <2>1, ReverseSet
<1>4. PICK d \in Seq(TD) : d = Reverse(s[HcP]) /\ Distinct(d) /\ ToSet(d) = ToSet(s[HcP])
  <2>1. s[HcP] \in Seq(TD) /\ Distinct(s[HcP])
    BY PlacesApart
  <2> QED BY <2>1, ReverseSet
<1>5. /\ ToSet(a) \cap ToSet(b) = {} /\ ToSet(a) \cap ToSet(c) = {}
      /\ ToSet(a) \cap ToSet(d) = {} /\ ToSet(b) \cap ToSet(c) = {}
      /\ ToSet(b) \cap ToSet(d) = {} /\ ToSet(c) \cap ToSet(d) = {}
  <2>1. /\ ToSet(s[WorkP]) \cap ToSet(s[QueueP]) = {} /\ ToSet(s[WorkP]) \cap ToSet(s[HccaP]) = {}
        /\ ToSet(s[WorkP]) \cap ToSet(s[HcP]) = {} /\ ToSet(s[QueueP]) \cap ToSet(s[HccaP]) = {}
        /\ ToSet(s[QueueP]) \cap ToSet(s[HcP]) = {} /\ ToSet(s[HccaP]) \cap ToSet(s[HcP]) = {}
    BY PlacesApart
  <2> QED BY <2>1, <1>1, <1>2, <1>3, <1>4
<1>6. Distinct(a \o b \o c \o d)
  BY <1>1, <1>2, <1>3, <1>4, <1>5, FourDistinct
<1>7. /\ a \o b \o c \o d \in Seq(TD)
      /\ ToSet(a \o b \o c \o d) = ToSet(a) \cup ToSet(b) \cup ToSet(c) \cup ToSet(d)
  BY FourIs
<1> QED BY <1>1, <1>2, <1>3, <1>4, <1>6, <1>7 DEF DoneLine

(* The line and the chains have nothing in common, with the free list      *)
(* neither.                                                                *)
LEMMA ViewFacts ==
  ASSUME Shape, NEW s, Layout(s)
  PROVE  /\ Lined(DoneLine(s), Chains(s)) /\ Separate(DoneLine(s), Chains(s))
         /\ ToSet(s[FreeP]) \cap LiveIn(DoneLine(s), Chains(s)) = {}
<1> USE PlaceFacts
<1>1. \A e \in Endpoint : Chains(s)[e] = ChainAt(s, e)
  BY DEF Chains
<1>2. Lined(DoneLine(s), Chains(s))
  <2>1. \A e \in Endpoint : ChainAt(s, e) \in Seq(TD)
    BY ChainIsAt
  <2> QED BY <2>1, LineIs DEF Lined, Chains
<1>3. \A e \in Endpoint : Distinct(Chains(s)[e])
  BY <1>1, ChainIsAt
<1>4. \A p, q \in Place : p # q => ToSet(s[p]) \cap ToSet(s[q]) = {}
  BY PlacesApart
<1>5. ASSUME NEW e \in Endpoint PROVE ToSet(DoneLine(s)) \cap ToSet(ChainAt(s, e)) = {}
  <2>1. PICK p \in Place : /\ ToSet(ChainAt(s, e)) \subseteq ToSet(s[p])
                           /\ IF Removing /\ e = target THEN p = WorkP ELSE p = EpP(e)
    BY ChainIsAt
  <2>2. /\ ToSet(s[QueueP]) \cap ToSet(s[p]) = {} /\ ToSet(s[HccaP]) \cap ToSet(s[p]) = {}
        /\ ToSet(s[HcP]) \cap ToSet(s[p]) = {}
        /\ p # WorkP => ToSet(s[WorkP]) \cap ToSet(s[p]) = {}
    BY <1>4, <2>1
  <2>3. ToSet(InHand(s)) \cap ToSet(s[p]) = {}
    BY <2>1, <2>2, HandIs
  <2> QED BY <2>1, <2>2, <2>3, LineIs
<1>6. ASSUME NEW e \in Endpoint, NEW f \in Endpoint, e # f
      PROVE  ToSet(ChainAt(s, e)) \cap ToSet(ChainAt(s, f)) = {}
  <2>1. PICK p \in Place : /\ ToSet(ChainAt(s, e)) \subseteq ToSet(s[p])
                           /\ IF Removing /\ e = target THEN p = WorkP ELSE p = EpP(e)
    BY ChainIsAt
  <2>2. PICK q \in Place : /\ ToSet(ChainAt(s, f)) \subseteq ToSet(s[q])
                           /\ IF Removing /\ f = target THEN q = WorkP ELSE q = EpP(f)
    BY ChainIsAt
  <2>3. p # q
    BY <2>1, <2>2, <1>6
  <2> QED BY <2>1, <2>2, <2>3, <1>4
<1>7. Separate(DoneLine(s), Chains(s))
  BY <1>1, <1>3, <1>5, <1>6, LineIs DEF Separate
<1>8. ASSUME NEW t \in ToSet(s[FreeP]), t \in LiveIn(DoneLine(s), Chains(s)) PROVE FALSE
  <2>1. /\ t \notin ToSet(s[QueueP]) /\ t \notin ToSet(s[HccaP]) /\ t \notin ToSet(s[HcP])
        /\ t \notin ToSet(s[WorkP]) /\ \A e \in Endpoint : t \notin ToSet(s[EpP(e)])
    BY <1>4, <1>8
  <2>2. t \notin ToSet(DoneLine(s))
    BY <2>1, LineIs, HandIs
  <2>3. ASSUME NEW e \in Endpoint PROVE t \notin ToSet(ChainAt(s, e))
    BY <2>1, ChainIsAt
  <2> QED BY <1>1, <1>8, <2>2, <2>3 DEF LiveIn
<1> QED BY <1>2, <1>7, <1>8

(* The line and the chains of a layout.                                    *)
View(l, k) == \E s : Layout(s) /\ l = DoneLine(s) /\ k = Chains(s)

(* They are in order, and every endpoint that has TDs has its tail last.   *)
LEMMA ViewIs ==
  ASSUME Shape, NEW l, NEW k, View(l, k)
  PROVE  /\ Lined(l, k) /\ Separate(l, k)
         /\ \A e \in Endpoint : /\ k[e] # <<>> => Last(k[e]) = tail[e]
                                /\ Listed(e) \/ (Removing /\ e = target) => k[e] # <<>>
<1>1. PICK s : Layout(s) /\ l = DoneLine(s) /\ k = Chains(s)
  BY DEF View
<1>2. Lined(l, k) /\ Separate(l, k)
  BY <1>1, ViewFacts
<1>3. ASSUME NEW e \in Endpoint
      PROVE  /\ k[e] # <<>> => Last(k[e]) = tail[e]
             /\ Listed(e) \/ (Removing /\ e = target) => k[e] # <<>>
  <2>1. k[e] = ChainAt(s, e)
    BY <1>1 DEF Chains
  <2> QED BY <2>1, <1>1, ChainIsAt
<1> QED BY <1>2, <1>3

(* Nothing of what they depend on changes.                                 *)
LEMMA SameView ==
  ASSUME Shape, NEW l, NEW k, NEW s, l = DoneLine(s), k = Chains(s), Layout(s)',
         Removing' = Removing, (pc = "return") = (pc' = "return"), Removing => target' = target,
         pc' = "removeReturn" <=> pc = "removeReturn"
  PROVE  View(l, k)'
<1>1. InHand(s)' = InHand(s)
  BY DEF InHand
<1>2. DoneLine(s)' = DoneLine(s)
  BY <1>1 DEF DoneLine
<1>3. \A e \in Endpoint : ChainAt(s, e)' = ChainAt(s, e)
  BY DEF ChainAt
<1>4. Chains(s)' = Chains(s)
  BY <1>3 DEF Chains
<1> QED BY <1>2, <1>4 DEF View

(* The submissions, the controller at work and the waits move nothing.     *)
LEMMA RestView ==
  ASSUME Shape, NEW l, NEW k, View(l, k),
         \/ \E x \in Transfer, e \in Endpoint : \/ SubmitStalled(x, e)
                                                \/ \E n \in 1 .. MaxChunks : SubmitStart(x, e, n)
         \/ SubmitFails
         \/ \E e \in Endpoint : HCStart(e)
         \/ HCStop \/ FailTransfer \/ Quiesced \/ \E e \in Endpoint, o \in Ops : RemovalStart(e, o)
  PROVE  View(l, k)'
<1>1. PICK s : Layout(s) /\ l = DoneLine(s) /\ k = Chains(s)
  BY DEF View
<1>2. Layout(s)'
  BY <1>1, QuietStep, StartStep, StopStep, CompleteStep, WaitStep
<1>3. \/ UNCHANGED <<pc, target>>
      \/ /\ pc \in {"process", "quiesce", "idle"} /\ pc' \in {"quiesce", "fail", "sleep"}
  BY DEF SubmitStalled, SubmitStart, SubmitFails, HCStart, HCStop, FailTransfer, Quiesced, RemovalStart,
         wlVars, GateFree
<1> QED BY <1>1, <1>2, <1>3, SameView DEF Removing

(* The line of a layout is put together from four lists.                   *)
LEMMA LineParts ==
  ASSUME NEW s, Layout(s)
  PROVE  /\ InHand(s) \in Seq(TD) /\ s[QueueP] \in Seq(TD) /\ s[HccaP] \in Seq(TD) /\ s[HcP] \in Seq(TD)
         /\ s[WorkP] \in Seq(TD) /\ \A e \in Endpoint : s[EpP(e)] \in Seq(TD)
         /\ Reverse(s[HccaP]) \in Seq(TD) /\ Reverse(s[HcP]) \in Seq(TD)
<1> USE PlaceFacts
<1>1. /\ s[QueueP] \in Seq(TD) /\ s[HccaP] \in Seq(TD) /\ s[HcP] \in Seq(TD)
      /\ s[WorkP] \in Seq(TD) /\ \A e \in Endpoint : s[EpP(e)] \in Seq(TD)
  BY PlacesApart
<1> QED BY <1>1, HandIs, ReverseSet

(* The controller retires the head of a chain to the end of the line.      *)
LEMMA RetireView ==
  ASSUME Shape, NEW l, NEW k, View(l, k), NEW e \in Endpoint, NEW code \in {"ok", "error"},
         HCRetire(e, code)
  PROVE  k[e] # <<>> /\ View(Retired(l, k, e), With(k, e, Tail(k[e])))'
<1> USE DEF With, Retired
<1> USE PlaceFacts
<1>1. PICK s : Layout(s) /\ l = DoneLine(s) /\ k = Chains(s)
  BY DEF View
<1>2. PICK r : /\ Layout(r)'
               /\ Moved(s, r, Place, EpP(e), HcP, Tail(s[EpP(e)]), <<Head(s[EpP(e)])>> \o s[HcP])
               /\ s[EpP(e)] # <<>>
  BY <1>1, RetireStep
<1>3. UNCHANGED <<pc, target>> /\ ~(Removing /\ e = target)
  BY DEF HCRetire, wlVars, Shape, Left
<1>4. /\ r[EpP(e)] = Tail(s[EpP(e)]) /\ r[HcP] = <<Head(s[EpP(e)])>> \o s[HcP]
      /\ r[QueueP] = s[QueueP] /\ r[HccaP] = s[HccaP] /\ r[WorkP] = s[WorkP]
      /\ \A f \in Endpoint : f # e => r[EpP(f)] = s[EpP(f)]
  BY <1>2 DEF Moved
<1>5. k[e] = s[EpP(e)]
  BY <1>1, <1>3 DEF Chains, ChainAt
<1>6. PICK h \in TD : h = Head(s[EpP(e)])
  BY <1>1, <1>2, LineParts, TailSet
<1>7. InHand(r)' = InHand(s)
  BY <1>3, <1>4 DEF InHand, Removing
<1>8. DoneLine(r)' = Append(l, h)
  <2>1. PICK a \in Seq(TD) : a = InHand(s) \o s[QueueP] \o Reverse(s[HccaP])
    <3>1. InHand(s) \o s[QueueP] \in Seq(TD)
      BY <1>1, LineParts, JoinSet
    <3>2. InHand(s) \o s[QueueP] \o Reverse(s[HccaP]) \in Seq(TD)
      BY <1>1, <3>1, LineParts, JoinSet
    <3> QED BY <3>2
  <2>2. PICK d \in Seq(TD) : d = Reverse(s[HcP])
    BY <1>1, LineParts
  <2>3. Reverse(r[HcP]) = Append(d, h)
    <3>1. s[HcP] \in Seq(TD)
      BY <1>1, LineParts
    <3>2. Reverse(<<h>> \o s[HcP]) = Append(Reverse(s[HcP]), h)
      BY ONLY <1>6, <3>1, ReversePush
    <3> QED BY <1>4, <1>6, <2>2, <3>2
  <2>4. a \o Append(d, h) = Append(a \o d, h)
    BY JoinAppend
  <2>5. l = a \o d
    BY <1>1, <2>1, <2>2 DEF DoneLine
  <2>6. DoneLine(r)' = a \o Reverse(r[HcP])
    BY <1>4, <1>7, <2>1 DEF DoneLine
  <2> QED BY <2>3, <2>4, <2>5, <2>6
<1>9. \A f \in Endpoint : ChainAt(r, f)' = IF f = e THEN Tail(k[e]) ELSE ChainAt(s, f)
  BY <1>3, <1>4, <1>5 DEF ChainAt, Removing
<1>10. Chains(r)' = [k EXCEPT ![e] = Tail(k[e])]
  BY <1>1, <1>9 DEF Chains
<1>11. View(Append(l, h), [k EXCEPT ![e] = Tail(k[e])])'
  BY <1>2, <1>8, <1>10 DEF View
<1> QED BY <1>2, <1>5, <1>6, <1>11

(* The controller writes its list back: the order stays.                   *)
LEMMA WritebackView ==
  ASSUME Shape, NEW l, NEW k, View(l, k), HCWriteback
  PROVE  View(l, k)'
<1> USE PlaceFacts
<1>1. PICK s : Layout(s) /\ l = DoneLine(s) /\ k = Chains(s)
  BY DEF View
<1>2. PICK r : Layout(r)' /\ Moved(s, r, Place, HcP, HccaP, <<>>, s[HcP]) /\ s[HccaP] = <<>>
  BY <1>1, WritebackStep
<1>3. UNCHANGED <<pc, target>>
  BY DEF HCWriteback, wlVars
<1>4. /\ r[HcP] = <<>> /\ r[HccaP] = s[HcP] /\ r[QueueP] = s[QueueP] /\ r[WorkP] = s[WorkP]
      /\ \A f \in Endpoint : r[EpP(f)] = s[EpP(f)]
  BY <1>2 DEF Moved
<1>7. InHand(r)' = InHand(s)
  BY <1>3, <1>4 DEF InHand, Removing
<1>8. DoneLine(r)' = l
  <2>1. PICK a \in Seq(TD) : a = InHand(s) \o s[QueueP]
    BY <1>1, LineParts, JoinSet
  <2>2. PICK d \in Seq(TD) : d = Reverse(s[HcP])
    BY <1>1, LineParts
  <2>3. Reverse(<<>>) = <<>> /\ a \o <<>> = a
    BY JoinEmpty
  <2>5. l = a \o d
    BY <1>1, <1>2, <2>1, <2>2, <2>3 DEF DoneLine
  <2>6. DoneLine(r)' = a \o d \o <<>>
    BY <1>4, <1>7, <2>1, <2>2, <2>3 DEF DoneLine
  <2>7. a \o d \in Seq(TD)
    BY JoinSet
  <2>8. a \o d \o <<>> = a \o d
    BY <2>7, JoinEmpty
  <2> QED BY <2>5, <2>6, <2>8
<1>9. \A f \in Endpoint : ChainAt(r, f)' = ChainAt(s, f)
  BY <1>3, <1>4 DEF ChainAt, Removing
<1>10. Chains(r)' = k
  BY <1>1, <1>9 DEF Chains
<1> QED BY <1>2, <1>8, <1>10 DEF View

(* The filter keeps the order if what it took before has been taken over.  *)
LEMMA FilterView ==
  ASSUME Shape, NEW l, NEW k, View(l, k), FilterInterrupt
  PROVE  \E m : View(m, k)' /\ ToSet(m) = ToSet(l) /\ (writeDoneHead = Null => m = l)
<1> USE PlaceFacts
<1>1. PICK s : Layout(s) /\ l = DoneLine(s) /\ k = Chains(s)
  BY DEF View
<1>2. PICK r : Layout(r)' /\ Moved(s, r, Place, HccaP, QueueP, <<>>, ReversedOn(s[HccaP], s[QueueP]))
  BY <1>1, FilterStep
<1>3. UNCHANGED <<pc, target>>
  BY DEF FilterInterrupt, wlVars
<1>4. /\ r[HccaP] = <<>> /\ r[QueueP] = Reverse(s[HccaP]) \o s[QueueP] /\ r[HcP] = s[HcP]
      /\ r[WorkP] = s[WorkP]
      /\ \A f \in Endpoint : r[EpP(f)] = s[EpP(f)]
  BY <1>2 DEF Moved, ReversedOn
<1>7. InHand(r)' = InHand(s)
  BY <1>3, <1>4 DEF InHand, Removing
<1>8. PICK a \in Seq(TD) : a = InHand(s)
  BY <1>1, LineParts
<1>9. PICK b \in Seq(TD) : b = s[QueueP]
  BY <1>1, LineParts
<1>10. PICK c \in Seq(TD) : c = Reverse(s[HccaP])
  BY <1>1, LineParts
<1>11. PICK d \in Seq(TD) : d = Reverse(s[HcP])
  BY <1>1, LineParts
<1>12. PICK cb \in Seq(TD) : cb = c \o b /\ ToSet(cb) = ToSet(c) \cup ToSet(b)
  <2>1. c \o b \in Seq(TD) /\ ToSet(c \o b) = ToSet(c) \cup ToSet(b)
    BY ONLY <1>9, <1>10, JoinSet
  <2> QED BY <2>1
<1>13. Reverse(<<>>) = <<>> /\ <<>> \in Seq(TD) /\ ToSet(<<>>) = {}
  BY JoinEmpty DEF ToSet
<1>z. PICK z \in Seq(TD) : z = <<>> /\ ToSet(z) = {}
  BY <1>13
<1>14. PICK m : m = a \o cb \o <<>> \o d
  OBVIOUS
<1>15. DoneLine(r)' = m
  BY <1>4, <1>7, <1>8, <1>9, <1>10, <1>11, <1>12, <1>13, <1>14 DEF DoneLine
<1>16. l = a \o b \o c \o d
  BY <1>1, <1>8, <1>9, <1>10, <1>11 DEF DoneLine
<1>17. ToSet(m) = ToSet(l)
  <2>1. ToSet(l) = ToSet(a) \cup ToSet(b) \cup ToSet(c) \cup ToSet(d)
    BY <1>16, FourIs
  <2>2. m = a \o cb \o z \o d
    BY <1>14, <1>z
  <2>3. ToSet(m) = ToSet(a) \cup ToSet(cb) \cup ToSet(z) \cup ToSet(d)
    BY <2>2, FourIs
  <2> QED BY <2>1, <2>3, <1>12, <1>z
<1>18. ASSUME writeDoneHead = Null PROVE m = l
  <2>1. b = <<>>
    BY <1>1, <1>9, <1>18, NullIsNone, LinkEmpty DEF Layout
  <2>2. cb = c /\ a \o b = a
    BY <1>12, <2>1, JoinEmpty
  <2>3. a \o c \in Seq(TD)
    BY JoinSet
  <2>4. a \o c \o <<>> = a \o c
    BY <2>3, JoinEmpty
  <2> QED BY <1>14, <1>16, <2>2, <2>4
<1>19. \A f \in Endpoint : ChainAt(r, f)' = ChainAt(s, f)
  BY <1>3, <1>4 DEF ChainAt, Removing
<1>20. Chains(r)' = k
  BY <1>1, <1>19 DEF Chains
<1> QED BY <1>2, <1>15, <1>17, <1>18, <1>20 DEF View
(* The handler takes the software queue.                                   *)
LEMMA TakeView ==
  ASSUME Shape, NEW l, NEW k, View(l, k), HandleInterrupt
  PROVE  View(l, k)'
<1> USE PlaceFacts
<1>1. PICK s : Layout(s) /\ l = DoneLine(s) /\ k = Chains(s)
  BY DEF View
<1>2. PICK r : Layout(r)' /\ Moved(s, r, Place, QueueP, WorkP, <<>>, s[QueueP]) /\ s[WorkP] = <<>>
  BY <1>1, TakeStep
<1>3. pc = "idle" /\ pc' \in {"idle", "process"}
  BY DEF HandleInterrupt, GateFree, Continue
<1>4. /\ r[QueueP] = <<>> /\ r[WorkP] = s[QueueP] /\ r[HccaP] = s[HccaP] /\ r[HcP] = s[HcP]
      /\ \A f \in Endpoint : r[EpP(f)] = s[EpP(f)]
  BY <1>2 DEF Moved
<1>5. InHand(s) = <<>> /\ InHand(r)' = s[QueueP]
  BY <1>2, <1>3, <1>4 DEF InHand, Removing
<1>6. PICK b \in Seq(TD) : b = s[QueueP]
  BY <1>1, LineParts
<1>7. <<>> \o b = b /\ b \o <<>> = b
  BY JoinEmpty
<1>8. DoneLine(r)' = l
  BY <1>1, <1>4, <1>5, <1>6, <1>7 DEF DoneLine
<1>9. \A f \in Endpoint : ChainAt(r, f)' = ChainAt(s, f)
  BY <1>3, <1>4 DEF ChainAt, Removing
<1>10. Chains(r)' = k
  BY <1>1, <1>9 DEF Chains
<1> QED BY <1>2, <1>8, <1>10 DEF View

(* The handler answers the first of the line.                              *)
LEMMA CompleteView ==
  ASSUME Shape, NEW l, NEW k, View(l, k), CompleteTransfer
  PROVE  l # <<>> /\ curr = Head(l) /\ View(Tail(l), k)'
<1> USE PlaceFacts
<1>1. PICK s : Layout(s) /\ l = DoneLine(s) /\ k = Chains(s)
  BY DEF View
<1>2. Layout(s)'
  BY <1>1, CompleteStep
<1>3. pc = "process" /\ pc' = "return" /\ target' = target
  BY DEF CompleteTransfer
<1>4. InHand(s) = s[WorkP] /\ InHand(s)' = Tail(s[WorkP])
  BY <1>3 DEF InHand, Removing
<1>5. s[WorkP] # <<>> /\ LinkedBy(s[WorkP], curr, nextTransfer, Null) /\ s[WorkP] \in Seq(TD)
  BY <1>1, <1>3, LineParts DEF Layout, WorkIs
<1>6. curr = Head(s[WorkP])
  BY <1>5, NullIsNone, LinkEmpty
<1>7. l = s[WorkP] \o s[QueueP] \o Reverse(s[HccaP]) \o Reverse(s[HcP])
  BY <1>1, <1>4 DEF DoneLine
<1>8. /\ l # <<>> /\ Head(l) = Head(s[WorkP])
      /\ Tail(l) = Tail(s[WorkP]) \o s[QueueP] \o Reverse(s[HccaP]) \o Reverse(s[HcP])
  <2>1. PICK a \in Seq(TD) : a = s[WorkP] /\ a # <<>>
    BY <1>5
  <2>2. PICK b \in Seq(TD) : b = s[QueueP]
    BY <1>1, LineParts
  <2>3. PICK c \in Seq(TD) : c = Reverse(s[HccaP])
    BY <1>1, LineParts
  <2>4. PICK d \in Seq(TD) : d = Reverse(s[HcP])
    BY <1>1, LineParts
  <2>5. l = a \o b \o c \o d
    BY <1>7, <2>1, <2>2, <2>3, <2>4
  <2>6. PICK u \in Seq(TD) : u = a \o b
    BY JoinSet
  <2>7. PICK v \in Seq(TD) : v = u \o c
    BY JoinSet
  <2>8. u # <<>> /\ Head(u) = Head(a) /\ Tail(u) = Tail(a) \o b
    BY ONLY <2>1, <2>2, <2>6, JoinTail
  <2>9. v # <<>> /\ Head(v) = Head(u) /\ Tail(v) = Tail(u) \o c
    BY ONLY <2>3, <2>6, <2>7, <2>8, JoinTail
  <2>10. l # <<>> /\ Head(l) = Head(v) /\ Tail(l) = Tail(v) \o d
    BY ONLY <2>4, <2>5, <2>6, <2>7, <2>9, JoinTail
  <2> QED BY ONLY <2>1, <2>2, <2>3, <2>4, <2>8, <2>9, <2>10
<1>9. DoneLine(s)' = Tail(l)
  BY <1>4, <1>8 DEF DoneLine
<1>10. \A f \in Endpoint : ChainAt(s, f)' = ChainAt(s, f)
  BY <1>3 DEF ChainAt, Removing
<1>11. Chains(s)' = k
  BY <1>1, <1>10 DEF Chains
<1>12. View(Tail(l), k)'
  BY <1>2, <1>9, <1>11 DEF View
<1> QED BY <1>6, <1>8, <1>12

(* Its return to the free list does not matter any more.                   *)
LEMMA ReturnView ==
  ASSUME Shape, NEW l, NEW k, View(l, k), HandlerReturn, ~failed
  PROVE  View(l, k)'
<1> USE PlaceFacts
<1>1. PICK s : Layout(s) /\ l = DoneLine(s) /\ k = Chains(s)
  BY DEF View
<1>2. PICK r : Layout(r)' /\ Moved(s, r, Place, WorkP, FreeP, Tail(s[WorkP]), <<curr>> \o s[FreeP])
  BY <1>1, ReturnStep
<1>3. pc = "return" /\ pc' \in {"idle", "process"}
  BY DEF HandlerReturn, Continue, Shape, Control
<1>4. /\ r[WorkP] = Tail(s[WorkP]) /\ r[QueueP] = s[QueueP] /\ r[HccaP] = s[HccaP] /\ r[HcP] = s[HcP]
      /\ \A f \in Endpoint : r[EpP(f)] = s[EpP(f)]
  BY <1>2 DEF Moved
<1>5. InHand(r)' = InHand(s)
  BY <1>3, <1>4 DEF InHand, Removing
<1>6. DoneLine(r)' = l
  BY <1>1, <1>4, <1>5 DEF DoneLine
<1>7. \A f \in Endpoint : ChainAt(r, f)' = ChainAt(s, f)
  BY <1>3, <1>4 DEF ChainAt, Removing
<1>8. Chains(r)' = k
  BY <1>1, <1>7 DEF Chains
<1> QED BY <1>2, <1>6, <1>8 DEF View

(* A removal takes the chain over, TD by TD, and what is left of it back.  *)
LEMMA DetachView ==
  ASSUME Shape, NEW l, NEW k, View(l, k), SleepDone
  PROVE  View(l, k)'
<1> USE PlaceFacts
<1>1. PICK s : Layout(s) /\ l = DoneLine(s) /\ k = Chains(s)
  BY DEF View
<1>2. PICK r : Layout(r)' /\ Moved(s, r, Place, EpP(target), WorkP, <<>>, s[EpP(target)]) /\ s[WorkP] = <<>>
  BY <1>1, DetachStep
<1>3. pc = "sleep" /\ pc' = "remove" /\ target' = target /\ target \in Endpoint
  BY DEF SleepDone, Shape, Reserved
<1>4. /\ r[WorkP] = s[EpP(target)] /\ r[QueueP] = s[QueueP] /\ r[HccaP] = s[HccaP] /\ r[HcP] = s[HcP]
      /\ \A f \in Endpoint : f # target => r[EpP(f)] = s[EpP(f)]
  BY <1>2, <1>3 DEF Moved
<1>5. InHand(s) = <<>> /\ InHand(r)' = <<>>
  BY <1>2, <1>3, <1>4 DEF InHand, Removing
<1>6. DoneLine(r)' = l
  BY <1>1, <1>4, <1>5 DEF DoneLine
<1>7. \A f \in Endpoint : ChainAt(r, f)' = ChainAt(s, f)
  BY <1>3, <1>4 DEF ChainAt, Removing
<1>8. Chains(r)' = k
  BY <1>1, <1>7 DEF Chains
<1> QED BY <1>2, <1>6, <1>8 DEF View

(* The removal of one TD of the chain.                                     *)
LEMMA RemoveView ==
  ASSUME Shape, NEW l, NEW k, View(l, k), RemoveStep, NEW g, g = target
  PROVE  /\ target \in Endpoint /\ k[target] # <<>> /\ curr = Head(k[target])
         /\ View(l, With(k, g, Tail(k[g])))'
<1> USE DEF With
<1> USE PlaceFacts
<1>1. PICK s : Layout(s) /\ l = DoneLine(s) /\ k = Chains(s)
  BY DEF View
<1>2. Layout(s)'
  BY <1>1, CallStep
<1>3. pc = "remove" /\ pc' = "removeReturn" /\ target' = target /\ target \in Endpoint
  BY DEF RemoveStep, Shape, Reserved
<1>4. s[WorkP] \in Seq(TD) /\ s[WorkP] # <<>> /\ LinkedBy(s[WorkP], curr, nextTD, Null)
  BY <1>1, <1>3, LineParts DEF Layout, WorkIs, TailedBy, Removing
<1>5. curr = Head(s[WorkP])
  BY <1>4, NullIsNone, LinkEmpty
<1>6. k[target] = s[WorkP]
  BY <1>1, <1>3 DEF Chains, ChainAt, Removing
<1>7. InHand(s)' = InHand(s)
  BY <1>3 DEF InHand, Removing
<1>8. DoneLine(s)' = l
  BY <1>1, <1>7 DEF DoneLine
<1>9. \A f \in Endpoint : ChainAt(s, f)' = IF f = target THEN Tail(k[target]) ELSE ChainAt(s, f)
  BY <1>3, <1>6 DEF ChainAt, Removing
<1>10. Chains(s)' = [k EXCEPT ![g] = Tail(k[g])]
  BY <1>1, <1>9 DEF Chains
<1> QED BY <1>2, <1>3, <1>4, <1>5, <1>6, <1>8, <1>10 DEF View

(* A removed TD goes to the free list; it was the first of its chain.      *)
LEMMA RemoveReturnView ==
  ASSUME Shape, NEW l, NEW k, View(l, k), RemoveReturn
  PROVE  View(l, k)'
<1> USE PlaceFacts
<1>1. PICK s : Layout(s) /\ l = DoneLine(s) /\ k = Chains(s)
  BY DEF View
<1>2. PICK r : Layout(r)' /\ Moved(s, r, Place, WorkP, FreeP, Tail(s[WorkP]), <<curr>> \o s[FreeP])
  BY <1>1, RemoveReturnStep
<1>3. pc = "removeReturn" /\ pc' = "remove" /\ target' = target
  BY DEF RemoveReturn
<1>4. /\ r[WorkP] = Tail(s[WorkP]) /\ r[QueueP] = s[QueueP] /\ r[HccaP] = s[HccaP] /\ r[HcP] = s[HcP]
      /\ \A f \in Endpoint : r[EpP(f)] = s[EpP(f)]
  BY <1>2 DEF Moved
<1>5. InHand(r)' = InHand(s)
  BY <1>3 DEF InHand, Removing
<1>6. DoneLine(r)' = l
  BY <1>1, <1>4, <1>5 DEF DoneLine
<1>7. \A f \in Endpoint : ChainAt(r, f)' = ChainAt(s, f)
  BY <1>3, <1>4 DEF ChainAt, Removing
<1>8. Chains(r)' = k
  BY <1>1, <1>7 DEF Chains
<1> QED BY <1>2, <1>6, <1>8 DEF View

(* The end of an abort or a clear: the chain is its tail again.            *)
LEMMA RestoreView ==
  ASSUME Shape, NEW l, NEW k, View(l, k), RemoveDone, op # "delete"
  PROVE  View(l, k)'
<1> USE PlaceFacts
<1>1. PICK s : Layout(s) /\ l = DoneLine(s) /\ k = Chains(s)
  BY DEF View
<1>2. PICK r : /\ Layout(r)' /\ Moved(s, r, Place, WorkP, EpP(target), <<>>, <<tail[target]>>)
               /\ s[WorkP] = <<tail[target]>>
  BY <1>1, RestoreStep
<1>3. pc = "remove" /\ pc' = "idle" /\ target \in Endpoint
  BY DEF RemoveDone, Shape, Reserved
<1>4. /\ r[WorkP] = <<>> /\ r[EpP(target)] = s[WorkP]
      /\ r[QueueP] = s[QueueP] /\ r[HccaP] = s[HccaP] /\ r[HcP] = s[HcP]
      /\ \A f \in Endpoint : f # target => r[EpP(f)] = s[EpP(f)]
  BY <1>2, <1>3 DEF Moved
<1>5. InHand(s) = <<>> /\ InHand(r)' = <<>>
  BY <1>3, <1>4 DEF InHand, Removing
<1>6. DoneLine(r)' = l
  BY <1>1, <1>4, <1>5 DEF DoneLine
<1>7. \A f \in Endpoint : ChainAt(r, f)' = ChainAt(s, f)
  BY <1>3, <1>4 DEF ChainAt, Removing
<1>8. Chains(r)' = k
  BY <1>1, <1>7 DEF Chains
<1> QED BY <1>2, <1>6, <1>8 DEF View

(* The end of a delete: the tail goes to the free list with the rest.      *)
LEMMA DeleteView ==
  ASSUME Shape, NEW l, NEW k, View(l, k), RemoveDone, op = "delete", NEW g, g = target
  PROVE  /\ target \in Endpoint /\ k[target] # <<>> /\ tail[target] = Head(k[target])
         /\ View(l, With(k, g, Tail(k[g])))'
<1> USE DEF With
<1> USE PlaceFacts
<1>1. PICK s : Layout(s) /\ l = DoneLine(s) /\ k = Chains(s)
  BY DEF View
<1>2. PICK r : /\ Layout(r)' /\ Moved(s, r, Place, WorkP, FreeP, <<>>, <<tail[target]>> \o s[FreeP])
               /\ s[WorkP] = <<tail[target]>> /\ s[EpP(target)] = <<>>
  BY <1>1, DeleteStep
<1>3. pc = "remove" /\ pc' = "idle" /\ target \in Endpoint
  BY DEF RemoveDone, Shape, Reserved
<1>4. /\ r[WorkP] = <<>> /\ r[EpP(target)] = <<>>
      /\ r[QueueP] = s[QueueP] /\ r[HccaP] = s[HccaP] /\ r[HcP] = s[HcP]
      /\ \A f \in Endpoint : f # target => r[EpP(f)] = s[EpP(f)]
  BY <1>2, <1>3 DEF Moved
<1>5. InHand(s) = <<>> /\ InHand(r)' = <<>>
  BY <1>3, <1>4 DEF InHand, Removing
<1>6. DoneLine(r)' = l
  BY <1>1, <1>4, <1>5 DEF DoneLine
<1>7. k[target] = <<tail[target]>>
  BY <1>1, <1>2, <1>3 DEF Chains, ChainAt, Removing
<1>8. k[target] # <<>> /\ Head(k[target]) = tail[target] /\ Tail(k[target]) = <<>>
  BY <1>7
<1>9. \A f \in Endpoint : ChainAt(r, f)' = IF f = target THEN Tail(k[target]) ELSE ChainAt(s, f)
  BY <1>3, <1>4, <1>8 DEF ChainAt, Removing
<1>10. Chains(r)' = [k EXCEPT ![g] = Tail(k[g])]
  BY <1>1, <1>9 DEF Chains
<1> QED BY <1>2, <1>3, <1>6, <1>8, <1>10 DEF View

(* A new endpoint has one TD, from the free list.                          *)
LEMMA CreateView ==
  ASSUME Shape, NEW l, NEW k, View(l, k), NEW e \in Endpoint, CreateEndpoint(e),
         NEW t, t = freeHead
  PROVE  /\ t \in TD /\ t \notin LiveIn(l, k) /\ k[e] = <<>>
         /\ View(l, With(k, e, Append(k[e], t)))'
<1> USE DEF With
<1> USE PlaceFacts
<1>1. PICK s : Layout(s) /\ l = DoneLine(s) /\ k = Chains(s)
  BY DEF View
<1>2. PICK r : Layout(r)' /\ Moved(s, r, Place, FreeP, EpP(e), Tail(s[FreeP]), <<freeHead>>) /\ s[EpP(e)] = <<>>
  BY <1>1, CreateStep
<1>3. pc = "idle" /\ UNCHANGED <<pc, target>>
  BY DEF CreateEndpoint, GateFree, wlVars
<1>4. /\ r[WorkP] = s[WorkP] /\ r[EpP(e)] = <<freeHead>>
      /\ r[QueueP] = s[QueueP] /\ r[HccaP] = s[HccaP] /\ r[HcP] = s[HcP]
      /\ \A f \in Endpoint : f # e => r[EpP(f)] = s[EpP(f)]
  BY <1>2 DEF Moved
<1>5. InHand(r)' = InHand(s)
  BY <1>3, <1>4 DEF InHand, Removing
<1>6. DoneLine(r)' = l
  BY <1>1, <1>4, <1>5 DEF DoneLine
<1>7. k[e] = <<>>
  BY <1>1, <1>2, <1>3 DEF Chains, ChainAt, Removing
<1>8. freeHead # Null
  BY DEF CreateEndpoint, PopFree
<1>9. s[FreeP] \in Seq(TD) /\ s[FreeP] # <<>> /\ freeHead = Head(s[FreeP]) /\ freeHead \in TD
  <2>1. s[FreeP] \in Seq(TD) /\ LinkedBy(s[FreeP], freeHead, nextTransfer, Null)
    BY <1>1, PlacesApart DEF Layout
  <2> QED BY <2>1, <1>8, NullIsNone, LinkEmpty
<1>10. freeHead \in ToSet(s[FreeP])
  BY <1>9, TailSet
<1>11. freeHead \notin LiveIn(l, k)
  BY <1>1, <1>10, ViewFacts
<1>12. Append(k[e], t) = <<t>>
  BY <1>7, <1>9
<1>13. \A f \in Endpoint : ChainAt(r, f)' = IF f = e THEN <<freeHead>> ELSE ChainAt(s, f)
  BY <1>3, <1>4 DEF ChainAt, Removing
<1>14. Chains(r)' = [k EXCEPT ![e] = <<t>>]
  BY <1>1, <1>13 DEF Chains
<1> QED BY <1>2, <1>6, <1>7, <1>9, <1>11, <1>12, <1>14 DEF View

(* A chunk appends one to the chain of its endpoint.                       *)
LEMMA ChunkView ==
  ASSUME "abort" \notin ResubmitAfter, Shape, NEW l, NEW k, View(l, k), SubmitChunk,
         NEW t, t = freeHead, NEW e, e = sub.ep
  PROVE  /\ t \in TD /\ t \notin LiveIn(l, k)
         /\ e \in Endpoint /\ k[e] # <<>>
         /\ View(l, With(k, e, Append(k[e], t)))'
<1> USE DEF With
<1> USE PlaceFacts
<1>1. PICK s : Layout(s) /\ l = DoneLine(s) /\ k = Chains(s)
  BY DEF View
<1>e. e \in Endpoint /\ e \in linked
  BY DEF SubmitChunk, Shape, Control, TypeOK
<1>r. PICK r : Layout(r)' /\ \E q \in Place :
             /\ IF Listed(sub.ep) THEN q = EpP(sub.ep)
                ELSE Removing /\ sub.ep = target /\ q = WorkP
             /\ Moved(s, r, Place, FreeP, q, Tail(s[FreeP]), Append(s[q], freeHead))
  BY <1>1, ChunkStep
<1>2. PICK q \in Place :
        /\ Layout(r)'
        /\ IF Listed(e) THEN q = EpP(e) ELSE Removing /\ e = target /\ q = WorkP
        /\ Moved(s, r, Place, FreeP, q, Tail(s[FreeP]), Append(s[q], freeHead))
  BY <1>r
<1>3. UNCHANGED <<pc, target>> /\ sub # NoSub
  BY DEF SubmitChunk, wlVars
<1>4. /\ r[q] = Append(s[q], freeHead)
      /\ r[QueueP] = s[QueueP] /\ r[HccaP] = s[HccaP] /\ r[HcP] = s[HcP]
      /\ q # WorkP => r[WorkP] = s[WorkP]
      /\ \A f \in Endpoint : EpP(f) # q => r[EpP(f)] = s[EpP(f)]
  BY <1>2, <1>e DEF Moved
<1>5. InHand(r)' = InHand(s)
  BY <1>2, <1>e, <1>3, <1>4 DEF InHand, Removing
<1>6. DoneLine(r)' = l
  BY <1>1, <1>4, <1>5 DEF DoneLine
<1>8. freeHead # Null
  BY DEF SubmitChunk, PopFree
<1>9. s[FreeP] \in Seq(TD) /\ s[FreeP] # <<>> /\ freeHead = Head(s[FreeP]) /\ freeHead \in TD
  <2>1. s[FreeP] \in Seq(TD) /\ LinkedBy(s[FreeP], freeHead, nextTransfer, Null)
    BY <1>1, PlacesApart DEF Layout
  <2> QED BY <2>1, <1>8, NullIsNone, LinkEmpty
<1>10. freeHead \in ToSet(s[FreeP])
  BY <1>9, TailSet
<1>11. freeHead \notin LiveIn(l, k)
  BY <1>1, <1>10, ViewFacts
<1>12. k[e] # <<>>
  BY <1>2, <1>e, ViewIs
<1>13. ChainAt(r, e)' = Append(k[e], freeHead)
  <2>1. CASE Listed(e)
    <3>1. ~(Removing /\ e = target)
      BY <2>1 DEF Listed
    <3> QED BY <2>1, <3>1, <1>e, <1>1, <1>2, <1>3, <1>4 DEF ChainAt, Chains, Removing
  <2>2. CASE ~Listed(e)
    <3>1. Removing /\ e = target /\ q = WorkP /\ pc = "removeReturn"
      BY <2>2, <1>2, <1>3 DEF Removing, Shape, Control
    <3>2. s[WorkP] \in Seq(TD) /\ s[WorkP] # <<>>
      BY <1>1, <3>1, LineParts DEF Layout, WorkIs, TailedBy
    <3>3. k[e] = Tail(s[WorkP]) /\ ChainAt(r, e)' = Tail(Append(s[WorkP], freeHead))
      BY <3>1, <1>e, <1>1, <1>3, <1>4 DEF ChainAt, Chains, Removing
    <3>4. Tail(Append(s[WorkP], freeHead)) = Append(Tail(s[WorkP]), freeHead)
      BY <3>2, <1>9
    <3> QED BY <3>3, <3>4
  <2> QED BY <2>1, <2>2
<1>14. ASSUME NEW f \in Endpoint, f # e PROVE ChainAt(r, f)' = ChainAt(s, f)
  <2>1. EpP(f) # q /\ ~(q = WorkP /\ f = target)
    BY <1>2, <1>e, <1>14
  <2>2. Removing /\ f = target => q # WorkP
    BY <2>1
  <2> QED BY <2>1, <2>2, <1>3, <1>4 DEF ChainAt, Removing
<1>15. Chains(r)' = [k EXCEPT ![e] = Append(k[e], t)]
  BY <1>1, <1>13, <1>14 DEF Chains
<1> QED BY <1>2, <1>e, <1>6, <1>9, <1>11, <1>12, <1>15 DEF View

-----------------------------------------------------------------------------
(* What the driver owes its clients, as an account over the line and the   *)
(* chains.                                                                 *)

(* A last chunk stands before data of its own transfer, or before a        *)
(* transfer its pipe accepted earlier.                                     *)
OutOfTurn ==
  {p \in TD \X TD : /\ last[p[1]]
                    /\ \/ \E x \in Transfer : x = genCompletion[p[1]] /\ p[2] \in parts[x]
                       \/ last[p[2]] /\ IssuedAfter(genCompletion[p[1]], genCompletion[p[2]])}

(* Data that was not copied to the client belongs to a TD that is still    *)
(* there.                                                                  *)
Uncopied(V) == \A x \in Transfer : parts[x] \subseteq V

(* The transfer of a last chunk was accepted and has no answer.            *)
Due(V) ==
  \A t \in V : last[t] => /\ genCompletion[t] \in Transfer /\ results[genCompletion[t]] = <<>>
                          /\ \E e \in Endpoint : On(e, genCompletion[t])

(* A transfer has one last chunk.                                          *)
Single(V) == \A t, u \in V : last[t] /\ last[u] /\ genCompletion[t] = genCompletion[u] => t = u

(* An accepted transfer without an answer has a last chunk.                *)
Expected(V) ==
  \A e \in Endpoint, x \in Transfer :
    On(e, x) /\ results[x] = <<>> => \E t \in V : last[t] /\ genCompletion[t] = x

(* A last chunk is on the chain of the pipe that accepted its transfer.    *)
OwnPipe(k) == \A e \in Endpoint : \A t \in ToSet(k[e]) : last[t] => On(e, genCompletion[t])

(* The tail is a chunk of nothing.                                         *)
Open(k) ==
  \A e \in Endpoint : k[e] # <<>> => ~last[tail[e]] /\ \A x \in Transfer : tail[e] \notin parts[x]

(* The transfer being submitted has no chunk anywhere but on its endpoint. *)
Unfinished(k) ==
  sub # NoSub => /\ status[sub.x] = "new"
                 /\ \A f \in Endpoint : f # sub.ep => parts[sub.x] \cap ToSet(k[f]) = {}

(* A transfer that was not submitted has no chunks.                        *)
Fresh == \A x \in Transfer : status[x] = "new" /\ (sub = NoSub \/ x # sub.x) => parts[x] = {}

(* With a handler that keeps up the line and the chains are in turn, and   *)
(* successes come after all the data and after what was accepted earlier.  *)
Orderly(l, k) ==
  PromptHandler => InTurn(l, k, OutOfTurn) /\ CopiedBeforeSuccess /\ Pipe!SuccessInOrder

(* What the line and the chains owe to the clients: every accepted transfer*)
(* without an answer has its one last chunk there, and all data not copied *)
(* yet is there.                                                           *)
Account(l, k) ==
  /\ IssuedOnce /\ Pipe!AnsweredOnce
  /\ Uncopied(LiveIn(l, k)) /\ Due(LiveIn(l, k)) /\ Single(LiveIn(l, k)) /\ Expected(LiveIn(l, k))
  /\ OwnPipe(k) /\ Open(k) /\ Unfinished(k) /\ Fresh
  /\ Orderly(l, k)

(* What the account looks at, besides the line and the chains.             *)
Books == <<last, genCompletion, tail, sub, status, results, issued, parts>>

(* Fewer pairs are in turn too.                                            *)
LEMMA InTurnLess ==
  ASSUME NEW l, NEW k, NEW C, InTurn(l, k, C), NEW D, D \subseteq C
  PROVE  InTurn(l, k, D)
BY DEF InTurn, Ordered, Precedes

(* A move of TDs that the books do not notice.                             *)
LEMMA AccountMoved ==
  ASSUME NEW l, NEW k, Account(l, k), UNCHANGED Books, NEW l2, NEW k2,
         LiveIn(l2, k2) = LiveIn(l, k),
         \A f \in Endpoint : ToSet(k2[f]) \subseteq ToSet(k[f]) /\ (k2[f] # <<>> => k[f] # <<>>),
         PromptHandler => \A C : InTurn(l, k, C) => InTurn(l2, k2, C)
  PROVE  Account(l2, k2)' /\ UNCHANGED Pipe!vars
<1>1. PICK V : V = LiveIn(l, k) /\ V = LiveIn(l2, k2)
  OBVIOUS
<1>2. UNCHANGED Pipe!vars
  BY DEF Books, Pipe!vars
<1>3. IssuedOnce' /\ Pipe!AnsweredOnce'
  BY DEF Books, Account, IssuedOnce, Pipe!AnsweredOnce
<1>4. Uncopied(V)' /\ Due(V)' /\ Single(V)' /\ Expected(V)'
  BY <1>1 DEF Books, Account, Uncopied, Due, Single, Expected, On
<1>5. LiveIn(l2, k2)' = V
  BY <1>1 DEF LiveIn
<1>6. OwnPipe(k2)' /\ Open(k2)' /\ Unfinished(k2)' /\ Fresh'
  <2>1. OwnPipe(k2)'
    BY DEF Books, Account, OwnPipe, On
  <2>2. Open(k2)'
    BY DEF Books, Account, Open
  <2>3. Unfinished(k2)'
    BY DEF Books, Account, Unfinished
  <2>4. Fresh'
    BY DEF Books, Account, Fresh
  <2> QED BY <2>1, <2>2, <2>3, <2>4
<1>7. OutOfTurn' = OutOfTurn /\ CopiedBeforeSuccess' = CopiedBeforeSuccess
      /\ Pipe!SuccessInOrder' = Pipe!SuccessInOrder
  BY DEF Books, OutOfTurn, IssuedAfter, CopiedBeforeSuccess, Pipe!SuccessInOrder
<1>8. Orderly(l2, k2)'
  <2> SUFFICES ASSUME PromptHandler PROVE InTurn(l2, k2, OutOfTurn')
    BY <1>7 DEF Account, Orderly, InTurn
  <2> QED BY <1>7 DEF Account, Orderly
<1> QED BY <1>1, <1>2, <1>3, <1>4, <1>5, <1>6, <1>8 DEF Account

(* The history as the pipe sees it is typed.                               *)
LEMMA PipeTyped ==
  ASSUME TypeOK
  PROVE  Pipe!TypeOK
BY DEF TypeOK, Pipe!TypeOK

(* A TD leaves the line or a chain: its data is copied, and the completion *)
(* is called if it is the last of its transfer.                            *)
LEMMA AccountAnswered ==
  ASSUME TypeOK, sub # NoSub => sub.x \in Transfer, NEW l, NEW k, Account(l, k), NEW t \in TD, t \in LiveIn(l, k),
         NEW r \in {"ok", "error", "aborted"},
         UNCHANGED <<last, genCompletion, tail, sub, status, issued>>,
         parts' = CopiedBack(t),
         results' = IF last[t] THEN Called(t, r) ELSE results,
         NEW l2, NEW k2, LiveIn(l2, k2) = LiveIn(l, k) \ {t},
         \A f \in Endpoint : ToSet(k2[f]) \subseteq ToSet(k[f]) /\ (k2[f] # <<>> => k[f] # <<>>),
         \A C : InTurn(l, k, C) => InTurn(l2, k2, C),
         r = "ok" => \A C : InTurn(l, k, C) => Precedes({t}, LiveIn(l2, k2), C)
  PROVE  /\ Account(l2, k2)'
         /\ \/ UNCHANGED Pipe!vars
            \/ \E e \in Endpoint : \E x \in Transfer : On(e, x) /\ Answered(x, r)
         /\ (r = "ok" => PromptHandler) => [Pipe!Next]_(Pipe!vars)
<1>1. PICK V : V = LiveIn(l, k)
  OBVIOUS
<1>2. PICK W : W = LiveIn(l2, k2) /\ W = V \ {t}
  BY <1>1
<1>3. LiveIn(l2, k2)' = W
  BY <1>2 DEF LiveIn
<1>a. IssuedOnce /\ Pipe!AnsweredOnce /\ PipeBase
  BY PipeTyped DEF Account, PipeBase
<1>b. Uncopied(V) /\ Due(V) /\ Single(V) /\ Expected(V)
  BY <1>1 DEF Account
<1>c. OwnPipe(k) /\ Open(k) /\ Unfinished(k) /\ Fresh /\ Orderly(l, k)
  BY DEF Account
<1>d. /\ parts \in [Transfer -> SUBSET TD] /\ results \in [Transfer -> Seq({"ok", "error", "aborted"})]
      /\ status \in [Transfer -> {"new", "accepted", "refused"}] /\ issued \in [Endpoint -> Seq(Transfer)]
  BY DEF TypeOK
<1>p. \A x \in Transfer : parts'[x] = parts[x] \ {t}
  BY DEF CopiedBack
<1>4. Uncopied(W)'
  BY <1>2, <1>b, <1>p DEF Uncopied
<1>5. Open(k2)' /\ Fresh'
  BY <1>c, <1>p DEF Open, Fresh
<1>6. Unfinished(k2)'
  <2> SUFFICES ASSUME sub # NoSub, NEW f \in Endpoint, f # sub.ep, NEW u \in parts'[sub.x], u \in ToSet(k2[f])
               PROVE  FALSE
    BY <1>c DEF Unfinished
  <2>1. parts[sub.x] \cap ToSet(k[f]) = {} /\ u \in ToSet(k[f])
    BY <1>c DEF Unfinished
  <2>2. parts'[sub.x] \subseteq parts[sub.x]
    BY <1>p
  <2> QED BY <2>1, <2>2
<1>7. OwnPipe(k2)'
  BY <1>c DEF OwnPipe, On
<1>8. Single(W)'
  BY <1>2, <1>b DEF Single
<1>9. OutOfTurn' \subseteq OutOfTurn
  BY <1>p DEF OutOfTurn, IssuedAfter
<1>10. PromptHandler => InTurn(l2, k2, OutOfTurn')
  <2>1. PromptHandler => InTurn(l, k, OutOfTurn)
    BY <1>c DEF Orderly
  <2>2. PromptHandler => InTurn(l2, k2, OutOfTurn)
    BY <2>1
  <2> QED BY <2>2, <1>9, InTurnLess
<1>11. CASE ~last[t]
  <2>1. results' = results
    BY <1>11
  <2>2. UNCHANGED Pipe!vars
    BY <2>1 DEF Pipe!vars
  <2>3. IssuedOnce' /\ Pipe!AnsweredOnce' /\ (Pipe!SuccessInOrder => Pipe!SuccessInOrder')
    BY <2>1, <1>a DEF IssuedOnce, Pipe!AnsweredOnce, Pipe!SuccessInOrder
  <2>4. Due(W)'
    BY <2>1, <1>2, <1>b DEF Due, On
  <2>5. Expected(W)'
    BY <2>1, <1>2, <1>b, <1>11 DEF Expected, On
  <2>6. CopiedBeforeSuccess => CopiedBeforeSuccess'
    BY <2>1, <1>p DEF CopiedBeforeSuccess
  <2>7. Orderly(l2, k2)'
    BY <1>10, <1>c, <2>3, <2>6 DEF Orderly, InTurn
  <2>8. Account(l2, k2)'
    BY <1>3, <1>4, <1>5, <1>6, <1>7, <1>8, <2>3, <2>4, <2>5, <2>7 DEF Account
  <2> QED BY <2>2, <2>8
<1>12. CASE last[t]
  <2>1. PICK x \in Transfer : x = genCompletion[t] /\ results[x] = <<>>
    BY <1>1, <1>12, <1>b DEF Due
  <2>2. PICK e \in Endpoint : On(e, x)
    BY <1>1, <2>1, <1>12, <1>b DEF Due
  <2>3. results' = [results EXCEPT ![x] = <<r>>]
    <3>1. results' = Called(t, r)
      BY <1>12
    <3>a. Len(results[x]) < 2 /\ Append(results[x], r) = <<r>>
      BY <2>1
    <3>2. \A y \in Transfer : results'[y] = IF y = x THEN <<r>> ELSE results[y]
      BY <3>1, <3>a, <2>1 DEF Called
    <3> QED BY <3>1, <3>2, <1>d DEF Called
  <2>4. Answered(x, r)
    BY <2>1, <2>3 DEF Answered
  <2>5. ASSUME r = "ok", PromptHandler
        PROVE  /\ parts'[x] = {}
               /\ Before(x)
    <3>1. Precedes({t}, W, OutOfTurn)
      BY <2>5, <1>2, <1>c DEF Orderly
    <3>2. \A u \in W : <<t, u>> \notin OutOfTurn /\ u \in TD
      <4>1. V \subseteq TD
        <5>1. \A u \in V : u \in TD
          BY <1>1 DEF LiveIn
        <5> QED BY <5>1
      <4> QED BY <3>1, <4>1, <1>2 DEF Precedes
    <3>3. ASSUME NEW u \in parts'[x] PROVE FALSE
      <4>1. u \in W /\ u \in parts[x]
        BY <3>3, <1>2, <1>b, <1>p DEF Uncopied
      <4>2. <<t, u>> \in OutOfTurn
        <5>1. <<t, u>> \in TD \X TD
          BY <4>1, <3>2
        <5> QED BY <5>1, <4>1, <2>1, <1>12 DEF OutOfTurn
      <4> QED BY <4>1, <4>2, <3>2
    <3>4. ASSUME NEW y \in Transfer, IssuedAfter(x, y), results[y] = <<>> PROVE FALSE
      <4>1. PICK f \in Endpoint : On(f, y)
        BY <3>4 DEF IssuedAfter, On
      <4>2. PICK u \in V : last[u] /\ genCompletion[u] = y
        BY <4>1, <3>4, <1>b DEF Expected
      <4>3. y # x
        BY <3>4, <1>a, <1>d DEF IssuedAfter, IssuedOnce
      <4>4. u \in W
        BY <4>2, <4>3, <2>1, <1>2
      <4>5. <<t, u>> \in OutOfTurn
        <5>1. <<t, u>> \in TD \X TD
          BY <4>4, <3>2
        <5> QED BY <5>1, <4>2, <3>4, <2>1, <1>12 DEF OutOfTurn
      <4> QED BY <4>4, <4>5, <3>2
    <3> QED BY <3>3, <3>4 DEF Before
  <2>6. PipeBase' /\ (Orderly(l, k) /\ PromptHandler => Pipe!SuccessInOrder')
    <3>1. /\ PipeBase'
          /\ Pipe!SuccessInOrder /\ (r = "ok" => Before(x)) => Pipe!SuccessInOrder'
      BY <1>a, <2>2, <2>4, AnswerBase
    <3> QED BY <3>1, <2>5 DEF Orderly
  <2>7. (r = "ok" => PromptHandler) => \E i \in DOMAIN issued[e] : Pipe!Finish(e, i)
    <3>1. (r = "ok" => Before(x)) => \E i \in DOMAIN issued[e] : Pipe!Finish(e, i)
      BY <1>a, <2>2, <2>4, AnswerBase
    <3> QED BY <3>1, <2>5
  <2>8. Due(W)'
    <3> SUFFICES ASSUME NEW u \in W, last[u]
                 PROVE  /\ genCompletion[u] \in Transfer /\ results'[genCompletion[u]] = <<>>
                        /\ \E f \in Endpoint : On(f, genCompletion[u])
      BY DEF Due, On
    <3>1. /\ genCompletion[u] \in Transfer /\ results[genCompletion[u]] = <<>>
          /\ \E f \in Endpoint : On(f, genCompletion[u])
      BY <1>2, <1>b DEF Due
    <3>2. genCompletion[u] # x
      BY <1>1, <1>2, <1>12, <2>1, <1>b DEF Single
    <3> QED BY <3>1, <3>2, <2>3, <1>d
  <2>9. Expected(W)'
    <3> SUFFICES ASSUME NEW f \in Endpoint, NEW y \in Transfer, On(f, y), results'[y] = <<>>
                 PROVE  \E u \in W : last[u] /\ genCompletion[u] = y
      BY DEF Expected, On
    <3>a. results'[x] = <<r>> /\ <<r>> # <<>>
      BY <2>3, <1>d
    <3>b. y # x
      BY <3>a
    <3>1. y # x /\ results[y] = <<>>
      BY <3>b, <2>3, <1>d
    <3>2. PICK u \in V : last[u] /\ genCompletion[u] = y
      BY <3>1, <1>b DEF Expected
    <3> QED BY <3>1, <3>2, <2>1, <1>2
  <2>10. PromptHandler => CopiedBeforeSuccess'
    <3> SUFFICES ASSUME PromptHandler, NEW y \in Transfer, "ok" \in ToSet(results'[y])
                 PROVE  parts'[y] = {}
      BY DEF CopiedBeforeSuccess
    <3>1. CASE y = x
      <4>1. results'[y] = <<r>>
        BY <3>1, <2>3, <1>d
      <4>2. r = "ok"
        BY <4>1 DEF ToSet
      <4> QED BY <4>2, <3>1, <2>5
    <3>2. CASE y # x
      <4>1. results'[y] = results[y]
        BY <3>2, <2>3, <1>d
      <4>2. parts[y] = {}
        BY <4>1, <1>c DEF Orderly, CopiedBeforeSuccess
      <4> QED BY <4>2, <1>p
    <3> QED BY <3>1, <3>2
  <2>11. Orderly(l2, k2)'
    BY <1>10, <1>c, <2>6, <2>10 DEF Orderly, InTurn
  <2>12. Account(l2, k2)'
    BY <1>3, <1>4, <1>5, <1>6, <1>7, <1>8, <2>6, <2>8, <2>9, <2>11 DEF Account, PipeBase
  <2>13. (r = "ok" => PromptHandler) => [Pipe!Next]_(Pipe!vars)
    BY <2>7 DEF Pipe!Next
  <2> QED BY <2>2, <2>4, <2>12, <2>13
<1> QED BY <1>11, <1>12

(* A new endpoint: its TD is no chunk of anything.                         *)
LEMMA AccountCreated ==
  ASSUME TypeOK, NEW l, NEW k, Lined(l, k), Separate(l, k), Account(l, k),
         NEW e \in Endpoint, NEW t \in TD, t \notin LiveIn(l, k), t = freeHead, CreateEndpoint(e),
         k[e] = <<>>, NEW k2, k2 = With(k, e, Append(k[e], t))
  PROVE  Account(l, k2)' /\ UNCHANGED Pipe!vars
<1>1. PICK V : V = LiveIn(l, k)
  OBVIOUS
<1>2. /\ Lined(l, k2) /\ LiveIn(l, k2) = LiveIn(l, k) \cup {t}
      /\ ToSet(k2[e]) = ToSet(k[e]) \cup {t}
      /\ \A f \in Endpoint : f # e => k2[f] = k[f]
      /\ \A C : InTurn(l, k, C) /\ (\A u : <<u, t>> \notin C /\ <<t, u>> \notin C) => InTurn(l, k2, C)
  BY ONLY TurnAdd, Lined(l, k), e \in Endpoint, t \in TD, k2 = With(k, e, Append(k[e], t))
<1>3. LiveIn(l, k2)' = V \cup {t}
  BY <1>1, <1>2 DEF LiveIn
<1>4. /\ UNCHANGED <<sub, status, results, issued, parts>>
      /\ last' = [last EXCEPT ![t] = FALSE] /\ genCompletion' = [genCompletion EXCEPT ![t] = Null]
      /\ tail' = [tail EXCEPT ![e] = t]
  BY DEF CreateEndpoint, PopFree, history
<1>5. /\ last \in [TD -> BOOLEAN] /\ genCompletion \in [TD -> Transfer \cup {Null}]
      /\ tail \in [Endpoint -> TDOrNull]
  BY DEF TypeOK
<1>6. ~last'[t] /\ \A u \in TD : u # t => last'[u] = last[u] /\ genCompletion'[u] = genCompletion[u]
  BY <1>4, <1>5
<1>7. V \subseteq TD /\ t \notin V
  BY <1>1, LiveIs DEF Lined
<1>b. Uncopied(V) /\ Due(V) /\ Single(V) /\ Expected(V) /\ IssuedOnce /\ Pipe!AnsweredOnce
  BY <1>1 DEF Account
<1>c. OwnPipe(k) /\ Open(k) /\ Unfinished(k) /\ Fresh /\ Orderly(l, k)
  BY DEF Account
<1>8. ToSet(k[e]) = {}
  BY DEF ToSet
<1>9. UNCHANGED Pipe!vars
  BY <1>4 DEF Pipe!vars
<1>10. IssuedOnce' /\ Pipe!AnsweredOnce' /\ Fresh'
  BY <1>4, <1>b, <1>c DEF IssuedOnce, Pipe!AnsweredOnce, Fresh
<1>11. Uncopied(V \cup {t})'
  BY <1>4, <1>b DEF Uncopied
<1>12. Due(V \cup {t})'
  BY <1>4, <1>6, <1>7, <1>b DEF Due, On
<1>13. Single(V \cup {t})'
  BY <1>6, <1>7, <1>b DEF Single
<1>14. Expected(V \cup {t})'
  <2> SUFFICES ASSUME NEW f \in Endpoint, NEW y \in Transfer, On(f, y), results[y] = <<>>
               PROVE  \E u \in V \cup {t} : last'[u] /\ genCompletion'[u] = y
    BY <1>4 DEF Expected, On
  <2>1. PICK u \in V : last[u] /\ genCompletion[u] = y
    BY <1>b DEF Expected
  <2> QED BY <2>1, <1>6, <1>7
<1>l. \A f \in Endpoint : \A u \in ToSet(k[f]) : u \in V
  BY <1>1, LiveIs
<1>15. OwnPipe(k2)'
  <2> SUFFICES ASSUME NEW f \in Endpoint, NEW u \in ToSet(k2[f]), last'[u] PROVE On(f, genCompletion'[u])
    BY <1>4 DEF OwnPipe, On
  <2>1. u # t
    BY <1>6
  <2>2. u \in ToSet(k[f])
    BY <2>1, <1>2
  <2> QED BY <2>1, <2>2, <1>6, <1>7, <1>l, <1>c DEF OwnPipe
<1>16. Open(k2)'
  <2> SUFFICES ASSUME NEW f \in Endpoint, k2[f] # <<>>
               PROVE  ~last'[tail'[f]] /\ \A x \in Transfer : tail'[f] \notin parts[x]
    BY <1>4 DEF Open
  <2>1. CASE f = e
    BY <2>1, <1>4, <1>5, <1>6, <1>7, <1>b DEF Uncopied
  <2>2. CASE f # e
    <3>1. ~last[tail[f]] /\ \A x \in Transfer : tail[f] \notin parts[x]
      BY <2>2, <1>2, <1>c DEF Open
    <3>2. tail'[f] = tail[f]
      BY <2>2, <1>4, <1>5
    <3>3. ~last'[tail[f]]
      BY <3>1, <1>4, <1>5
    <3> QED BY <3>1, <3>2, <3>3
  <2> QED BY <2>1, <2>2
<1>17. Unfinished(k2)'
  <2> SUFFICES ASSUME sub # NoSub, NEW f \in Endpoint, f # sub.ep
               PROVE  status[sub.x] = "new" /\ parts[sub.x] \cap ToSet(k2[f]) = {}
    BY <1>4, <1>c DEF Unfinished
  <2>1. FALSE
    BY DEF CreateEndpoint, GateFree
  <2> QED BY <2>1
<1>18. Orderly(l, k2)'
  <2>1. PICK D : D = OutOfTurn'
    OBVIOUS
  <2>2. ASSUME PromptHandler PROVE InTurn(l, k2, D)
    <3>1. InTurn(l, k, OutOfTurn)
      BY <2>2, <1>c DEF Orderly
    <3>a. PICK C : C = OutOfTurn
      OBVIOUS
    <3>2. \A u, v \in V : <<u, v>> \in D => <<u, v>> \in C
      BY <2>1, <3>a, <1>4, <1>6, <1>7 DEF OutOfTurn, IssuedAfter
    <3>3. InTurn(l, k, D)
      <4>1. InTurn(l, k, C)
        BY <3>1, <3>a
      <4>2. \A u, v \in LiveIn(l, k) : <<u, v>> \in D =>
              \/ <<u, v>> \in C
              \/ k[e] # <<>> /\ u = Last(k[e]) /\ \A f \in Endpoint : f # e => v \notin ToSet(k[f])
        BY <3>2, <1>1
      <4> QED BY ONLY <4>1, <4>2, TurnPairs, Lined(l, k), Separate(l, k), e \in Endpoint
    <3>4. \A u : <<u, t>> \notin D /\ <<t, u>> \notin D
      BY <2>1, <1>4, <1>6, <1>7, <1>b DEF OutOfTurn, Uncopied
    <3> QED BY <3>3, <3>4, <1>2
  <2>3. CopiedBeforeSuccess' = CopiedBeforeSuccess /\ Pipe!SuccessInOrder' = Pipe!SuccessInOrder
    BY <1>4 DEF CopiedBeforeSuccess, Pipe!SuccessInOrder
  <2>4. PromptHandler => InTurn(l, k2, OutOfTurn')
    BY <2>1, <2>2
  <2> QED BY <2>3, <2>4, <1>c DEF Orderly, InTurn
<1> QED BY <1>3, <1>9, <1>10, <1>11, <1>12, <1>13, <1>14, <1>15, <1>16, <1>17, <1>18 DEF Account

(* Only the submission moves on.                                           *)
LEMMA AccountStatus ==
  ASSUME NEW l, NEW k, Account(l, k), UNCHANGED <<last, genCompletion, tail, results, issued, parts>>,
         IssuedOnce', Pipe!AnsweredOnce', Unfinished(k)', Fresh'
  PROVE  Account(l, k)'
<1>1. PICK V : V = LiveIn(l, k)
  OBVIOUS
<1>2. LiveIn(l, k)' = V
  BY <1>1 DEF LiveIn
<1>3. Uncopied(V)' /\ Due(V)' /\ Single(V)' /\ Expected(V)'
  BY <1>1 DEF Account, Uncopied, Due, Single, Expected, On
<1>4. OwnPipe(k)' /\ Open(k)'
  BY DEF Account, OwnPipe, Open, On
<1>5. OutOfTurn' = OutOfTurn /\ CopiedBeforeSuccess' = CopiedBeforeSuccess
      /\ Pipe!SuccessInOrder' = Pipe!SuccessInOrder
  BY DEF OutOfTurn, IssuedAfter, CopiedBeforeSuccess, Pipe!SuccessInOrder
<1>6. Orderly(l, k)'
  BY <1>5 DEF Account, Orderly, InTurn
<1> QED BY <1>2, <1>3, <1>4, <1>6 DEF Account

(* A submission starts, or ends without success.                           *)
LEMMA AccountSubmitted ==
  ASSUME TypeOK, sub # NoSub => sub.x \in Transfer, NEW l, NEW k, Account(l, k),
         \/ \E x \in Transfer, e \in Endpoint : \/ SubmitStalled(x, e)
                                                \/ \E n \in 1 .. MaxChunks : SubmitStart(x, e, n)
         \/ SubmitFails
  PROVE  Account(l, k)' /\ [Pipe!Next]_(Pipe!vars)
<1>a. PipeBase /\ Unfinished(k) /\ Fresh
  BY PipeTyped DEF Account, PipeBase
<1>1. ASSUME NEW x \in Transfer, NEW e \in Endpoint, SubmitStalled(x, e)
      PROVE  Account(l, k)' /\ [Pipe!Next]_(Pipe!vars)
  <2>1. /\ UNCHANGED <<last, genCompletion, tail, sub, results, issued, parts>> /\ sub = NoSub
        /\ status[x] = "new" /\ status' = [status EXCEPT ![x] = "refused"]
    BY <1>1 DEF SubmitStalled, MaySubmit, tdVars, edVars
  <2>2. Pipe!Refuse(x)
    BY <2>1 DEF Pipe!Refuse
  <2>3. PipeBase'
    BY <1>a, <2>2, RefuseBase
  <2>4. Unfinished(k)'
    BY <2>1 DEF Unfinished, NoSub
  <2>5. Fresh'
    BY <2>1, <1>a DEF Fresh, NoSub, TypeOK
  <2>6. Account(l, k)'
    BY <2>1, <2>3, <2>4, <2>5, AccountStatus DEF PipeBase
  <2> QED BY <2>2, <2>6 DEF Pipe!Next
<1>2. ASSUME NEW x \in Transfer, NEW e \in Endpoint, NEW n \in 1 .. MaxChunks, SubmitStart(x, e, n)
      PROVE  Account(l, k)' /\ [Pipe!Next]_(Pipe!vars)
  <2>1. /\ UNCHANGED <<last, genCompletion, tail, status, results, issued, parts>> /\ sub = NoSub
        /\ status[x] = "new" /\ sub' = [x |-> x, ep |-> e, left |-> n]
    BY <1>2 DEF SubmitStart, MaySubmit, tdVars, history
  <2>2. UNCHANGED Pipe!vars
    BY <2>1 DEF Pipe!vars
  <2>3. IssuedOnce' /\ Pipe!AnsweredOnce'
    BY <2>1, <1>a DEF PipeBase, IssuedOnce, Pipe!AnsweredOnce
  <2>4. parts[x] = {}
    BY <2>1, <1>a DEF Fresh
  <2>5. sub'.x = x
    BY <2>1
  <2>6. Unfinished(k)'
    BY <2>1, <2>4, <2>5 DEF Unfinished
  <2>7. Fresh'
    BY <2>1, <2>5, <1>a DEF Fresh
  <2>8. Account(l, k)'
    BY <2>1, <2>3, <2>6, <2>7, AccountStatus
  <2> QED BY <2>2, <2>8
<1>3. CASE SubmitFails
  <2>1. /\ UNCHANGED <<last, genCompletion, tail, results, issued, parts>> /\ sub # NoSub /\ sub' = NoSub
        /\ status' = [status EXCEPT ![sub.x] = "refused"] /\ status[sub.x] = "new" /\ sub.x \in Transfer
    BY <1>3, <1>a DEF SubmitFails, Unfinished, tdVars, edVars
  <2>2. Pipe!Refuse(sub.x)
    BY <2>1 DEF Pipe!Refuse
  <2>3. PipeBase'
    BY <1>a, <2>1, <2>2, RefuseBase
  <2>4. Unfinished(k)'
    BY <2>1 DEF Unfinished, NoSub
  <2>5. Fresh'
    BY <2>1, <1>a DEF Fresh, TypeOK
  <2>6. Account(l, k)'
    BY <2>1, <2>3, <2>4, <2>5, AccountStatus DEF PipeBase
  <2> QED BY <2>1, <2>2, <2>6 DEF Pipe!Next
<1> QED BY <1>1, <1>2, <1>3

(* The pipe of a transfer, and the order, after the step.                  *)
NowOn(e, x) == \E i \in DOMAIN issued'[e] : issued'[e][i] = x

(* The same for the order.                                                 *)
NowAfter(x, y) ==
  \E e \in Endpoint : \E i, j \in DOMAIN issued'[e] : j < i /\ issued'[e][i] = x /\ issued'[e][j] = y

(* The last of a list is in it.                                            *)
LEMMA LastIn ==
  ASSUME NEW l \in Seq(TD), l # <<>>
  PROVE  Last(l) \in ToSet(l) /\ Last(l) \in TD
BY FirstIs, MemberIs

(* A chunk is queued: the tail becomes the chunk, the last of its transfer *)
(* if it is the final one.                                                 *)
LEMMA AccountChunk ==
  ASSUME TypeOK, sub # NoSub => sub.x \in Transfer, NEW l, NEW k, Lined(l, k), Separate(l, k),
         Account(l, k), SubmitChunk, NEW t \in TD, t = freeHead, t \notin LiveIn(l, k),
         NEW e \in Endpoint, e = sub.ep, k[e] # <<>>,
         \A f \in Endpoint : k[f] # <<>> => Last(k[f]) = tail[f],
         NEW k2, k2 = With(k, e, Append(k[e], t))
  PROVE  Account(l, k2)' /\ [Pipe!Next]_(Pipe!vars)
<1>1. PICK V : V = LiveIn(l, k)
  OBVIOUS
<1>2. /\ Lined(l, k2) /\ LiveIn(l, k2) = LiveIn(l, k) \cup {t}
      /\ ToSet(k2[e]) = ToSet(k[e]) \cup {t}
      /\ \A f \in Endpoint : f # e => k2[f] = k[f]
      /\ \A C : InTurn(l, k, C) /\ (\A u : <<u, t>> \notin C /\ <<t, u>> \notin C) => InTurn(l, k2, C)
  BY ONLY TurnAdd, Lined(l, k), e \in Endpoint, t \in TD, k2 = With(k, e, Append(k[e], t))
<1>3. LiveIn(l, k2)' = V \cup {t}
  BY <1>1, <1>2 DEF LiveIn
<1>x. PICK x \in Transfer : x = sub.x
  BY DEF SubmitChunk
<1>l. \A f \in Endpoint : \A u \in ToSet(k[f]) : u \in V
  BY <1>1, LiveIs
<1>7. V \subseteq TD /\ t \notin V
  BY <1>1, LiveIs DEF Lined
<1>4. PICK c \in TD : c = tail[e] /\ c \in ToSet(k[e]) /\ c \in V /\ c # t
  <2>1. k[e] \in Seq(TD)
    BY DEF Lined
  <2>2. Last(k[e]) \in ToSet(k[e])
    BY <2>1, LastIn
  <2> QED BY <2>2, <1>l, <1>7
<1>f. PICK final \in BOOLEAN : final = (sub.left = 1)
  OBVIOUS
<1>5. /\ sub # NoSub /\ results' = results
      /\ last' = [last EXCEPT ![t] = FALSE, ![c] = final]
      /\ genCompletion' = [genCompletion EXCEPT ![t] = Null, ![c] = IF final THEN x ELSE @]
      /\ tail' = [tail EXCEPT ![e] = t]
      /\ parts' = [parts EXCEPT ![x] = @ \cup {c}]
      /\ status' = IF final THEN [status EXCEPT ![x] = "accepted"] ELSE status
      /\ issued' = IF final THEN [issued EXCEPT ![e] = Append(@, x)] ELSE issued
      /\ sub' = IF final THEN NoSub ELSE [sub EXCEPT !.left = @ - 1]
  BY <1>x, <1>4, <1>f DEF SubmitChunk, PopFree
<1>6. /\ last \in [TD -> BOOLEAN] /\ genCompletion \in [TD -> Transfer \cup {Null}]
      /\ tail \in [Endpoint -> TDOrNull] /\ parts \in [Transfer -> SUBSET TD]
      /\ status \in [Transfer -> {"new", "accepted", "refused"}] /\ issued \in [Endpoint -> Seq(Transfer)]
      /\ sub \in [x : Transfer \cup {Null}, ep : Endpoint \cup {Null}, left : 0..MaxChunks]
  BY DEF TypeOK
<1>8. /\ ~last'[t] /\ last'[c] = final /\ (final => genCompletion'[c] = x)
      /\ \A u \in TD : u # t /\ u # c => last'[u] = last[u] /\ genCompletion'[u] = genCompletion[u]
  BY <1>4, <1>5, <1>6
<1>9. /\ parts'[x] = parts[x] \cup {c}
      /\ \A y \in Transfer : y # x => parts'[y] = parts[y]
  BY <1>5, <1>6
<1>a. IssuedOnce /\ Pipe!AnsweredOnce /\ PipeBase
  BY PipeTyped DEF Account, PipeBase
<1>b. Uncopied(V) /\ Due(V) /\ Single(V) /\ Expected(V)
  BY <1>1 DEF Account
<1>c. OwnPipe(k) /\ Open(k) /\ Unfinished(k) /\ Fresh /\ Orderly(l, k)
  BY DEF Account
<1>d. /\ ~last[c] /\ (\A y \in Transfer : c \notin parts[y])
      /\ \A u \in TD : u # t => (last'[u] <=> last[u] \/ (u = c /\ final))
  <2>1. ~last[c] /\ \A y \in Transfer : c \notin parts[y]
    BY <1>4, <1>c DEF Open
  <2> QED BY <2>1, <1>8, <1>6
<1>e. /\ status[x] = "new" /\ results[x] = <<>>
      /\ \A f \in Endpoint : ~On(f, x)
      /\ \A u \in V : last[u] => genCompletion[u] # x
  <2>1. status[x] = "new"
    BY <1>5, <1>x, <1>c DEF Unfinished
  <2>2. results[x] = <<>>
    BY <2>1, <1>a DEF Pipe!AnsweredOnce
  <2>3. \A f \in Endpoint : ~On(f, x)
    BY <2>1, <1>a DEF IssuedOnce, On
  <2> QED BY <2>1, <2>2, <2>3, <1>b DEF Due
<1>i. /\ \A f \in Endpoint : \A i \in DOMAIN issued[f] : i \in DOMAIN issued'[f] /\ issued'[f][i] = issued[f][i]
      /\ \A f \in Endpoint : \A i \in DOMAIN issued'[f] :
           \/ i \in DOMAIN issued[f]
           \/ final /\ f = e /\ i = Len(issued[e]) + 1 /\ issued'[f][i] = x
      /\ final => Len(issued[e]) + 1 \in DOMAIN issued'[e] /\ issued'[e][Len(issued[e]) + 1] = x
      /\ \A f \in Endpoint : \A i \in DOMAIN issued[f] : i \in 1 .. Len(issued[f]) /\ issued[f][i] \in Transfer
      /\ Len(issued[e]) \in Nat
  BY <1>5, <1>6
<1>o. \A f \in Endpoint, y \in Transfer : NowOn(f, y) <=> On(f, y) \/ (final /\ f = e /\ y = x)
  BY <1>i DEF On, NowOn
<1>r. \A y, z : NowAfter(y, z) => IssuedAfter(y, z) \/ (final /\ y = x /\ On(e, z))
  <2> SUFFICES ASSUME NEW y, NEW z, NowAfter(y, z)
               PROVE  IssuedAfter(y, z) \/ (final /\ y = x /\ On(e, z))
    OBVIOUS
  <2>f. PICK f \in Endpoint : \E i, j \in DOMAIN issued'[f] : j < i /\ issued'[f][i] = y /\ issued'[f][j] = z
    BY DEF NowAfter
  <2>i. PICK i \in DOMAIN issued'[f], j \in DOMAIN issued'[f] : j < i /\ issued'[f][i] = y /\ issued'[f][j] = z
    BY <2>f
  <2>1. CASE i \in DOMAIN issued[f]
    <3>1. j \in DOMAIN issued[f]
      BY <2>i, <2>1, <1>i
    <3>2. issued[f][i] = y /\ issued[f][j] = z
      BY <2>i, <2>1, <3>1, <1>i
    <3> QED BY <2>i, <2>1, <3>1, <3>2 DEF IssuedAfter
  <2>2. CASE i \notin DOMAIN issued[f]
    <3>1. final /\ f = e /\ i = Len(issued[e]) + 1 /\ y = x
      BY <2>i, <2>2, <1>i
    <3>2. j \in DOMAIN issued[e]
      BY <2>i, <3>1, <1>i
    <3>3. On(e, z)
      BY <2>i, <3>1, <3>2, <1>i DEF On
    <3> QED BY <3>1, <3>3
  <2> QED BY <2>1, <2>2
<1>10. [Pipe!Next]_(Pipe!vars) /\ PipeBase' /\ (Pipe!SuccessInOrder => Pipe!SuccessInOrder')
  <2>1. CASE final
    <3>1. Pipe!Accept(x, e)
      BY <2>1, <1>5, <1>e DEF Pipe!Accept
    <3>2. PipeBase' /\ (Pipe!SuccessInOrder => Pipe!SuccessInOrder')
      BY <3>1, <1>a, AcceptBase
    <3> QED BY <3>1, <3>2 DEF Pipe!Next
  <2>2. CASE ~final
    <3>1. UNCHANGED Pipe!vars
      BY <2>2, <1>5 DEF Pipe!vars
    <3>2. status' = status /\ results' = results /\ issued' = issued
      BY <2>2, <1>5
    <3>3. PipeBase' /\ (Pipe!SuccessInOrder => Pipe!SuccessInOrder')
      BY <3>2, <1>a DEF PipeBase, Pipe!TypeOK, IssuedOnce, Pipe!AnsweredOnce, Pipe!SuccessInOrder
    <3> QED BY <3>1, <3>3
  <2> QED BY <2>1, <2>2
<1>11. Uncopied(V \cup {t})'
  BY <1>4, <1>9, <1>b DEF Uncopied
<1>12. Due(V \cup {t})'
  <2> SUFFICES ASSUME NEW u \in V, last'[u], u # t
               PROVE  /\ genCompletion'[u] \in Transfer /\ results[genCompletion'[u]] = <<>>
                      /\ \E f \in Endpoint : NowOn(f, genCompletion'[u])
    BY <1>5, <1>8 DEF Due, On, NowOn
  <2>1. CASE u = c
    BY <2>1, <1>8, <1>e, <1>o
  <2>2. CASE u # c
    BY <2>2, <1>7, <1>8, <1>b, <1>o DEF Due
  <2> QED BY <2>1, <2>2
<1>13. Single(V \cup {t})'
  <2> SUFFICES ASSUME NEW u \in V, NEW v \in V, last'[u], last'[v], genCompletion'[u] = genCompletion'[v]
               PROVE  u = v
    BY <1>8 DEF Single
  <2>1. u # t /\ v # t /\ u \in TD /\ v \in TD
    BY <1>7
  <2>2. CASE u # c /\ v # c
    BY <2>1, <2>2, <1>8, <1>b DEF Single
  <2>3. CASE u = c /\ v # c
    BY <2>1, <2>3, <1>8, <1>e
  <2>4. CASE u # c /\ v = c
    BY <2>1, <2>4, <1>8, <1>e
  <2> QED BY <2>2, <2>3, <2>4
<1>14. Expected(V \cup {t})'
  <2> SUFFICES ASSUME NEW f \in Endpoint, NEW y \in Transfer, NowOn(f, y), results'[y] = <<>>
               PROVE  \E u \in V \cup {t} : last'[u] /\ genCompletion'[u] = y
    BY ZenonT(40) DEF Expected, On, NowOn
  <2>0. results[y] = <<>>
    BY <1>5
  <2>1. CASE On(f, y)
    <3>1. PICK u \in V : last[u] /\ genCompletion[u] = y
      BY <2>0, <2>1, <1>b DEF Expected
    <3>2. u # c /\ u # t /\ u \in TD
      BY <3>1, <1>d, <1>7
    <3> QED BY <3>1, <3>2, <1>8
  <2>2. CASE ~On(f, y)
    <3>1. final /\ y = x
      BY <2>2, <1>o
    <3> QED BY <3>1, <1>4, <1>8
  <2> QED BY <2>1, <2>2
<1>15. OwnPipe(k2)'
  <2> SUFFICES ASSUME NEW f \in Endpoint, NEW u \in ToSet(k2[f]), last'[u] PROVE NowOn(f, genCompletion'[u])
    BY DEF OwnPipe, On, NowOn
  <2>1. u # t
    BY <1>8
  <2>2. u \in ToSet(k[f]) /\ u \in TD /\ u \in V
    BY <2>1, <1>2, <1>l, <1>7
  <2>3. CASE u = c
    <3>1. f = e
      BY <2>2, <2>3, <1>4 DEF Separate
    <3>2. final
      BY <2>3, <1>8
    <3> QED BY <2>3, <3>1, <3>2, <1>8, <1>o
  <2>4. CASE u # c
    <3>1. last[u] /\ genCompletion'[u] = genCompletion[u]
      BY <2>1, <2>2, <2>4, <1>8
    <3>2. On(f, genCompletion[u]) /\ genCompletion[u] \in Transfer
      BY <2>2, <3>1, <1>b, <1>c DEF OwnPipe, Due
    <3> QED BY <3>1, <3>2, <1>o
  <2> QED BY <2>3, <2>4
<1>16. Open(k2)'
  <2> SUFFICES ASSUME NEW f \in Endpoint, k2[f] # <<>>
               PROVE  ~last'[tail'[f]] /\ \A y \in Transfer : tail'[f] \notin parts'[y]
    BY DEF Open
  <2>1. CASE f = e
    <3>1. tail'[f] = t
      BY <2>1, <1>5, <1>6
    <3>2. \A y \in Transfer : t \notin parts'[y]
      BY <1>4, <1>7, <1>9, <1>b DEF Uncopied
    <3> QED BY <3>1, <3>2, <1>8
  <2>2. CASE f # e
    <3>1. ~last[tail[f]] /\ \A y \in Transfer : tail[f] \notin parts[y]
      BY <2>2, <1>2, <1>c DEF Open
    <3>2. tail'[f] = tail[f]
      BY <2>2, <1>5, <1>6
    <3>3. tail[f] # c /\ tail[f] # t /\ tail[f] \in TD
      <4>1. k[f] \in Seq(TD) /\ k[f] # <<>>
        BY <2>2, <1>2 DEF Lined
      <4>2. Last(k[f]) \in ToSet(k[f])
        BY <4>1, LastIn
      <4>3. tail[f] \in ToSet(k[f])
        BY <4>1, <4>2
      <4>4. tail[f] \in V /\ tail[f] # c
        BY <4>3, <2>2, <1>l, <1>4 DEF Separate
      <4> QED BY <4>4, <1>7
    <3>4. ~last'[tail[f]]
      BY <3>1, <3>3, <1>8
    <3>5. \A y \in Transfer : tail[f] \notin parts'[y]
      BY <3>1, <3>3, <1>9
    <3> QED BY <3>2, <3>4, <3>5
  <2> QED BY <2>1, <2>2
<1>17. Unfinished(k2)'
  <2>1. CASE final
    BY <2>1, <1>5 DEF Unfinished
  <2>2. CASE ~final
    <3>1. sub'.x = x /\ sub'.ep = e /\ status' = status
      BY <2>2, <1>5, <1>6, <1>x
    <3>2. ASSUME NEW f \in Endpoint, f # e PROVE parts'[x] \cap ToSet(k2[f]) = {}
      <4>1. parts[x] \cap ToSet(k[f]) = {}
        BY <3>2, <1>x, <1>5, <1>c DEF Unfinished
      <4>2. c \notin ToSet(k[f])
        BY <3>2, <1>4 DEF Separate
      <4> QED BY <3>2, <4>1, <4>2, <1>2, <1>9
    <3> QED BY <3>1, <3>2, <1>e DEF Unfinished
  <2> QED BY <2>1, <2>2
<1>18. Fresh'
  <2> SUFFICES ASSUME NEW y \in Transfer, status'[y] = "new", sub' = NoSub \/ y # sub'.x PROVE parts'[y] = {}
    BY DEF Fresh
  <2>1. y # x
    <3>1. CASE final
      BY <3>1, <1>5, <1>6
    <3>2. CASE ~final
      <4>1. sub'.x = x /\ sub' # NoSub
        BY <3>2, <1>5, <1>6, <1>x, NullIsNone DEF NoSub
      <4> QED BY <4>1
    <3> QED BY <3>1, <3>2
  <2>2. status[y] = "new"
    BY <2>1, <1>5, <1>6
  <2> QED BY <2>1, <2>2, <1>x, <1>9, <1>c DEF Fresh
<1>19. PromptHandler => InTurn(l, k2, OutOfTurn')
  <2> SUFFICES ASSUME PromptHandler PROVE InTurn(l, k2, OutOfTurn')
    OBVIOUS
  <2>1. PICK D : D = OutOfTurn'
    OBVIOUS
  <2>2. PICK C : C = OutOfTurn
    OBVIOUS
  <2>3. InTurn(l, k, C)
    BY <2>2, <1>c DEF Orderly
  <2>4. ASSUME NEW u \in V, NEW v \in V, <<u, v>> \in D, <<u, v>> \notin C
        PROVE  u = c /\ \A f \in Endpoint : f # e => v \notin ToSet(k[f])
    <3>1. u \in TD /\ v \in TD /\ u # t /\ v # t
      BY <1>7
    <3>2. /\ last'[u]
          /\ \/ \E y \in Transfer : y = genCompletion'[u] /\ v \in parts'[y]
             \/ last'[v] /\ NowAfter(genCompletion'[u], genCompletion'[v])
      BY <2>1, <2>4 DEF OutOfTurn, IssuedAfter, NowAfter
    <3>3. CASE u # c
      <4>1. last[u] /\ genCompletion'[u] = genCompletion[u] /\ genCompletion[u] # x
        BY <3>1, <3>2, <3>3, <1>8, <1>e
      <4>2. CASE \E y \in Transfer : y = genCompletion'[u] /\ v \in parts'[y]
        <5>1. \E y \in Transfer : y = genCompletion[u] /\ v \in parts[y]
          BY <4>1, <4>2, <1>9
        <5> QED BY <5>1, <4>1, <3>1, <2>2, <2>4 DEF OutOfTurn
      <4>3. CASE last'[v] /\ NowAfter(genCompletion'[u], genCompletion'[v])
        <5>1. IssuedAfter(genCompletion[u], genCompletion'[v])
          BY <4>1, <4>3, <1>r
        <5>2. v # c
          <6> SUFFICES ASSUME v = c PROVE FALSE
            OBVIOUS
          <6>1. genCompletion'[v] = x
            BY <4>3, <1>8
          <6>2. \E f \in Endpoint : On(f, x)
            BY <5>1, <6>1 DEF IssuedAfter, On
          <6> QED BY <6>2, <1>e
        <5>3. last[v] /\ genCompletion'[v] = genCompletion[v]
          BY <5>2, <4>3, <3>1, <1>8
        <5> QED BY <5>1, <5>3, <4>1, <3>1, <2>2, <2>4 DEF OutOfTurn
      <4> QED BY <3>2, <4>2, <4>3
    <3>4. CASE u = c
      <4> SUFFICES ASSUME NEW f \in Endpoint, f # e, v \in ToSet(k[f]) PROVE FALSE
        BY <3>4
      <4>1. final /\ genCompletion'[u] = x
        BY <3>2, <3>4, <1>8
      <4>2. v # c
        BY <1>4 DEF Separate
      <4>3. CASE \E y \in Transfer : y = genCompletion'[u] /\ v \in parts'[y]
        <5>1. v \in parts[x]
          BY <4>1, <4>2, <4>3, <1>9
        <5>2. parts[x] \cap ToSet(k[f]) = {}
          BY <1>x, <1>5, <1>c DEF Unfinished
        <5> QED BY <5>1, <5>2
      <4>4. CASE last'[v] /\ NowAfter(genCompletion'[u], genCompletion'[v])
        <5>1. last[v] /\ genCompletion'[v] = genCompletion[v]
          BY <4>2, <4>4, <3>1, <1>8
        <5>2. IssuedAfter(x, genCompletion[v]) \/ On(e, genCompletion[v])
          BY <4>1, <4>4, <5>1, <1>r
        <5>3. ~IssuedAfter(x, genCompletion[v])
          BY <1>e DEF IssuedAfter, On
        <5>4. On(f, genCompletion[v])
          BY <5>1, <1>c DEF OwnPipe
        <5>5. f = e
          BY <5>2, <5>3, <5>4, <1>a DEF On, IssuedOnce
        <5> QED BY <5>5
      <4> QED BY <3>2, <4>3, <4>4
    <3> QED BY <3>3, <3>4
  <2>5. \A u, v \in LiveIn(l, k) : <<u, v>> \in D =>
          \/ <<u, v>> \in C
          \/ k[e] # <<>> /\ u = Last(k[e]) /\ \A f \in Endpoint : f # e => v \notin ToSet(k[f])
    BY <2>4, <1>1, <1>4
  <2>6. InTurn(l, k, D)
    BY ONLY <2>3, <2>5, TurnPairs, Lined(l, k), Separate(l, k), e \in Endpoint
  <2>7. \A u : <<u, t>> \notin D /\ <<t, u>> \notin D
    <3>1. \A y \in Transfer : t \notin parts'[y]
      BY <1>4, <1>7, <1>9, <1>b DEF Uncopied
    <3> QED BY <2>1, <3>1, <1>8 DEF OutOfTurn
  <2>8. InTurn(l, k2, D)
    BY <2>6, <2>7, <1>2
  <2> QED BY <2>1, <2>8
<1>20. PromptHandler => CopiedBeforeSuccess'
  <2> SUFFICES ASSUME PromptHandler, NEW y \in Transfer, "ok" \in ToSet(results[y])
               PROVE  parts'[y] = {}
    BY <1>5 DEF CopiedBeforeSuccess
  <2>1. y # x
    BY <1>e DEF ToSet
  <2>2. parts[y] = {}
    BY <1>c DEF Orderly, CopiedBeforeSuccess
  <2> QED BY <2>1, <2>2, <1>9
<1>21. Orderly(l, k2)'
  BY <1>10, <1>19, <1>20, <1>c DEF Orderly, InTurn
<1> QED
  BY <1>3, <1>10, <1>11, <1>12, <1>13, <1>14, <1>15, <1>16, <1>17, <1>18, <1>21 DEF Account, PipeBase

(* With a handler that keeps up, a batch is written back only after the    *)
(* one before it was taken over.                                           *)
Prompt == PromptHandler /\ wdh => writeDoneHead = Null

(* Every step keeps that; the writeback waits for the handler.             *)
LEMMA PromptStep ==
  ASSUME Prompt, Next
  PROVE  Prompt'
<1>1. CASE HCWriteback
  BY <1>1 DEF HCWriteback, Prompt
<1>2. CASE FilterInterrupt
  BY <1>2 DEF FilterInterrupt, Prompt
<1>3. CASE HandleInterrupt
  BY <1>3 DEF HandleInterrupt, hcVars, Prompt
<1>4. CASE UNCHANGED <<wdh, writeDoneHead>>
  BY <1>4 DEF Prompt
<1>5. HCWriteback \/ FilterInterrupt \/ HandleInterrupt \/ UNCHANGED <<wdh, writeDoneHead>>
  <2>1. Client \/ Submission => UNCHANGED <<wdh, writeDoneHead>>
    BY DEF Client, Submission, CreateEndpoint, SubmitStalled, SubmitStart, RemovalStart, SubmitChunk,
       SubmitFails, hcVars
  <2>2. Controller => HCWriteback \/ UNCHANGED <<wdh, writeDoneHead>>
    BY DEF Controller, HCStart, HCRetire, HCStop
  <2>3. Workloop => HandleInterrupt \/ UNCHANGED <<wdh, writeDoneHead>>
    BY DEF Workloop, CompleteTransfer, HandlerReturn, FailTransfer, Quiesced, FailStep, FailRanOut,
       SleepDone, RemoveStep, RemoveReturn, RemoveDone, hcVars
  <2> QED BY <2>1, <2>2, <2>3 DEF Next
<1> QED BY <1>1, <1>2, <1>3, <1>4, <1>5

(* The submission in progress is of a transfer.                            *)
LEMMA SubIs ==
  ASSUME Shape
  PROVE  TypeOK /\ (sub # NoSub => sub.x \in Transfer /\ sub.ep \in Endpoint)
BY DEF Shape, Control, TypeOK

(* The steps that move nothing in line or chains.                          *)
LEMMA StillStep ==
  ASSUME Shape, NEW l, NEW k, View(l, k)', Account(l, k), UNCHANGED Books
  PROVE  (\E l2, k2 : View(l2, k2)' /\ Account(l2, k2)') /\ [Pipe!Next]_(Pipe!vars)
<1>1. Account(l, k)' /\ UNCHANGED Pipe!vars
  BY AccountMoved
<1> QED BY <1>1

(* The steps keep the account, and each is a step of the pipe or none, as  *)
(* far as a handler that keeps up makes sure that successes are in order.  *)
LEMMA AccountStep ==
  ASSUME "abort" \notin ResubmitAfter, Shape, Prompt, NEW l, NEW k, View(l, k), Account(l, k),
         ~failed, ~failed', Next
  PROVE  /\ \E l2, k2 : View(l2, k2)' /\ Account(l2, k2)'
         /\ PromptHandler => [Pipe!Next]_(Pipe!vars)
<1>a. /\ Lined(l, k) /\ Separate(l, k)
      /\ \A e \in Endpoint : k[e] # <<>> => Last(k[e]) = tail[e]
  BY ViewIs
<1>b. TypeOK /\ (sub # NoSub => sub.x \in Transfer /\ sub.ep \in Endpoint)
  BY SubIs
<1>1. ASSUME NEW e \in Endpoint, CreateEndpoint(e)
      PROVE  (\E l2, k2 : View(l2, k2)' /\ Account(l2, k2)') /\ [Pipe!Next]_(Pipe!vars)
  <2>1. PICK t : t = freeHead
    OBVIOUS
  <2>2. t \in TD /\ t \notin LiveIn(l, k) /\ k[e] = <<>> /\ View(l, With(k, e, Append(k[e], t)))'
    BY <1>1, <2>1, CreateView
  <2>3. PICK k2 : k2 = With(k, e, Append(k[e], t))
    OBVIOUS
  <2>4. Account(l, k2)' /\ UNCHANGED Pipe!vars
    BY <1>1, <1>a, <1>b, <2>1, <2>2, <2>3, AccountCreated
  <2>5. View(l, k2)'
    BY <2>2, <2>3
  <2> QED BY <2>4, <2>5
<1>2. CASE \/ \E x \in Transfer, e \in Endpoint : \/ SubmitStalled(x, e)
                                                 \/ \E n \in 1 .. MaxChunks : SubmitStart(x, e, n)
           \/ SubmitFails
  <2>1. View(l, k)'
    BY <1>2, RestView
  <2>2. Account(l, k)' /\ [Pipe!Next]_(Pipe!vars)
    BY <1>2, <1>b, AccountSubmitted
  <2> QED BY <2>1, <2>2
<1>3. CASE SubmitChunk
  <2>1. PICK t : t = freeHead
    OBVIOUS
  <2>2. PICK e : e = sub.ep
    OBVIOUS
  <2>3. t \in TD /\ t \notin LiveIn(l, k) /\ e \in Endpoint /\ k[e] # <<>>
        /\ View(l, With(k, e, Append(k[e], t)))'
    BY <1>3, <2>1, <2>2, ChunkView
  <2>4. PICK k2 : k2 = With(k, e, Append(k[e], t))
    OBVIOUS
  <2>5. Account(l, k2)' /\ [Pipe!Next]_(Pipe!vars)
    BY <1>3, <1>a, <1>b, <2>1, <2>2, <2>3, <2>4, AccountChunk
  <2>6. View(l, k2)'
    BY <2>3, <2>4
  <2> QED BY <2>5, <2>6
<1>4. CASE \/ \E e \in Endpoint : HCStart(e)
           \/ HCStop \/ FailTransfer \/ Quiesced \/ \E e \in Endpoint, o \in Ops : RemovalStart(e, o)
  <2>1. View(l, k)'
    BY <1>4, RestView
  <2>2. UNCHANGED Books
    BY <1>4 DEF HCStart, HCStop, FailTransfer, Quiesced, RemovalStart, Books, tdVars, edVars, history
  <2> QED BY <2>1, <2>2, StillStep
<1>5. ASSUME NEW e \in Endpoint, NEW code \in {"ok", "error"}, HCRetire(e, code)
      PROVE  (\E l2, k2 : View(l2, k2)' /\ Account(l2, k2)') /\ [Pipe!Next]_(Pipe!vars)
  <2>1. k[e] # <<>> /\ View(Retired(l, k, e), With(k, e, Tail(k[e])))'
    BY <1>5, RetireView
  <2>2. PICK l2 : l2 = Retired(l, k, e)
    OBVIOUS
  <2>3. PICK k2 : k2 = With(k, e, Tail(k[e]))
    OBVIOUS
  <2>4. View(l2, k2)'
    BY <2>1, <2>2, <2>3
  <2>5. /\ LiveIn(l2, k2) = LiveIn(l, k)
        /\ \A f \in Endpoint : ToSet(k2[f]) \subseteq ToSet(k[f])
        /\ \A C : InTurn(l, k, C) => InTurn(l2, k2, C)
    BY ONLY <1>a, <2>1, <2>2, <2>3, e \in Endpoint, TurnRetire
  <2>6. \A f \in Endpoint : k2[f] # <<>> => k[f] # <<>>
    BY <1>a, <2>1, <2>3 DEF With, Lined
  <2>7. UNCHANGED Books
    BY <1>5 DEF HCRetire, Books, history
  <2>8. Account(l2, k2)' /\ UNCHANGED Pipe!vars
    BY <2>5, <2>6, <2>7, AccountMoved
  <2> QED BY <2>4, <2>8
<1>6. CASE HCWriteback
  <2>1. View(l, k)'
    BY <1>6, WritebackView
  <2>2. UNCHANGED Books
    BY <1>6 DEF HCWriteback, Books, tdVars, edVars, history
  <2> QED BY <2>1, <2>2, StillStep
<1>7. CASE FilterInterrupt
  <2>1. PICK m : View(m, k)' /\ ToSet(m) = ToSet(l) /\ (writeDoneHead = Null => m = l)
    BY <1>7, FilterView
  <2>2. UNCHANGED Books
    BY <1>7 DEF FilterInterrupt, Books, edVars, history
  <2>3. LiveIn(m, k) = LiveIn(l, k)
    BY <2>1 DEF LiveIn
  <2>4. PromptHandler => m = l
    BY <1>7, <2>1 DEF FilterInterrupt, Prompt
  <2>5. Account(m, k)' /\ UNCHANGED Pipe!vars
    BY <2>2, <2>3, <2>4, AccountMoved
  <2> QED BY <2>1, <2>5
<1>8. CASE HandleInterrupt
  <2>1. View(l, k)'
    BY <1>8, TakeView
  <2>2. UNCHANGED Books
    BY <1>8 DEF HandleInterrupt, Books, tdVars, edVars, history
  <2> QED BY <2>1, <2>2, StillStep
<1>9. CASE CompleteTransfer
  <2>1. l # <<>> /\ curr = Head(l) /\ View(Tail(l), k)'
    BY <1>9, CompleteView
  <2>2. PICK t : t = curr /\ t = Head(l)
    BY <2>1
  <2>3. PICK l2 : l2 = Tail(l)
    OBVIOUS
  <2>4. /\ t \in LiveIn(l, k) /\ LiveIn(l2, k) = LiveIn(l, k) \ {t}
        /\ \A C : InTurn(l, k, C) => InTurn(l2, k, C)
        /\ \A C : InTurn(l, k, C) => Precedes({t}, LiveIn(l2, k), C)
    <3>1. /\ Head(l) \in LiveIn(l, k) /\ LiveIn(Tail(l), k) = LiveIn(l, k) \ {Head(l)}
          /\ \A C : InTurn(l, k, C) => InTurn(Tail(l), k, C)
          /\ \A C : InTurn(l, k, C) => Precedes({Head(l)}, LiveIn(Tail(l), k), C)
      BY ONLY <1>a, <2>1, TurnPop
    <3> QED BY ONLY <3>1, <2>2, <2>3
  <2>5. t \in TD
    BY <2>4 DEF LiveIn
  <2>6. /\ UNCHANGED <<last, genCompletion, tail, sub, status, issued>>
        /\ parts' = CopiedBack(t) /\ results' = IF last[t] THEN Called(t, "ok") ELSE results
    BY <1>9, <2>2 DEF CompleteTransfer, tdVars, edVars
  <2>7. /\ Account(l2, k)'
        /\ PromptHandler => [Pipe!Next]_(Pipe!vars)
    BY <1>b, <2>4, <2>5, <2>6, AccountAnswered
  <2>8. View(l2, k)'
    BY <2>1, <2>3
  <2> QED BY <2>7, <2>8
<1>10. CASE HandlerReturn
  <2>1. View(l, k)'
    BY <1>10, ReturnView
  <2>2. UNCHANGED Books
    BY <1>10 DEF HandlerReturn, ReturnTransfer, Books, edVars, history
  <2> QED BY <2>1, <2>2, StillStep
<1>11. CASE SleepDone
  <2>1. View(l, k)'
    BY <1>11, DetachView
  <2>2. UNCHANGED Books
    BY <1>11 DEF SleepDone, Books, tdVars, history
  <2> QED BY <2>1, <2>2, StillStep
<1>12. ASSUME RemoveStep \/ (RemoveDone /\ op = "delete")
       PROVE  (\E l2, k2 : View(l2, k2)' /\ Account(l2, k2)') /\ [Pipe!Next]_(Pipe!vars)
  <2>1. PICK g : g = target
    OBVIOUS
  <2>2. PICK k2 : k2 = With(k, g, Tail(k[g]))
    OBVIOUS
  <2>3. PICK t : /\ g \in Endpoint /\ k[g] # <<>> /\ t = Head(k[g]) /\ View(l, k2)'
                 /\ IF RemoveStep THEN t = curr ELSE t = tail[g]
    <3>1. CASE RemoveStep
      BY <3>1, <2>1, <2>2, RemoveView
    <3>2. CASE ~RemoveStep
      BY <3>2, <1>12, <2>1, <2>2, DeleteView
    <3> QED BY <3>1, <3>2
  <2>4. /\ t \in LiveIn(l, k) /\ LiveIn(l, k2) = LiveIn(l, k) \ {t}
        /\ \A f \in Endpoint : ToSet(k2[f]) \subseteq ToSet(k[f])
        /\ \A C : InTurn(l, k, C) => InTurn(l, k2, C)
    BY <1>a, <2>2, <2>3, TurnDrop
  <2>5. \A f \in Endpoint : k2[f] # <<>> => k[f] # <<>>
    BY <1>a, <2>2, <2>3 DEF With, Lined
  <2>6. t \in TD
    BY <2>4 DEF LiveIn
  <2>7. /\ UNCHANGED <<last, genCompletion, tail, sub, status, issued>>
        /\ parts' = CopiedBack(t) /\ results' = IF last[t] THEN Called(t, "aborted") ELSE results
    <3>1. CASE RemoveStep
      BY <3>1, <2>3 DEF RemoveStep, tdVars, edVars
    <3>2. CASE ~RemoveStep
      <4>1. ~last[t] /\ \A x \in Transfer : t \notin parts[x]
        BY <3>2, <2>3 DEF Account, Open
      <4>2. UNCHANGED <<last, genCompletion, tail, sub, status, issued, parts, results>>
        BY <3>2, <1>12 DEF RemoveDone, ReturnTransfer, history
      <4>3. \A x \in Transfer : parts[x] \ {t} = parts[x]
        BY <4>1
      <4>4. CopiedBack(t) = parts
        BY <4>3, <1>b DEF CopiedBack, TypeOK
      <4> QED BY <4>1, <4>2, <4>4
    <3> QED BY <3>1, <3>2
  <2>r. PICK r \in {"ok", "error", "aborted"} : r = "aborted" /\ r # "ok"
    OBVIOUS
  <2>8. results' = IF last[t] THEN Called(t, r) ELSE results
    BY <2>7, <2>r
  <2>9. /\ Account(l, k2)'
        /\ (r = "ok" => PromptHandler) => [Pipe!Next]_(Pipe!vars)
    <3>1. \A f \in Endpoint : ToSet(k2[f]) \subseteq ToSet(k[f]) /\ (k2[f] # <<>> => k[f] # <<>>)
      BY <2>4, <2>5
    <3>2. r = "ok" => \A C : InTurn(l, k, C) => Precedes({t}, LiveIn(l, k2), C)
      BY <2>r
    <3>3. /\ Account(l, k2)'
          /\ \/ UNCHANGED Pipe!vars
             \/ \E e \in Endpoint : \E x \in Transfer : On(e, x) /\ Answered(x, r)
          /\ (r = "ok" => PromptHandler) => [Pipe!Next]_(Pipe!vars)
      BY ONLY <1>b, <2>4, <2>6, <2>7, <2>8, <2>r, <3>1, <3>2, Account(l, k), AccountAnswered
    <3> QED BY <3>3
  <2> QED BY <2>3, <2>9, <2>r
<1>13. CASE RemoveReturn
  <2>1. View(l, k)'
    BY <1>13, RemoveReturnView
  <2>2. UNCHANGED Books
    BY <1>13 DEF RemoveReturn, ReturnTransfer, Books, edVars, history
  <2> QED BY <2>1, <2>2, StillStep
<1>14. CASE RemoveDone /\ op # "delete"
  <2>1. View(l, k)'
    BY <1>14, RestoreView
  <2>2. UNCHANGED Books
    BY <1>14 DEF RemoveDone, Books, tdVars, history
  <2> QED BY <2>1, <2>2, StillStep
<1>15. CASE FailStep
  BY <1>15 DEF FailStep
<1>16. CASE FailRanOut
  BY <1>16, NotRanOut DEF View
<1> QED
  BY <1>1, <1>2, <1>3, <1>4, <1>5, <1>6, <1>7, <1>8, <1>9, <1>10, <1>11, <1>12, <1>13, <1>14,
     <1>15, <1>16 DEF Next, Client, Submission, Controller, Workloop

(* Until the error path runs the account holds.                            *)
AInv == TInv /\ Prompt /\ (~failed => \E l, k : View(l, k) /\ Account(l, k))

(* Nothing is queued or owed at the start.                                 *)
LEMMA InitAccount == Init => AInv
<1> SUFFICES ASSUME Init PROVE AInv
  OBVIOUS
<1>1. PICK s : Layout(s)
  BY InitLayout
<1>2. TInv
  BY <1>1, InitShape DEF TInv
<1>3. Prompt
  BY DEF Init, Prompt
<1>4. PICK l, k : View(l, k) /\ l = DoneLine(s) /\ k = Chains(s)
  BY <1>1 DEF View
<1>5. \A e \in Endpoint : k[e] = <<>>
  <2> SUFFICES ASSUME NEW e \in Endpoint PROVE k[e] = <<>>
    OBVIOUS
  <2>1. ~Removing /\ ~Listed(e)
    BY DEF Init, Removing, Listed
  <2>2. s[EpP(e)] = <<>>
    BY <1>1, <2>1 DEF Layout, EndpointsAre
  <2> QED BY <1>4, <2>1, <2>2 DEF Chains, ChainAt
<1>6. /\ \A e \in Endpoint : issued[e] = <<>>
      /\ \A x \in Transfer : status[x] = "new" /\ results[x] = <<>> /\ parts[x] = {}
      /\ \A t \in TD : last[t] = FALSE
      /\ sub = NoSub
  BY DEF Init
<1>7. \A e \in Endpoint : \A i : i \notin DOMAIN issued[e]
  BY <1>6
<1>8. PICK V : V = LiveIn(l, k)
  OBVIOUS
<1>9. \A t \in V : t \in TD
  BY <1>8 DEF LiveIn
<1>10. IssuedOnce /\ Pipe!AnsweredOnce
  BY <1>6, <1>7 DEF IssuedOnce, Pipe!AnsweredOnce
<1>11. Uncopied(V) /\ Due(V) /\ Single(V) /\ Expected(V)
  BY <1>6, <1>7, <1>9 DEF Uncopied, Due, Single, Expected, On
<1>12. OwnPipe(k) /\ Open(k) /\ Unfinished(k) /\ Fresh
  <2>1. OwnPipe(k)
    BY <1>5 DEF OwnPipe, ToSet
  <2>2. Open(k)
    BY <1>5 DEF Open
  <2>3. Unfinished(k) /\ Fresh
    BY <1>6 DEF Unfinished, Fresh
  <2> QED BY <2>1, <2>2, <2>3
<1>13. Orderly(l, k)
  <2>1. OutOfTurn = {}
    BY <1>6 DEF OutOfTurn
  <2>2. InTurn(l, k, {})
    BY DEF InTurn, Ordered, Precedes
  <2>3. CopiedBeforeSuccess
    BY <1>6 DEF CopiedBeforeSuccess
  <2>4. Pipe!SuccessInOrder
    BY <1>7 DEF Pipe!SuccessInOrder
  <2> QED BY <2>1, <2>2, <2>3, <2>4 DEF Orderly
<1>14. Account(l, k)
  BY <1>8, <1>10, <1>11, <1>12, <1>13 DEF Account
<1> QED BY <1>2, <1>3, <1>4, <1>14 DEF AInv

(* The account is kept, and until the error path runs every step is one of *)
(* the pipe.                                                               *)
LEMMA AccountInductive ==
  ASSUME "abort" \notin ResubmitAfter, AInv, [Next]_vars
  PROVE  AInv' /\ (PromptHandler /\ ~failed' => [Pipe!Next]_(Pipe!vars))
<1>1. TInv' /\ Shape
  BY TInvInductive DEF AInv, TInv
<1>2. CASE UNCHANGED vars
  <2>1. UNCHANGED Seen /\ UNCHANGED Books /\ UNCHANGED Pipe!vars /\ UNCHANGED <<failed, wdh, writeDoneHead>>
    BY <1>2 DEF Seen, Books, Pipe!vars, vars, tdVars, edVars, hcVars, wlVars, history
  <2>2. Prompt'
    BY <2>1 DEF AInv, Prompt
  <2>3. ASSUME ~failed PROVE \E l, k : View(l, k)' /\ Account(l, k)'
    <3>1. PICK l, k : View(l, k) /\ Account(l, k)
      BY <2>3 DEF AInv
    <3>2. PICK s : Layout(s) /\ l = DoneLine(s) /\ k = Chains(s)
      BY <3>1 DEF View
    <3>3. Layout(s)'
      BY <2>1, <3>2, LayoutKept
    <3>4. View(l, k)'
      BY <1>1, <2>1, <3>2, <3>3, SameView DEF Seen, Removing
    <3>5. Account(l, k)'
      BY <2>1, <3>1, AccountMoved
    <3> QED BY <3>4, <3>5
  <2> QED BY <1>1, <2>1, <2>2, <2>3 DEF AInv
<1>3. CASE Next
  <2>1. failed => failed'
    BY <1>3 DEF Next, Client, Submission, Controller, Workloop,
       CreateEndpoint, SubmitStalled, SubmitStart, RemovalStart, SubmitChunk, SubmitFails,
       HCStart, HCRetire, HCStop, HCWriteback, FilterInterrupt, HandleInterrupt,
       CompleteTransfer, HandlerReturn, FailTransfer, Quiesced, FailStep, FailRanOut,
       SleepDone, RemoveStep, RemoveReturn, RemoveDone, history
  <2>2. Prompt'
    BY <1>3, PromptStep DEF AInv
  <2>3. CASE failed'
    BY <1>1, <2>2, <2>3 DEF AInv
  <2>4. CASE ~failed'
    <3>1. PICK l, k : View(l, k) /\ Account(l, k)
      BY <2>1, <2>4 DEF AInv
    <3>2. /\ \E l2, k2 : View(l2, k2)' /\ Account(l2, k2)'
          /\ PromptHandler => [Pipe!Next]_(Pipe!vars)
      BY <1>1, <1>3, <2>1, <2>4, <3>1, AccountStep DEF AInv
    <3> QED BY <1>1, <2>2, <3>2 DEF AInv
  <2> QED BY <2>3, <2>4
<1> QED BY <1>2, <1>3

(* The account holds, until the error path runs.                           *)
LEMMA AccountHolds ==
  ASSUME "abort" \notin ResubmitAfter
  PROVE  Spec => []AInv
<1>1. Init => AInv
  BY InitAccount
<1>2. AInv /\ [Next]_vars => AInv'
  BY AccountInductive
<1> QED BY <1>1, <1>2, PTL DEF Spec

(* Until the error path runs, no completion is called twice, and none for a*)
(* transfer whose submission was refused or is still going on: through     *)
(* chunks, retirement in any order of the endpoints, the filter's merge,   *)
(* aborts and deletes, for any number of transfers, TDs and endpoints. It  *)
(* assumes that no completion submits to an endpoint during its abort.     *)
(* (FailStep and FailRanOut, the error path, call a completion again.)     *)
THEOREM OneAnswerUntilFailure ==
  ASSUME "abort" \notin ResubmitAfter
  PROVE  Spec => [](failed \/ Pipe!AnsweredOnce)
<1>1. AInv => failed \/ Pipe!AnsweredOnce
  BY DEF AInv, Account
<1> QED BY <1>1, AccountHolds, PTL

(* Until the error path runs, and with a handler that takes each writeback *)
(* over before the next one, a completion called with success finds all the*)
(* data of its transfer copied and everything its pipe accepted before     *)
(* already answered: the filter's merge keeps the order of the TDs, so the *)
(* last chunk of a transfer is processed after all its other chunks.       *)
THEOREM WholeSuccessUntilFailure ==
  ASSUME "abort" \notin ResubmitAfter, PromptHandler
  PROVE  Spec => [](failed \/ (CopiedBeforeSuccess /\ Pipe!SuccessInOrder))
<1>1. AInv => failed \/ (CopiedBeforeSuccess /\ Pipe!SuccessInOrder)
  BY DEF AInv, Account, Orderly
<1> QED BY <1>1, AccountHolds, PTL

(* Devices that answer without error never bring the error path about.     *)
NoError == ~failed /\ pc \notin {"quiesce", "fail", "failReturn"} /\ \A t \in TD : cc[t] # "error"

(* Only the controller sets an error, and only an error starts the error   *)
(* path.                                                                   *)
LEMMA NoErrorStep ==
  ASSUME ~TransferErrors, Shape, NoError, [Next]_vars
  PROVE  NoError'
<1>0. cc \in [TD -> {"notAccessed", "ok", "error"}]
  BY DEF Shape, TypeOK
<1>1. CASE UNCHANGED vars
  BY <1>1 DEF NoError, vars, tdVars, wlVars, history
<1>2. CASE Client \/ Submission
  <2>1. CASE UNCHANGED cc
    <3>1. failed' = failed /\ pc' \in {pc, "sleep"}
      BY <1>2 DEF Client, Submission, CreateEndpoint, SubmitStalled, SubmitStart, RemovalStart,
         SubmitChunk, SubmitFails, wlVars, history
    <3> QED BY <2>1, <3>1 DEF NoError
  <2>2. CASE SubmitChunk
    <3>1. cc' = [cc EXCEPT ![tail[sub.ep]] = "notAccessed"] /\ UNCHANGED <<failed, pc>>
      BY <2>2 DEF SubmitChunk, wlVars
    <3> QED BY <1>0, <3>1 DEF NoError
  <2>3. UNCHANGED cc \/ SubmitChunk
    BY <1>2 DEF Client, Submission, CreateEndpoint, SubmitStalled, SubmitStart, RemovalStart, SubmitFails, tdVars
  <2> QED BY <2>1, <2>2, <2>3
<1>3. CASE \E e \in Endpoint, code \in {"ok", "error"} : HCRetire(e, code)
  <2>1. PICK e \in Endpoint, code \in {"ok", "error"} : HCRetire(e, code)
    BY <1>3
  <2>2. cc' = [cc EXCEPT ![serving.td] = code] /\ code # "error" /\ UNCHANGED <<failed, pc>>
    BY <2>1 DEF HCRetire, wlVars, history
  <2> QED BY <1>0, <2>2 DEF NoError
<1>4. CASE (\E e \in Endpoint : HCStart(e)) \/ HCStop \/ HCWriteback \/ FilterInterrupt
  <2>1. UNCHANGED <<cc, pc, failed>>
    BY <1>4 DEF HCStart, HCStop, HCWriteback, FilterInterrupt, tdVars, wlVars, history
  <2> QED BY <2>1 DEF NoError
<1>5. CASE FailTransfer \/ FailStep \/ FailRanOut \/ Quiesced
  <2>1. pc = "process" /\ cc[curr] = "error"
    BY <1>5 DEF FailTransfer, FailStep, FailRanOut, Quiesced, NoError
  <2>2. curr \in TD
    BY <2>1 DEF Shape, Control
  <2> QED BY <2>1, <2>2 DEF NoError
<1>6. CASE HandleInterrupt \/ CompleteTransfer \/ HandlerReturn \/ SleepDone \/ RemoveStep \/ RemoveReturn
             \/ RemoveDone
  <2>1. UNCHANGED <<cc, failed>>
    BY <1>6 DEF HandleInterrupt, CompleteTransfer, HandlerReturn, SleepDone, RemoveStep, RemoveReturn,
       RemoveDone, ReturnTransfer, tdVars, history
  <2>2. pc' \notin {"quiesce", "fail", "failReturn"}
    BY <1>6 DEF HandleInterrupt, CompleteTransfer, HandlerReturn, SleepDone, RemoveStep, RemoveReturn,
       RemoveDone, Continue
  <2> QED BY <2>1, <2>2 DEF NoError
<1> QED BY <1>1, <1>2, <1>3, <1>4, <1>5, <1>6 DEF Next, Controller, Workloop

(* So a driver whose devices report no error never runs it.                *)
LEMMA NoErrorHolds ==
  ASSUME "abort" \notin ResubmitAfter, ~TransferErrors
  PROVE  Spec => []NoError
<1>1. Init => NoError
  BY DEF Init, NoError
<1>2. AInv /\ NoError /\ [Next]_vars => NoError'
  BY NoErrorStep DEF AInv, TInv
<1> QED BY <1>1, <1>2, AccountHolds, PTL DEF Spec

(* A driver whose devices report no errors never runs the error path: a    *)
(* success then means that the data of every chunk is in the client's      *)
(* buffer.                                                                 *)
THEOREM CopyBeforeSuccess ==
  ASSUME "abort" \notin ResubmitAfter, PromptHandler, ~TransferErrors
  PROVE  Spec => []CopiedBeforeSuccess
<1>1. NoError => ~failed
  BY DEF NoError
<1> QED BY <1>1, WholeSuccessUntilFailure, NoErrorHolds, PTL

(* Under the same conditions every step of the driver, chunk by chunk and  *)
(* TD by TD, is a step of the abstract USB pipe of USBPipe or invisible to *)
(* its clients: submissions are refused or accepted in order, each accepted*)
(* transfer is answered once, with success only after everything accepted  *)
(* earlier.                                                                *)
THEOREM DriverIsPipe ==
  ASSUME "abort" \notin ResubmitAfter, PromptHandler, ~TransferErrors
  PROVE  Spec => Pipe!Spec
<1>1. Init => Pipe!Init
  BY DEF Init, Pipe!Init
<1>2. AInv /\ NoError' /\ [Next]_vars => [Pipe!Next]_(Pipe!vars)
  BY AccountInductive DEF NoError
<1> QED BY <1>1, <1>2, AccountHolds, NoErrorHolds, PTL DEF Spec, Pipe!Spec
=============================================================================
