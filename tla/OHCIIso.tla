------------------------------- MODULE OHCIIso -------------------------------
(***************************************************************************)
(* Isochronous endpoints and transfers of WiiOHCI.                         *)
(*                                                                         *)
(* A request is a run of frames; doIsochTransfer gives each frame a TD of  *)
(* its own and links the TDs behind the tail of the endpoint.  The         *)
(* controller serves the TD at the head when its frame has come and puts   *)
(* it on its done list.  The interrupt filter sorts what was written back: *)
(* outbound TDs go to the workloop's queue (done), inbound ones to a queue *)
(* (isoIn) that the timer handleIsoInTimer empties into done.  A second    *)
(* timer, handleIsoOutTimer, walks the chains of the endpoints and copies  *)
(* the data of the frames that are about to be sent.  Each timer has a     *)
(* workloop of its own, so neither is serialised with the gate.            *)
(*                                                                         *)
(* The filter is one step: on one core no thread runs during it.  The      *)
(* watchdog, the other taker of the done list, is in OHCIDoneQueue.        *)
(***************************************************************************)
EXTENDS Integers, FiniteSets, Sequences, SequencesExt, Functions

CONSTANTS
  Endpoint,     \* isochronous endpoints
  InEndpoint,   \* the inbound ones
  TD,           \* isochronous TDs; what cannot be allocated is out of memory
  FrameMod,     \* frame numbers count modulo this (2^16)
  FirstFrame,   \* the frame number the model begins with
  Window,       \* a TD more than this many frames late is taken for a future one
  Offsets,      \* how far ahead of the present frame a request may start
  MaxFrames,    \* bound: frames of a request
  MaxRequests,  \* bound: requests
  MaxCalls      \* bound: calls that create, resize, abort or delete, or fail

ASSUME EndpointAssumption == InEndpoint \subseteq Endpoint
ASSUME TDAssumption == TD \subseteq Nat \ {0} /\ IsFiniteSet(TD)
ASSUME FrameAssumption ==
  /\ FrameMod \in Nat \ {0} /\ FirstFrame \in 0 .. FrameMod - 1
  /\ Window \in 1 .. FrameMod
  /\ Offsets \subseteq Nat /\ {MaxFrames, MaxRequests, MaxCalls} \subseteq Nat

Null == 0
Request == 1 .. MaxRequests

VARIABLES
  frame,      \* HccaFrameNumber
  list,       \* the isochronous endpoint list, from its head
  chain,      \* chain[e]: TDs from the head of the endpoint to its tail
  skip,       \* endpoints the controller is to skip
  isoOn,      \* IsochronousEnable in HcControl
  inOn,       \* _isoInTimerEventSource is enabled
  outOn,      \* _isoOutTimerEventSource is enabled
  td,         \* td[t]: what the driver keeps of a TD
  free,       \* _freeIsoTransferHeadPtr
  leaked,     \* TDs a failed submission took and nothing refers to
  hcDone,     \* TDs the controller retired, oldest first
  isoIn,      \* _isoInHeadPtr
  done,       \* _writeDoneHeadPtr
  work,       \* what completeTransferQueue still has to process
  walk,       \* where handleIsoOutTimer stands: endpoints to do, the TD, and
              \* whether it began in an earlier frame
  walked,     \* it has gone through the whole list in this frame
  gate,       \* a call sleeping with the gate held: its kind, endpoint, frames
  callback,   \* the endpoint whose completion is being called, in a set
  asked,      \* requests submitted so far
  open,       \* requests accepted and not answered
  calls,      \* other calls so far
  mishap,     \* history: the walk left the chain
  stale,      \* history: frames sent without their data
  early,      \* history: requests answered before all of their frames were
  overtaken,  \* history: requests with a frame put before an older one
  cut         \* history: requests a removal answered

lists   == <<isoIn, done, work>>
epVars  == <<list, chain, skip, isoOn, inOn, outOn>>
tdVars  == <<td, free, leaked>>
reqVars == <<asked, open, early, overtaken, cut>>
vars == <<frame, epVars, tdVars, hcDone, lists, walk, walked, gate, callback,
          reqVars, calls, mishap, stale>>

-----------------------------------------------------------------------------
SeqSet(s) == ToSet(s)
TransferTail(e) == Last(chain[e])
Queued(e) == Front(chain[e])

Fresh == [next |-> Null, start |-> 0, req |-> 0, last |-> FALSE,
          copied |-> FALSE, in |-> FALSE]

(* The ones on their way from the controller to their completion, the one  *)
(* that gets there first in front.                                         *)
Line == work \o done \o isoIn \o hcDone
Retired == SeqSet(Line)

Places == {free, leaked, Retired} \cup {SeqSet(chain[e]) : e \in Endpoint}

Alive == mishap = {}
Gated == gate.kind = "none" /\ work = <<>> /\ callback = {} /\ Alive

(* getFreeTransfer takes the TDs one by one; which is of no account.       *)
Taken(n) == CHOOSE ts \in [1 .. n -> free] : IsInjective(ts)

(* The members of s that are in S, in their order.                         *)
Among(s, S) == FlattenSeq([i \in DOMAIN s |-> IF s[i] \in S THEN <<s[i]>> ELSE <<>>])

(* returnTransfer relinks the TD to the free list.                         *)
Returned(S) == [t \in TD |-> IF t \in S THEN [td[t] EXCEPT !.next = Null] ELSE td[t]]

-----------------------------------------------------------------------------
(* Endpoints.                                                              *)

Linked == SeqSet(list)

(* UIMCreateIsochEndpoint for an endpoint that is not there: it comes to   *)
(* the head of the list, and the first one starts the timers.              *)
(* Mutant: only the outbound timer is started.                             *)
StartOutTimer == outOn' = TRUE /\ UNCHANGED inOn

StartTimers == inOn' = TRUE /\ outOn' = TRUE

Create(e) ==
  /\ Gated /\ calls < MaxCalls
  /\ e \notin Linked /\ free # {}
  /\ list' = <<e>> \o list
  /\ chain' = [chain EXCEPT ![e] = Taken(1)]
  /\ td' = [td EXCEPT ![Head(Taken(1))] = Fresh]
  /\ free' = free \ SeqSet(Taken(1))
  /\ skip' = skip \ {e}
  /\ IF list = <<>> THEN StartTimers ELSE UNCHANGED <<inOn, outOn>>
  /\ calls' = calls + 1
  /\ UNCHANGED <<frame, isoOn, leaked, hcDone, lists, walk, walked, gate,
                 callback, reqVars, mishap, stale>>

(* UIMAbortEndpoint and UIMDeleteEndpoint skip the endpoint and sleep; the *)
(* deletion stops isochronous processing and the outbound timer meanwhile. *)
Begin(kind, e) ==
  /\ Gated /\ calls < MaxCalls /\ e \in Linked
  /\ skip' = skip \cup {e}
  /\ gate' = [kind |-> kind, e |-> e, frames |-> 0]
  /\ calls' = calls + 1
  /\ IF kind = "delete" THEN isoOn' = FALSE /\ outOn' = FALSE
                        ELSE UNCHANGED <<isoOn, outOn>>
  /\ UNCHANGED <<frame, list, chain, inOn, tdVars, hcDone, lists,
                 walk, walked, callback, reqVars, mishap, stale>>

(* removeEndpointTransfers answers the requests whose last frame it takes. *)
RequestsOf(S) == {td[t].req : t \in {u \in S : td[u].last}}

Answer(R, others) ==
  /\ open' = open \ R
  /\ early' = early \cup {r \in R : r \notin open \/ \E t \in others : td[t].req = r}

RemoveTransfers(e) ==
  LET gone == RequestsOf(SeqSet(Queued(e))) IN
  /\ Answer(gone, Retired)
  /\ cut' = cut \cup gone
  /\ UNCHANGED <<asked, overtaken>>

AbortEnds ==
  LET e == gate.e IN
  /\ gate.kind = "abort" /\ Alive
  /\ RemoveTransfers(e)
  /\ chain' = [chain EXCEPT ![e] = <<TransferTail(e)>>]
  /\ free' = free \cup SeqSet(Queued(e))
  /\ td' = Returned(SeqSet(Queued(e)))
  /\ skip' = skip \ {e}
  /\ gate' = [gate EXCEPT !.kind = "none"]
  /\ UNCHANGED <<frame, list, isoOn, inOn, outOn, leaked, hcDone,
                 lists, walk, walked, callback, calls, mishap, stale>>

(* The sleep is longer than a pass of the outbound timer.                  *)
(* Mutant: the timers go on without endpoints.                             *)
RestartTimersAlways(l) == outOn' = TRUE /\ UNCHANGED inOn

RestartTimers(l) == /\ outOn' = (l # <<>>)
                    /\ inOn' = (inOn /\ l # <<>>)

DeleteEnds ==
  LET e == gate.e
      l == RemoveFirst(list, e) IN
  /\ gate.kind = "delete" /\ walk.to = <<>> /\ Alive
  /\ list' = l
  /\ isoOn' = TRUE
  /\ RestartTimers(l)
  /\ RemoveTransfers(e)
  /\ chain' = [chain EXCEPT ![e] = <<>>]
  /\ free' = free \cup SeqSet(chain[e])
  /\ td' = Returned(SeqSet(chain[e]))
  /\ gate' = [gate EXCEPT !.kind = "none"]
  /\ UNCHANGED <<frame, skip, leaked, hcDone, lists, walk, walked,
                 callback, calls, mishap, stale>>

-----------------------------------------------------------------------------
(* doIsochTransfer: in the gate, or from a completion on its endpoint.     *)

MaySubmit(e) == \/ Gated /\ e \in Linked
                \/ Alive /\ e \in callback /\ e \in Linked

(* The tail becomes the TD of the first frame; n new TDs follow, the last  *)
(* of them the new tail.                                                   *)
Described(e, s, n, r) ==
  LET ts == <<TransferTail(e)>> \o Taken(n) IN
  [t \in TD |->
     IF t \in SeqSet(Front(ts))
       THEN LET i == CHOOSE k \in 1 .. n : ts[k] = t IN
            [next |-> ts[i + 1], start |-> (s + i - 1) % FrameMod, req |-> r,
             last |-> i = n, copied |-> FALSE, in |-> e \in InEndpoint]
     ELSE IF t = Last(ts) THEN Fresh
     ELSE td[t]]

Submit(e, o, n) ==
  /\ MaySubmit(e)
  /\ asked < MaxRequests
  /\ Cardinality(free) >= n
  /\ asked' = asked + 1
  /\ open' = open \cup {asked + 1}
  /\ td' = Described(e, frame + o, n, asked + 1)
  /\ chain' = [chain EXCEPT ![e] = @ \o Taken(n)]
  /\ free' = free \ SeqSet(Taken(n))
  /\ UNCHANGED <<frame, list, skip, isoOn, inOn, outOn, leaked,
                 hcDone, lists, walk, walked, gate, callback, early, overtaken,
                 cut, calls, mishap, stale>>

(* It runs out of buffers or TDs: the tail of the endpoint stays, and the  *)
(* k TDs that were taken are referred to by nothing ("TODO").              *)
SubmitFails(e, k) ==
  /\ MaySubmit(e) /\ calls < MaxCalls
  /\ k <= Cardinality(free)
  /\ leaked' = leaked \cup SeqSet(Taken(k))
  /\ free' = free \ SeqSet(Taken(k))
  /\ calls' = calls + 1
  /\ UNCHANGED <<frame, epVars, td, hcDone, lists, walk, walked, gate, callback,
                 reqVars, mishap, stale>>

-----------------------------------------------------------------------------
(* The controller.  In every frame it looks at the head of every endpoint: *)
(* it serves the TD whose frame it is, retires one that is too late, and   *)
(* leaves one of a later frame.                                            *)

Lateness(t, f) == (f - td[t].start) % FrameMod

Due(e, f) == /\ e \in Linked /\ e \notin skip /\ isoOn
             /\ Queued(e) # <<>>
             /\ Lateness(Head(chain[e]), f) < Window

(* Bound: frames and passes of the timer that find nothing queued are left *)
(* out.                                                                    *)
(* Assumption: handleIsoOutTimer goes through its list in every frame (its *)
(* period is half a frame), and a call sleeps two frames.                  *)
Busy == \E e \in Linked : Queued(e) # <<>>

Prompt == /\ outOn /\ Busy => walked
          /\ gate.kind # "none" => gate.frames < 2

Frame ==
  LET f == (frame + 1) % FrameMod
      due == Among(list, {e \in Linked : Due(e, f)})
      now == [i \in DOMAIN due |-> Head(chain[due[i]])]
      sent == {t \in SeqSet(now) : Lateness(t, f) = 0 /\ ~td[t].in}
  IN
  /\ Prompt /\ Alive /\ (Busy \/ gate.kind # "none")
  /\ frame' = f
  /\ chain' = [e \in Endpoint |-> IF e \in SeqSet(due) THEN Tail(chain[e])
                                  ELSE chain[e]]
  /\ hcDone' = hcDone \o now
  /\ stale' = stale \cup {f : t \in {u \in sent : ~td[u].copied}}
  /\ walked' = FALSE
  /\ walk' = IF walk.to = <<>> THEN walk ELSE [walk EXCEPT !.old = TRUE]
  /\ gate' = IF gate.kind = "none" THEN gate ELSE [gate EXCEPT !.frames = @ + 1]
  /\ UNCHANGED <<list, skip, isoOn, inOn, outOn, tdVars,
                 lists, callback, reqVars, calls, mishap>>

-----------------------------------------------------------------------------
(* filterInterrupt and queueDoneHeadTransfers.  The controller's list is   *)
(* newest first and is reversed; a new batch goes before what is queued.   *)

(* Mutant: the batch is left newest first.                                 *)
InOrderNewest(batch) == Reverse(batch)

InOrder(batch) == batch

Requests(s) == {td[t].req : t \in SeqSet(s)}

FilterInterrupt ==
  LET in == Among(hcDone, {t \in TD : td[t].in})
      out == Among(hcDone, {t \in TD : ~td[t].in})
  IN
  /\ hcDone # <<>> /\ Alive
  /\ isoIn' = InOrder(in) \o isoIn
  /\ done' = InOrder(out) \o done
  /\ hcDone' = <<>>
  /\ td' = Returned(SeqSet(hcDone))
  /\ overtaken' = overtaken \cup (Requests(in) \cap Requests(isoIn))
                            \cup (Requests(out) \cap Requests(done))
  /\ UNCHANGED <<frame, epVars, free, leaked, work, walk, walked,
                 gate, callback, asked, open, early, cut, calls, mishap,
                 stale>>

(* handleIsoInTimer copies the data of its list and links it before the    *)
(* workloop's queue.                                                       *)
IsoInTimer ==
  /\ inOn /\ isoIn # <<>> /\ Alive
  /\ done' = isoIn \o done
  /\ isoIn' = <<>>
  /\ overtaken' = overtaken \cup (Requests(isoIn) \cap Requests(done))
  /\ UNCHANGED <<frame, epVars, tdVars, hcDone, work, walk, walked, gate,
                 callback, asked, open, early, cut, calls, mishap, stale>>

-----------------------------------------------------------------------------
(* handleInterrupt and completeTransferQueue, in the gate.                 *)

HandleInterrupt ==
  /\ Gated /\ done # <<>>
  /\ work' = done
  /\ done' = <<>>
  /\ UNCHANGED <<frame, epVars, tdVars, hcDone, isoIn, walk, walked,
                 gate, callback, reqVars, calls, mishap, stale>>

(* completeIsochTransfer fills in the frame, and calls the completion if   *)
(* it is the last of its request; the TD is returned after that.           *)
Complete ==
  LET t == Head(work) IN
  /\ work # <<>> /\ callback = {} /\ Alive
  /\ work' = Tail(work)
  /\ free' = free \cup {t}
  /\ td' = Returned({t})
  /\ IF td[t].last
       THEN /\ Answer({td[t].req}, Retired \ {t})
            /\ callback' = {e \in Linked : (e \in InEndpoint) = td[t].in}
       ELSE UNCHANGED <<open, early, callback>>
  /\ UNCHANGED <<frame, epVars, leaked, hcDone, isoIn, done, walk,
                 walked, gate, asked, overtaken, cut, calls, mishap, stale>>

CallbackReturns ==
  /\ callback # {} /\ Alive
  /\ callback' = {}
  /\ UNCHANGED <<frame, epVars, tdVars, hcDone, lists, walk, walked, gate,
                 reqVars, calls, mishap, stale>>

-----------------------------------------------------------------------------
(* handleIsoOutTimer.                                                      *)

NoWalk == [to |-> <<>>, t |-> Null, old |-> FALSE]

WalkBegins ==
  /\ outOn /\ walk.to = <<>> /\ ~walked /\ Busy /\ Alive
  /\ walk' = [to |-> list, t |-> Head(chain[Head(list)]), old |-> FALSE]
  /\ UNCHANGED <<frame, epVars, tdVars, hcDone, lists, walked, gate, callback, reqVars,
                 calls, mishap, stale>>

(* The copy is made when the frame number is above the present one by less *)
(* than three.                                                             *)
(* Mutant: the comparison is the wrong way round.                          *)
SoonPast(t) == td[t].start < frame /\ frame - td[t].start < 3

Soon(t) == td[t].start > frame /\ td[t].start - frame < 3

WalkTD ==
  LET e == Head(walk.to)
      t == walk.t
  IN
  /\ walk.to # <<>> /\ Alive /\ t # TransferTail(e)
  /\ td' = IF ~td[t].in /\ ~td[t].copied /\ Soon(t)
             THEN [td EXCEPT ![t].copied = TRUE] ELSE td
  /\ IF td[t].next = Null
       THEN mishap' = {"strayed"} /\ UNCHANGED walk
       ELSE walk' = [walk EXCEPT !.t = td[t].next] /\ UNCHANGED mishap
  /\ UNCHANGED <<frame, epVars, free, leaked, hcDone, lists, walked, gate,
                 callback, reqVars, calls, stale>>

WalkEndpoint ==
  LET rest == Tail(walk.to) IN
  /\ walk.to # <<>> /\ Alive /\ walk.t = TransferTail(Head(walk.to))
  /\ IF rest = <<>>
       THEN walk' = NoWalk /\ walked' = ~walk.old
       ELSE /\ walk' = [walk EXCEPT !.to = rest, !.t = Head(chain[Head(rest)])]
            /\ UNCHANGED walked
  /\ UNCHANGED <<frame, epVars, tdVars, hcDone, lists, gate, callback, reqVars,
                 calls, mishap, stale>>

OutTimer == WalkBegins \/ WalkTD \/ WalkEndpoint

-----------------------------------------------------------------------------
Init ==
  /\ frame = FirstFrame
  /\ list = <<>> /\ chain = [e \in Endpoint |-> <<>>]
  /\ skip = {} /\ isoOn = TRUE /\ inOn = FALSE /\ outOn = FALSE
  /\ td = [t \in TD |-> Fresh] /\ free = TD /\ leaked = {}
  /\ hcDone = <<>> /\ isoIn = <<>> /\ done = <<>> /\ work = <<>>
  /\ walk = NoWalk /\ walked = FALSE
  /\ gate = [kind |-> "none", e |-> 1, frames |-> 0]
  /\ callback = {}
  /\ asked = 0 /\ open = {} /\ calls = 0
  /\ mishap = {} /\ stale = {} /\ early = {} /\ overtaken = {} /\ cut = {}

Call(e) ==
  \/ Create(e)
  \/ \E kind \in {"abort", "delete"} : Begin(kind, e)
  \/ \E n \in 1 .. MaxFrames : \/ \E o \in Offsets : Submit(e, o, n)
                               \/ SubmitFails(e, n - 1)

Workloop == AbortEnds \/ DeleteEnds \/ HandleInterrupt \/ Complete \/ CallbackReturns

Next == \/ \E e \in Endpoint : Call(e)
        \/ Frame \/ FilterInterrupt \/ IsoInTimer \/ Workloop \/ OutTimer

Spec == Init /\ [][Next]_vars

(* The controller counts frames, interrupts are taken, the timers run and  *)
(* the workloop does its work.                                             *)
Fairness ==
  /\ WF_vars(Frame) /\ WF_vars(FilterInterrupt)
  /\ WF_vars(IsoInTimer) /\ WF_vars(Workloop) /\ WF_vars(OutTimer)

FairSpec == Spec /\ Fairness

-----------------------------------------------------------------------------
(* Every TD is in one place: free, in the chain of one endpoint (its tail  *)
(* included), retired and in one queue, or lost to a failed submission;    *)
(* the timers are enabled if and only if there is an endpoint.             *)
EveryTDInOnePlace ==
  /\ UNION Places = TD
  /\ IsInjective(Line) /\ free \cap leaked = {} /\ Retired \cap (free \cup leaked) = {}
  /\ \A e \in Endpoint :
       /\ IsInjective(chain[e])
       /\ SeqSet(chain[e]) \cap (free \cup leaked \cup Retired) = {}
       /\ \A d \in Endpoint \ {e} : SeqSet(chain[e]) \cap SeqSet(chain[d]) = {}
  /\ gate.kind # "delete" => inOn = (list # <<>>) /\ outOn = (list # <<>>)

(* An outbound frame is sent with its data, if it was asked for two frames *)
(* ahead; but for the frame after the number wraps, which no present frame *)
(* is below.                                                               *)
SentWithData == stale \subseteq {0}

(* A request is answered once, after all of its frames were filled in;     *)
(* unless a newer batch went before an older one, or a removal answered    *)
(* it while frames were on their way.                                      *)
FramesBeforeAnswer == early \subseteq overtaken \cup cut

(* Every accepted request is answered, unless the last endpoint goes and   *)
(* its timer with it.                                                      *)
AcceptedIsAnswered ==
  \A r \in Request : r \in open ~> (r \notin open \/ list = <<>> \/ ~Alive)
=============================================================================
