------------------------------- MODULE USBPipe -------------------------------
(***************************************************************************)
(* What a client of a USB host controller driver, WiiOHCI or WiiEHCI, sees *)
(* of its pipes, and nothing of how transfers are executed: a transfer is  *)
(* accepted or refused; the completion of an accepted one is called once;  *)
(* on one pipe, a transfer succeeds only after all earlier ones have been  *)
(* answered.                                                               *)
(***************************************************************************)
EXTENDS Naturals, Sequences

CONSTANTS Transfer, Endpoint

VARIABLES
  status,    \* the answer to the submission
  results,   \* the statuses the completion was called with
  issued     \* per pipe, the accepted transfers in order

vars == <<status, results, issued>>

Init ==
  /\ status = [x \in Transfer |-> "new"]
  /\ results = [x \in Transfer |-> <<>>]
  /\ issued = [e \in Endpoint |-> <<>>]

Accept(x, e) ==
  /\ status[x] = "new"
  /\ status' = [status EXCEPT ![x] = "accepted"]
  /\ issued' = [issued EXCEPT ![e] = Append(@, x)]
  /\ UNCHANGED results

Refuse(x) ==
  /\ status[x] = "new"
  /\ status' = [status EXCEPT ![x] = "refused"]
  /\ UNCHANGED <<results, issued>>

(* The i-th transfer of pipe e is answered.                                *)
Finish(e, i) ==
  /\ i \in DOMAIN issued[e]
  /\ results[issued[e][i]] = <<>>
  /\ \/ results' = [results EXCEPT ![issued[e][i]] = <<"aborted">>]
     \/ results' = [results EXCEPT ![issued[e][i]] = <<"error">>]
     \/ /\ \A j \in 1..(i - 1) : results[issued[e][j]] # <<>>
        /\ results' = [results EXCEPT ![issued[e][i]] = <<"ok">>]
  /\ UNCHANGED <<status, issued>>

Next ==
  \/ \E x \in Transfer : Refuse(x) \/ \E e \in Endpoint : Accept(x, e)
  \/ \E e \in Endpoint : \E i \in DOMAIN issued[e] : Finish(e, i)

Spec == Init /\ [][Next]_vars

(* No accepted transfer waits for ever.                                    *)
FairSpec ==
  Spec /\ \A e \in Endpoint : WF_vars(\E i \in DOMAIN issued[e] : Finish(e, i))

(* A pipe is deleted.  A driver may drop transfers that clients queue at   *)
(* that moment: those are never answered.  A pipe that is created again    *)
(* later starts anew.                                                      *)
Delete(e) ==
  /\ issued' = [issued EXCEPT ![e] = <<>>]
  /\ UNCHANGED <<status, results>>

DeletingNext == Next \/ \E e \in Endpoint : Delete(e)

DeletingSpec == Init /\ [][DeletingNext]_vars

-----------------------------------------------------------------------------
(* The types of the variables. *)
TypeOK ==
  /\ status \in [Transfer -> {"new", "accepted", "refused"}]
  /\ results \in [Transfer -> Seq({"ok", "error", "aborted"})]
  /\ issued \in [Endpoint -> Seq(Transfer)]

(* A completion is called at most once, and only for a transfer whose      *)
(* submission returned success: a client that was refused may release its  *)
(* buffer at once.                                                         *)
AnsweredOnce ==
  \A x \in Transfer : /\ Len(results[x]) <= 1
                      /\ results[x] # <<>> => status[x] = "accepted"

(* On one pipe a success says that all earlier transfers were answered.    *)
SuccessInOrder ==
  \A e \in Endpoint : \A i, j \in DOMAIN issued[e] :
    i < j /\ results[issued[e][j]] = <<"ok">> => results[issued[e][i]] # <<>>
=============================================================================
