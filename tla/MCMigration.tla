---------------------------- MODULE MCMigration -----------------------------
(***************************************************************************)
(* The saga of Migration and the QMP dialogue of LiveTransfer side by      *)
(* side: part says which of them a behaviour is about; the other keeps its *)
(* initial state.                                                          *)
(***************************************************************************)
EXTENDS Migration, LiveTransfer

VARIABLE part

mvars == <<vars, ltVars, part>>

Saga(A) == part = "saga" /\ A /\ UNCHANGED <<ltVars, part>>

Transfer(A) == part = "transfer" /\ A /\ UNCHANGED <<vars, part>>

MCInit ==
    /\ Init /\ LtInit
    /\ part \in {"saga", "transfer"} /\ (part = "transfer" => live)

MCNext == Saga(Next) \/ Transfer(LtNext)

(* The fairness of each module, for the part that runs: its fair actions   *)
(* are numbered, and the two actions of one number share a condition.      *)
MCFair(i) == Saga(SagaFair(i)) \/ Transfer(LtFair(i))

MCSpec == MCInit /\ [][MCNext]_mvars /\ \A i \in 1 .. 4 : WF_mvars(MCFair(i))

-----------------------------------------------------------------------------
(* The saga ends: the job is completed or its retries are spent, and it    *)
(* stays so.                                                               *)
Settles == <>[](part = "saga" => job \in {"gone", "dead"})

(* Both ends of the transfer return: no wait of RunLiveSource and          *)
(* RunLiveTarget is without a deadline, and no event nobody waits for      *)
(* keeps a reply from being delivered (fanoutEvents).                      *)
TransferReturns == <>[](part = "transfer" => sq \in Returned /\ tq \in {"ok", "err"})

=============================================================================
