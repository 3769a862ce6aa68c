------------------------------ MODULE Handoff -------------------------------
(***************************************************************************)
(* What a live migration promises of one guest, with no word of QMP: it    *)
(* runs on the source or on the target and never on both; it leaves the    *)
(* source only from a pause in which the target's disks became a whole     *)
(* copy, and it goes on at the target only when nobody else can write to   *)
(* those disks.  LiveTransfer implements it.                               *)
(***************************************************************************)

VARIABLES
    side,    \* where the guest is
    whole,   \* the target's disks hold all the guest wrote
    writers  \* somebody other than the guest may write to the target's disks

vars == <<side, whole, writers>>

Init == side = "source" /\ whole = FALSE /\ writers = TRUE

(* The source's guest runs and writes; a copy made earlier goes stale. *)
Write ==
    /\ side = "source" /\ whole' = FALSE /\ UNCHANGED <<side, writers>>

Pause == side = "source" /\ side' = "paused" /\ UNCHANGED <<whole, writers>>

Unpause == side = "paused" /\ side' = "source" /\ UNCHANGED <<whole, writers>>

Sync ==
    /\ side \in {"source", "paused"} /\ whole' = TRUE
    /\ UNCHANGED <<side, writers>>

(* The point of no return. *)
Send ==
    /\ side = "paused" /\ whole /\ side' = "flight"
    /\ UNCHANGED <<whole, writers>>

Isolate ==
    /\ side # "target" /\ writers' = FALSE /\ UNCHANGED <<side, whole>>

Resume ==
    /\ side = "flight" /\ ~writers /\ side' = "target"
    /\ UNCHANGED <<whole, writers>>

(* The guest's memory is lost in flight; its disks are not. *)
Drop ==
    /\ side = "flight" /\ side' = "stopped" /\ UNCHANGED whole
    /\ writers' \in {writers, FALSE}

Next ==
    \/ Write \/ Pause \/ Unpause \/ Sync \/ Send \/ Isolate \/ Resume \/ Drop

Spec == Init /\ [][Next]_vars

=============================================================================
