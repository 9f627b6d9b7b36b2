---------------------------- MODULE SubmitDialog ----------------------------
(***************************************************************************)
(* What the dialogs of the web UI that send a request promise: one request *)
(* at a time, no way out while it is outstanding, and an answer that       *)
(* either closes the dialog or leaves it open with an error.               *)
(***************************************************************************)
VARIABLES
    open,      \* the dialog is shown
    busy,      \* its request is outstanding
    failed     \* it shows an error

vars == <<open, busy, failed>>

Init == ~open /\ ~busy /\ ~failed

Open == ~open /\ open' = TRUE /\ UNCHANGED <<busy, failed>>

(* The input does not pass the checks of the dialog.                       *)
Reject == open /\ ~busy /\ failed' = TRUE /\ UNCHANGED <<open, busy>>

Submit == open /\ ~busy /\ busy' = TRUE /\ failed' = FALSE /\ UNCHANGED open

Succeed == busy /\ open' = FALSE /\ busy' = FALSE /\ UNCHANGED failed

Fail == busy /\ busy' = FALSE /\ failed' = TRUE /\ UNCHANGED open

Close == open /\ ~busy /\ open' = FALSE /\ failed' = FALSE /\ UNCHANGED busy

(* The error message is taken away.                                        *)
Dismiss == failed /\ failed' = FALSE /\ UNCHANGED <<open, busy>>

(* The whole page goes, and its requests are on their own.                 *)
Unload == open' = FALSE /\ busy' = FALSE /\ failed' = FALSE

Next == Open \/ Reject \/ Submit \/ Succeed \/ Fail \/ Close \/ Dismiss \/ Unload

Spec == Init /\ [][Next]_vars
=============================================================================
