------------------------------ MODULE PageCalls ------------------------------
(***************************************************************************)
(* The requests of one page of the web UI.  The code of a handler before   *)
(* an await and the code after it are different actions; between them the  *)
(* request is an element of calls.  Requests are served and answered in    *)
(* any order.  A request is a record with at least the fields op, for      *)
(* (which handler awaits the answer) and status.                           *)
(***************************************************************************)
EXTENDS WebApi

CONSTANTS
    Call,       \* the places for requests: a bound on how many are outstanding
    NoCall,     \* no request
    Faults      \* what fails: see the module that extends this one

ASSUME CallAssumption == Call # {}

VARIABLE calls

FirstFree(slots) == CHOOSE c \in Call : slots[c] = NoCall

(* A request takes the first place that is free.                           *)
Free(c) == calls[c] = NoCall /\ c = FirstFree(calls)

First == CHOOSE c \in Call : TRUE

(* One request and no other.                                               *)
Only(request) == [c \in Call |-> IF c = First THEN request ELSE NoCall]

Outstanding(c, op) == calls[c] # NoCall /\ calls[c].op = op

Sent(c, op) == Outstanding(c, op) /\ calls[c].status = "sent"

Answered(c, op) == Outstanding(c, op) /\ calls[c].status # "sent"

AnsweredTo(c, op, for) == Answered(c, op) /\ calls[c].for = for

Done(c) == calls' = [calls EXCEPT ![c] = NoCall]
=============================================================================
