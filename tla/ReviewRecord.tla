------------------------------ MODULE ReviewRecord ------------------------------
(***************************************************************************)
(* What the human-review queue promises of one queued response: it waits   *)
(* until one call decides, the decision stands from then on, and what the  *)
(* user is shown is what that decision makes of the stored response.       *)
(* Module ReviewQueue is the code.                                         *)
(***************************************************************************)

CONSTANTS
    Item,       \* the queued responses
    Call,       \* the calls that may decide
    Text,       \* what a response may say
    Draft,      \* what each response said when it was queued
    Notice,     \* what a withheld response may say
    Origin,     \* the action a response was queued with
    NoCall,     \* nobody decided
    NoText      \* no response

VARIABLES
    outcome,    \* per item: where its review stands, and which call decided
    shown       \* per item: the action and the text the user is given

vars == <<outcome, shown>>

Outcome(stage, by) == [stage |-> stage, by |-> by]

Init ==
    /\ outcome = [i \in Item |-> Outcome("absent", NoCall)]
    /\ shown = [i \in Item |-> [action |-> "none", text |-> NoText]]

Enqueue(i) ==
    /\ outcome[i] = Outcome("absent", NoCall)
    /\ outcome' = [outcome EXCEPT ![i] = Outcome("pending", NoCall)]
    /\ shown' = [shown EXCEPT ![i] = [action |-> Origin[i], text |-> Draft[i]]]

Approve(i, c) ==
    /\ outcome' = [outcome EXCEPT ![i] = Outcome("approved", c)]
    /\ shown' = [shown EXCEPT ![i].action = "answer"]

Rewrite(i, c) ==
    /\ outcome' = [outcome EXCEPT ![i] = Outcome("revised", c)]
    /\ \E text \in Text : shown' = [shown EXCEPT ![i] = [action |-> "answer", text |-> text]]

\* Withheld with the reviewer's note, or with the standard text.
Reject(i, c) ==
    /\ outcome' = [outcome EXCEPT ![i] = Outcome("rejected", c)]
    /\ \E text \in Notice : shown' = [shown EXCEPT ![i] = [action |-> "abstain", text |-> text]]

Decide(i, c) ==
    /\ outcome[i].stage = "pending"
    /\ Approve(i, c) \/ Rewrite(i, c) \/ Reject(i, c)

Next == \E i \in Item : Enqueue(i) \/ \E c \in Call : Decide(i, c)

Spec == Init /\ [][Next]_vars
================================================================================
