------------------------------- MODULE ReviewQueue -------------------------------
(***************************************************************************)
(* The escalation queue: what persist_request puts there and what          *)
(* POST /v1/review/queue/{id}/resolve does to it.  resolve is a plain      *)
(* function, so calls run side by side in the thread pool and in several   *)
(* processes, each in a transaction of its own.  PostgreSQL runs them READ *)
(* COMMITTED, the queue item is read without a lock, and the ORM writes at *)
(* commit only the attributes whose value differs from the one it loaded.  *)
(*                                                                         *)
(* Nothing ties a call to a person: clients share an API key, submit twice *)
(* and send the same text.  So the model has calls, any number of which    *)
(* may come from one subject, and any text may be the text of any of them. *)
(* One tenant: the query that loads the item refuses the others.           *)
(***************************************************************************)

CONSTANTS
    Item,       \* rows of escalation_queue, each with its request and trace
    Call,       \* calls of resolve, by whomever
    Text,       \* what a response may say; none of them is empty
    Draft,      \* the text each request was stored with, banner included
    Notice,     \* the withholding texts, by the note they quote
    Origin,     \* the action each request was stored with
    NoCall,     \* the null of the columns a decision fills
    NoText      \* no response, no revision

ASSUME OriginAssumption == Origin \in [Item -> {"escalate", "abstain"}]
ASSUME TextAssumption ==
    /\ Draft \in [Item -> Text] /\ Notice \subseteq Text
    /\ NoText \notin Text /\ NoCall \notin Call

VARIABLES
    item,       \* escalation_queue: the status, and the call whose decision,
                \* note, reviewer and time the row has
    request,    \* requests: action, final_response
    trace,      \* audit_traces: the call of the "human_review" entry
    asks,       \* the body of each call: item, decision and the text it brings
    stage,      \* where each call stands
    seen        \* the request as the call loaded it

vars == <<item, request, trace, asks, stage, seen>>

Decisions == {"approved", "revised", "rejected"}
Actions == {"none", "answer", "abstain", "escalate"}

Request == [action : Actions, text : Text \cup {NoText}]
NoRequest == [action |-> "none", text |-> NoText]

\* ResolveRequest: a revision brings its text, a rejection its notice.
TextsFor(decision) ==
    CASE decision = "approved" -> {NoText}
      [] decision = "revised"  -> Text
      [] decision = "rejected" -> Notice

Body == {b \in [item : Item, decision : Decisions, text : Text \cup {NoText}] :
            b.text \in TextsFor(b.decision)}

Init ==
    /\ item = [i \in Item |-> [status |-> "absent", review |-> NoCall]]
    /\ request = [i \in Item |-> NoRequest]
    /\ trace = [i \in Item |-> NoCall]
    /\ asks \in [Call -> Body]
    /\ stage = [c \in Call |-> "ready"]
    /\ seen = [c \in Call |-> NoRequest]

\* persist_request for a request that goes to the queue: all rows in one commit.
PersistRequest(i) ==
    /\ item[i].status = "absent"
    /\ item' = [item EXCEPT ![i].status = "pending"]
    /\ request' = [request EXCEPT ![i] = [action |-> Origin[i], text |-> Draft[i]]]
    /\ UNCHANGED <<trace, asks, stage, seen>>

\* resolve up to its checks: the item is there and not reviewed yet.  A call that
\* fails them changes nothing and may be sent again.
BeginUnguarded(c) ==
    /\ stage[c] = "ready"
    /\ item[asks[c].item].status # "absent"
    /\ stage' = [stage EXCEPT ![c] = "begun"]
    /\ UNCHANGED <<item, request, trace, asks, seen>>

Begin(c) ==
    /\ stage[c] = "ready"
    /\ item[asks[c].item].status = "pending"
    /\ stage' = [stage EXCEPT ![c] = "begun"]
    /\ UNCHANGED <<item, request, trace, asks, seen>>

\* resolve loads the request (and the trace, of which it keeps all but the
\* entry it writes).
Load(c) ==
    /\ stage[c] = "begun"
    /\ stage' = [stage EXCEPT ![c] = "loaded"]
    /\ seen' = [seen EXCEPT ![c] = request[asks[c].item]]
    /\ UNCHANGED <<item, request, trace, asks>>

ResolvedAsDecided(c) ==
    CASE asks[c].decision = "approved" -> [seen[c] EXCEPT !.action = "approved"]
      [] asks[c].decision = "revised"  -> [action |-> "revised", text |-> asks[c].text]
      [] asks[c].decision = "rejected" -> [action |-> "rejected", text |-> asks[c].text]

\* The request as the call wants it.
Resolved(c) ==
    CASE asks[c].decision = "approved" -> [seen[c] EXCEPT !.action = "answer"]
      [] asks[c].decision = "revised"  -> [action |-> "answer", text |-> asks[c].text]
      [] asks[c].decision = "rejected" -> [action |-> "abstain", text |-> asks[c].text]

\* The row after the flush: an attribute set to the value it was loaded with
\* is not in the UPDATE, and keeps what another call may have written.
FlushedTextOnly(c) ==
    [request[asks[c].item] EXCEPT
        !.text = IF Resolved(c).text = seen[c].text THEN @ ELSE Resolved(c).text]

FlushedOldText(c) ==
    [request[asks[c].item] EXCEPT
        !.action = IF Resolved(c).action = seen[c].action THEN @ ELSE Resolved(c).action,
        !.text = IF @ = seen[c].text THEN Resolved(c).text ELSE @]

Flushed(c) ==
    [request[asks[c].item] EXCEPT
        !.action = IF Resolved(c).action = seen[c].action THEN @ ELSE Resolved(c).action,
        !.text = IF Resolved(c).text = seen[c].text THEN @ ELSE Resolved(c).text]

\* The commit at the end of get_db: three rows in one transaction.  A second
\* call waits for the row locks of the first, then writes over it.  Every call
\* loaded the item as pending, with nulls where it now writes its decision, note,
\* reviewer and time, and its entry of the trace has a time of its own: these
\* are always in the UPDATE.
CommitKeepingTrace(c) ==
    LET i == asks[c].item IN
    /\ stage[c] = "loaded"
    /\ stage' = [stage EXCEPT ![c] = "committed"]
    /\ item' = [item EXCEPT ![i] = [status |-> "reviewed", review |-> c]]
    /\ request' = [request EXCEPT ![i] = Flushed(c)]
    /\ trace' = [trace EXCEPT ![i] = IF @ = NoCall THEN c ELSE @]
    /\ seen' = [seen EXCEPT ![c] = NoRequest]
    /\ UNCHANGED asks

Commit(c) ==
    LET i == asks[c].item IN
    /\ stage[c] = "loaded"
    /\ stage' = [stage EXCEPT ![c] = "committed"]
    /\ item' = [item EXCEPT ![i] = [status |-> "reviewed", review |-> c]]
    /\ request' = [request EXCEPT ![i] = Flushed(c)]
    /\ trace' = [trace EXCEPT ![i] = c]
    /\ seen' = [seen EXCEPT ![c] = NoRequest]
    /\ UNCHANGED asks

\* An exception, a lost connection or a crash before the commit: rollback.
Rollback(c) ==
    /\ stage[c] \in {"begun", "loaded"}
    /\ stage' = [stage EXCEPT ![c] = "ready"]
    /\ seen' = [seen EXCEPT ![c] = NoRequest]
    /\ UNCHANGED <<item, request, trace, asks>>

Next ==
    \/ \E i \in Item : PersistRequest(i)
    \/ \E c \in Call : Begin(c) \/ Load(c) \/ Commit(c) \/ Rollback(c)

Spec == Init /\ [][Next]_vars

\* One call at a time: the next begins when the last is over.
Open(c) == stage[c] \in {"begun", "loaded"}
OneAtATime == \A c, d \in Call : Open(c) /\ Open(d) => c = d
SequentialSpec == Init /\ [][Next /\ OneAtATime']_vars

--------------------------------------------------------------------------------
\* Properties

\* Every variable has its type.
TypeOK ==
    /\ item \in [Item -> [status : {"absent", "pending", "reviewed"},
                          review : Call \cup {NoCall}]]
    /\ request \in [Item -> Request]
    /\ trace \in [Item -> Call \cup {NoCall}]
    /\ asks \in [Call -> Body]
    /\ stage \in [Call -> {"ready", "begun", "loaded", "committed"}]
    /\ seen \in [Call -> Request]

\* However many calls decide on an item at once, the queue row and the audit
\* trace have the decision of the same call.
TraceAgrees == \A i \in Item : trace[i] = item[i].review

\* No response is left marked as escalated once its item has left the pending
\* list, and none that is pending already shows a decision.
EscalationIsPending ==
    \A i \in Item :
        /\ request[i].action = "escalate" => item[i].status = "pending"
        /\ item[i].status = "pending" => request[i].action = Origin[i]

\* The text was in the response before c decided, or was put there meanwhile: it
\* is the stored draft, or what another decision delivered.
NotNew(c) ==
    \/ asks[c].text = Draft[asks[c].item]
    \/ \E d \in Call \ {c} : /\ stage[d] = "committed" /\ asks[d].item = asks[c].item
                             /\ asks[d].decision # "approved" /\ asks[d].text = asks[c].text

\* A revision that is the recorded decision is the response, whatever other
\* decisions were lost under it, provided it says something new.  One that only
\* repeats what the response said when it was loaded is not written, and what a
\* third call committed in between stands (resolve, the flush of the ORM).
RevisedTextStands ==
    \A i \in Item, c \in Call :
        /\ item[i].review = c /\ asks[c].decision = "revised"
        => request[i].text = asks[c].text \/ NotNew(c)

\* The queue as module ReviewRecord describes it.
Record == INSTANCE ReviewRecord WITH
    outcome <- [i \in Item |->
        [stage |-> IF item[i].status = "reviewed" THEN asks[item[i].review].decision
                   ELSE item[i].status,
         by |-> item[i].review]],
    shown <- request

\* One decision per item, and the request follows it.
ImplementsRecord == Record!Spec

\* docs/security-review.md: decisions are appended to the trace, not overwritten.
DecisionsNotOverwritten ==
    [][\A i \in Item : trace[i] # NoCall => trace'[i] = trace[i]]_vars
================================================================================
