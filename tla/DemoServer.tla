----------------------------- MODULE DemoServer -----------------------------
(***************************************************************************)
(* scripts.serve_demo: traces and the review queue in dictionaries of the  *)
(* process.  A request is recorded on the event loop, its trace before its *)
(* queue item; reviews are resolved in threads, one assignment after       *)
(* another, and nothing keeps a second reviewer away from an item that is  *)
(* being or was reviewed.                                                  *)
(***************************************************************************)
EXTENDS Naturals, FiniteSets

CONSTANTS
    Prompt,       \* requests
    Review        \* calls of review_resolve

Actions == {"answer", "qualify", "abstain", "escalate"}
Decisions == {"approved", "revised", "rejected"}

VARIABLES
    handled,      \* "idle", "pipeline", "recorded" or "done", by request
    decided,      \* the action the pipeline decided on
    trace,        \* REQUESTS: the action and whose words the response is
    entry,        \* ESCALATIONS: the status and the decision of the queue item
    review,       \* what each call resolves, with which decision and text
    line,         \* where it stands
    evalRun       \* the runs of eval_run: "none", "running" or "done"

demoVars == <<handled, decided, trace, entry, review, line, evalRun>>

NoTrace == [action |-> "none", words |-> "none"]
NoEntry == [status |-> "none", decision |-> "none"]

DemoTypeOK ==
    /\ handled \in [Prompt -> {"idle", "pipeline", "recorded", "done"}]
    /\ decided \in [Prompt -> Actions \union {"none"}]
    /\ trace \in [Prompt -> [action : Actions, words : {"model", "revised", "withheld"}]
                            \union {NoTrace}]
    /\ entry \in [Prompt -> [status : {"none", "pending", "reviewed"},
                             decision : Decisions \union {"none"}]]
    /\ \A v \in Review :
          line[v] # "idle" => review[v] \in [on : Prompt, decision : Decisions, text : BOOLEAN]
    /\ line \in [Review -> {"idle", "status", "decision", "response", "action", "done"}]
    /\ evalRun \in {"none", "running", "done"}

DemoInit ==
    /\ handled = [p \in Prompt |-> "idle"]
    /\ decided = [p \in Prompt |-> "none"]
    /\ trace = [p \in Prompt |-> NoTrace]
    /\ entry = [p \in Prompt |-> NoEntry]
    /\ review = [v \in Review |-> [on |-> CHOOSE p \in Prompt : TRUE,
                                   decision |-> "approved", text |-> FALSE]]
    /\ line = [v \in Review |-> "idle"]
    /\ evalRun = "none"

\* generate hands the pipeline to a thread.
Generate(p) ==
    /\ handled[p] = "idle"
    /\ handled' = [handled EXCEPT ![p] = "pipeline"]
    /\ UNCHANGED <<decided, trace, entry, review, line, evalRun>>

\* Which outcomes a reviewer gets to see.
Queued(action, highStakes) == action = "escalate" \/ (action = "abstain" /\ highStakes)

\* _state_to_trace.
Traced(action) == [action |-> action, words |-> "model"]

\* Back on the loop: the trace, which the endpoints in threads show at once ...
Record(p) ==
    /\ handled[p] = "pipeline"
    /\ handled' = [handled EXCEPT ![p] = "recorded"]
    /\ \E action \in Actions :
          /\ decided' = [decided EXCEPT ![p] = action]
          /\ trace' = [trace EXCEPT ![p] = Traced(action)]
    /\ UNCHANGED <<entry, review, line, evalRun>>

\* ... and then the item of the queue, if the outcome is to be reviewed.
Enqueue(p) ==
    /\ handled[p] = "recorded"
    /\ handled' = [handled EXCEPT ![p] = "done"]
    /\ \E highStakes \in BOOLEAN :
          entry' = IF Queued(decided[p], highStakes) THEN [entry EXCEPT ![p].status = "pending"]
                   ELSE entry
    /\ UNCHANGED <<decided, trace, review, line, evalRun>>

\* review_resolve finds the item, whatever its status.
Open(v) ==
    /\ line[v] = "idle"
    /\ \E p \in Prompt, decision \in Decisions, text \in BOOLEAN :
          /\ entry[p].status # "none"
          /\ review' = [review EXCEPT ![v] = [on |-> p, decision |-> decision, text |-> text]]
    /\ line' = [line EXCEPT ![v] = "status"]
    /\ UNCHANGED <<handled, decided, trace, entry, evalRun>>

Advance(v, from, to) == line[v] = from /\ line' = [line EXCEPT ![v] = to]

\* The trace is touched by every decision but a revision without a text.
AnyRevision(v) == TRUE
TouchesTrace(v) == review[v].decision = "revised" => review[v].text

SetStatus(v) ==
    /\ Advance(v, "status", "decision")
    /\ entry' = [entry EXCEPT ![review[v].on].status = "reviewed"]
    /\ UNCHANGED <<handled, decided, trace, review, evalRun>>

SetDecision(v) ==
    /\ Advance(v, "decision",
               IF ~TouchesTrace(v) THEN "done"
               ELSE IF review[v].decision = "approved" THEN "action" ELSE "response")
    /\ entry' = [entry EXCEPT ![review[v].on].decision = review[v].decision]
    /\ UNCHANGED <<handled, decided, trace, review, evalRun>>

SetResponse(v) ==
    /\ Advance(v, "response", "action")
    /\ trace' = [trace EXCEPT ![review[v].on].words =
                    IF review[v].decision = "rejected" THEN "withheld" ELSE "revised"]
    /\ UNCHANGED <<handled, decided, entry, review, evalRun>>

\* The action a decision stands for.
DecisionItself(decision) == decision
ActionOf(decision) == IF decision = "rejected" THEN "abstain" ELSE "answer"

SetAction(v) ==
    /\ Advance(v, "action", "done")
    /\ trace' = [trace EXCEPT ![review[v].on].action = ActionOf(review[v].decision)]
    /\ UNCHANGED <<handled, decided, entry, review, evalRun>>

\* eval_run: pipelines of its own, visible as a run when all went well.
RunEval ==
    /\ \/ evalRun = "none" /\ evalRun' = "running"
       \/ evalRun = "running" /\ evalRun' \in {"done", "none"}
    /\ UNCHANGED <<handled, decided, trace, entry, review, line>>

DemoNext ==
    \/ \E p \in Prompt : Generate(p) \/ Record(p) \/ Enqueue(p)
    \/ \E v \in Review : \/ Open(v) \/ SetStatus(v) \/ SetDecision(v)
                         \/ SetResponse(v) \/ SetAction(v)
    \/ RunEval

DemoSpec == DemoInit /\ [][DemoNext]_demoVars

-----------------------------------------------------------------------------
\* Properties.

\* review_queue: the requests a reviewer finds with the status.
Listed(status) == {p \in Prompt : entry[p].status = status}

Reviews(p) == {v \in Review : line[v] # "idle" /\ review[v].on = p}

\* What is delivered after one review of the model's response.
Reviewed(p, v) ==
    CASE review[v].decision = "rejected" -> [action |-> "abstain", words |-> "withheld"]
      [] review[v].decision = "approved" -> [action |-> "answer", words |-> "model"]
      [] review[v].decision = "revised" /\ review[v].text ->
            [action |-> "answer", words |-> "revised"]
      [] OTHER -> [action |-> decided[p], words |-> "model"]

\* An item listed as pending shows the request as the pipeline left it, however
\* far the reviews in the other threads are; no request that escalated and was
\* answered is off the list; an item reviewed once shows that review; and whatever
\* reviewers did to each other, the delivered action is the pipeline's or one that
\* a decision stands for (generate, review_resolve).
ReviewsAreDelivered ==
    \A p \in Prompt :
        /\ p \in Listed("pending") => trace[p] = [action |-> decided[p], words |-> "model"]
        /\ handled[p] = "done" /\ decided[p] = "escalate"
              => p \in Listed("pending") \union Listed("reviewed")
        /\ \A v \in Reviews(p) :
              Reviews(p) = {v} /\ line[v] = "done" => trace[p] = Reviewed(p, v)
        /\ trace[p].action = decided[p]
              \/ \E v \in Reviews(p) : trace[p].action = ActionOf(review[v].decision)
=============================================================================
