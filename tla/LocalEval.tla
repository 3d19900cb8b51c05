----------------------------- MODULE LocalEval -----------------------------
(***************************************************************************)
(* scripts.eval_local: the benchmark without a database.                   *)
(*                                                                         *)
(* The main thread takes the items one by one.  It runs the pipeline of an *)
(* item in a thread of its own and waits for it a limited time; a thread   *)
(* that takes longer is abandoned, not stopped, and goes on working while  *)
(* the main thread grades later items.  The pipelines, their abandoned     *)
(* predecessors and the grading share one global: the gateway through      *)
(* which NLI asks the language model, and so the meter it charges.         *)
(* At the end four files are written and a pointer to them is replaced,    *)
(* from which retraining starts.                                           *)
(***************************************************************************)
EXTENDS Integers, FiniteSets, Sequences

CONSTANTS
    Items,        \* bound: items of the benchmark
    Calls,        \* bound: calls to the language model by one pipeline
    MaxClaims     \* bound: checkable claims of an answer

ASSUME EvalConstants == Items \in Nat \ {0} /\ Calls \in Nat /\ MaxClaims \in Nat

Item == 1..Items
Nothing == 0      \* no item: st is None, no gateway is published

Outputs == <<"report.json", "pareto.csv", "training_rows.jsonl", "calibration_rows.jsonl">>

VARIABLES
    phase,        \* where the main thread stands
    item,         \* the item it is at
    st,           \* the item whose state the local variable st holds
    thread,       \* the worker thread of each item's pipeline
    gateway,      \* nli._gateway, named by the item of its pipeline
    asked,        \* calls each pipeline has made
    meter,        \* calls charged to each pipeline's meter
    gradingCalls, \* history: calls made to grade each item before it is reported
    claims,       \* checkable claims in each pipeline's answer
    training,     \* rows in train_sink, by item
    calibration,  \* rows in calib_sink, by item
    rowOf,        \* m_rows: the item whose state each reported row describes
    tokens,       \* the usage in each row
    timeouts,     \* items counted as timed out
    failed,       \* items whose pipeline or grading raised
    baselines,    \* items in b_rows
    written,      \* how many of the files of this run are complete
    pointer       \* artifacts/eval/latest.txt

threadVars == <<thread, gateway, asked, meter>>
sinkVars == <<training, calibration, rowOf, tokens>>
outcomeVars == <<timeouts, failed, baselines>>
fileVars == <<written, pointer>>
evalVars == <<phase, item, st, threadVars, gradingCalls, claims, sinkVars, outcomeVars,
              fileVars>>

EvalTypeOK ==
    /\ phase \in {"next", "await", "grade", "report", "baseline", "write", "point", "over"}
    /\ item \in Item
    /\ st \in Item \union {Nothing}
    /\ thread \in [Item -> {"none", "starting", "working", "returned", "raised"}]
    /\ gateway \in Item \union {Nothing}
    /\ asked \in [Item -> 0..Calls]
    /\ meter \in [Item -> Nat] /\ gradingCalls \in [Item -> Nat]
    /\ training \in [Item -> Nat] /\ calibration \in [Item -> Nat] /\ tokens \in [Item -> Nat]
    /\ claims \in [Item -> 0..MaxClaims]
    /\ rowOf \in [Item -> Item \union {Nothing}]
    /\ timeouts \subseteq Item /\ failed \subseteq Item /\ baselines \subseteq Item
    /\ written \in 0..Len(Outputs)
    /\ pointer \in {"older run", "empty", "this run"}

EvalInit ==
    /\ phase = "next" /\ item = 1 /\ st = Nothing
    /\ thread = [i \in Item |-> "none"]
    /\ gateway = Nothing
    /\ asked = [i \in Item |-> 0]
    /\ meter = [i \in Item |-> 0]
    /\ gradingCalls = [i \in Item |-> 0]
    /\ claims \in [Item -> 0..MaxClaims]
    /\ training = [i \in Item |-> 0]
    /\ calibration = [i \in Item |-> 0]
    /\ rowOf = [i \in Item |-> Nothing]
    /\ tokens = [i \in Item |-> 0]
    /\ timeouts = {} /\ failed = {} /\ baselines = {}
    /\ written = 0 /\ pointer = "older run"

-----------------------------------------------------------------------------
\* The worker threads.

\* run_pipeline publishes its gateway: whose it is after that.
NotPublished(i) == IF gateway = Nothing THEN i ELSE gateway
Published(i) == i

StartThread(i) ==
    /\ thread[i] = "starting"
    /\ thread' = [thread EXCEPT ![i] = "working"]
    /\ gateway' = Published(i)
    /\ UNCHANGED <<phase, item, st, asked, meter, gradingCalls, claims, sinkVars,
                   outcomeVars, fileVars>>

\* A call of an agent, on the pipeline's own gateway, or one of NLI.  When the
\* call was made and when it was charged make no difference here.
CallModel(i, charged) ==
    /\ thread[i] = "working" /\ asked[i] < Calls
    /\ asked' = [asked EXCEPT ![i] = @ + 1]
    /\ meter' = [meter EXCEPT ![charged] = @ + 1]
    /\ UNCHANGED <<phase, item, st, thread, gateway, gradingCalls, claims, sinkVars,
                   outcomeVars, fileVars>>

EndThread(i) ==
    /\ thread[i] = "working"
    /\ \E end \in {"returned", "raised"} : thread' = [thread EXCEPT ![i] = end]
    /\ UNCHANGED <<phase, item, st, gateway, asked, meter, gradingCalls, claims, sinkVars,
                   outcomeVars, fileVars>>

-----------------------------------------------------------------------------
\* The main thread.

\* What st holds when an item begins.
StillThere == st
Reset == Nothing

Submit ==
    /\ phase = "next"
    /\ phase' = "await"
    /\ st' = Reset
    /\ thread' = [thread EXCEPT ![item] = "starting"]
    /\ UNCHANGED <<item, gateway, asked, meter, gradingCalls, claims, sinkVars, outcomeVars,
                   fileVars>>

\* result(timeout): the state, the pipeline's exception, or TimeoutError.
Result ==
    /\ phase = "await"
    /\ \/ /\ thread[item] = "returned"
          /\ st' = item
          /\ UNCHANGED <<timeouts, failed>>
       \/ /\ thread[item] = "raised"
          /\ failed' = failed \union {item}
          /\ UNCHANGED <<st, timeouts>>
       \/ /\ thread[item] \notin {"returned", "raised"}
          /\ timeouts' = timeouts \union {item}
          /\ UNCHANGED <<st, failed>>
    /\ phase' = IF st' # Nothing THEN "grade" ELSE "baseline"
    /\ UNCHANGED <<item, threadVars, gradingCalls, claims, sinkVars, baselines, fileVars>>

\* entail on behalf of the item, if it asks the language model at all.
Graded ==
    \/ /\ gateway # Nothing
       /\ meter' = [meter EXCEPT ![gateway] = @ + 1]
       /\ gradingCalls' = [gradingCalls EXCEPT ![item] = @ + 1]
    \/ UNCHANGED <<meter, gradingCalls>>

\* _maahaf_row labels a claim: one training row, at once.
GradeClaim ==
    /\ phase = "grade" /\ training[item] < claims[st]
    /\ Graded
    /\ training' = [training EXCEPT ![item] = @ + 1]
    /\ UNCHANGED <<phase, item, st, thread, gateway, asked, claims, calibration, rowOf, tokens,
                   outcomeVars, fileVars>>

\* Then the answer as a whole, and its calibration row.
Calibrate ==
    /\ phase = "grade" /\ training[item] = claims[st]
    /\ phase' = "report"
    /\ Graded
    /\ calibration' = [calibration EXCEPT ![item] = @ + 1]
    /\ UNCHANGED <<item, st, thread, gateway, asked, claims, training, rowOf, tokens,
                   outcomeVars, fileVars>>

\* The row, with the usage the meter has by now.
FinishRow ==
    /\ phase = "report"
    /\ phase' = "baseline"
    /\ tokens' = [tokens EXCEPT ![item] = meter[st]]
    /\ rowOf' = [rowOf EXCEPT ![item] = st]
    /\ UNCHANGED <<item, st, threadVars, gradingCalls, claims, training, calibration, outcomeVars,
                   fileVars>>

\* An exception in between: the item is lost, the rows it has for retraining are not.
FailToGrade ==
    /\ phase \in {"grade", "report"}
    /\ failed' = failed \union {item}
    /\ phase' = "baseline"
    /\ UNCHANGED <<item, st, threadVars, gradingCalls, claims, sinkVars, timeouts, baselines,
                   fileVars>>

\* _baseline_row: its grading is charged to the gateway too.
GradedBaseline ==
    /\ baselines' = baselines \union {item}
    /\ \/ gateway # Nothing /\ meter' = [meter EXCEPT ![gateway] = @ + 1]
       \/ UNCHANGED meter

\* static_rag, on a meter of its own, and its row; or an exception or the
\* timeout, both swallowed.
Baseline ==
    /\ phase = "baseline"
    /\ \/ GradedBaseline
       \/ UNCHANGED <<baselines, meter>>
    /\ IF item < Items
       THEN phase' = "next" /\ item' = item + 1
       ELSE phase' = "write" /\ UNCHANGED item
    /\ UNCHANGED <<st, thread, gateway, asked, gradingCalls, claims, sinkVars, timeouts, failed,
                   fileVars>>

\* The files one after the other; behind which of them the pointer is written.
AllButLast == Len(Outputs) - 1
BeforePointer == Len(Outputs)

Write ==
    /\ phase = "write" /\ written < Len(Outputs)
    /\ written' = written + 1
    /\ UNCHANGED <<phase, item, st, threadVars, gradingCalls, claims, sinkVars, outcomeVars,
                   pointer>>

\* write_text empties latest.txt before it writes the name of the run.
OpenPointer ==
    /\ phase = "write" /\ written >= BeforePointer
    /\ phase' = "point"
    /\ pointer' = "empty"
    /\ UNCHANGED <<item, st, threadVars, gradingCalls, claims, sinkVars, outcomeVars, written>>

WritePointer ==
    /\ phase = "point"
    /\ phase' = "over"
    /\ pointer' = "this run"
    /\ UNCHANGED <<item, st, threadVars, gradingCalls, claims, sinkVars, outcomeVars, written>>

\* main raises, or the process is killed; os._exit abandons every thread.
Die ==
    /\ phase # "over"
    /\ phase' = "over"
    /\ UNCHANGED <<item, st, threadVars, gradingCalls, claims, sinkVars, outcomeVars, fileVars>>

EvalNext ==
    \/ /\ phase # "over"
       /\ \E i \in Item : \/ StartThread(i) \/ EndThread(i)
                          \/ CallModel(i, i) \/ (gateway # Nothing /\ CallModel(i, gateway))
    \/ Submit \/ Result \/ GradeClaim \/ Calibrate \/ FinishRow \/ FailToGrade \/ Baseline
    \/ Write \/ OpenPointer \/ WritePointer \/ Die

EvalSpec == EvalInit /\ [][EvalNext]_evalVars

-----------------------------------------------------------------------------
\* Properties.

Reported == {i \in Item : rowOf[i] # Nothing}
Past == IF phase \in {"write", "point"} THEN Item ELSE 1..(item - 1)

\* Every item the loop has left is in the report, timed out or failed, and in
\* one of them only; a row describes its own item, however late the thread of
\* an abandoned one returns.  Retraining reads of a reported item all its claims
\* and one calibration row, of an item whose grading failed no calibration row
\* without all its claims, and of an item that timed out nothing (main, _guarded,
\* _maahaf_row).
EveryItemAccounted ==
    /\ \A i \in Past :
          Cardinality({s \in {<<1, Reported>>, <<2, timeouts>>, <<3, failed>>} : i \in s[2]}) = 1
    /\ \A i \in Item :
          /\ rowOf[i] \in {i, Nothing}
          /\ i \in Reported => calibration[i] = 1
          /\ calibration[i] = 0 \/ (calibration[i] = 1 /\ training[i] = claims[i])
          /\ i \in timeouts => training[i] = 0 /\ calibration[i] = 0

\* Until a first item times out, the usage of a row is what its pipeline asked
\* of the model and what grading it did, no call of another item
\* (_maahaf_row, set_gateway).
TokensExact ==
    \A i \in Reported :
        timeouts \intersect 1..i = {} => tokens[i] = asked[i] + gradingCalls[i]

\* Wherever the process dies, latest.txt names the older run, nothing, or this
\* run with all its files, so that retraining never reads half a run.
PointerIsWhole == pointer = "this run" => written = Len(Outputs)
=============================================================================
