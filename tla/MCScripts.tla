----------------------------- MODULE MCScripts -----------------------------
(* The two programs of scripts/ that run without a database.  They have no   *)
(* variable in common: a behaviour is one of the program named by script.    *)
EXTENDS LocalEval, DemoServer, TLC

CONSTANTS q1, q2, v1, v2

VARIABLE script

Interchangeable == Permutations({v1, v2})

ScriptsInit ==
    /\ EvalInit /\ DemoInit
    /\ script \in {"eval_local", "serve_demo"}
    /\ script = "serve_demo" => claims = [i \in Item |-> 0]

ScriptsNext ==
    /\ UNCHANGED script
    /\ \/ script = "eval_local" /\ EvalNext /\ UNCHANGED demoVars
       \/ script = "serve_demo" /\ DemoNext /\ UNCHANGED evalVars

ScriptsSpec == ScriptsInit /\ [][ScriptsNext]_<<script, evalVars, demoVars>>

\* Every variable of the two modules has its type.
ScriptsTypeOK ==
    /\ script \in {"eval_local", "serve_demo"}
    /\ EvalTypeOK /\ DemoTypeOK
=============================================================================
