------------------------------ MODULE Serving ------------------------------
(***************************************************************************)
(* The process that serves the API: one event loop, a limited number of    *)
(* worker threads, a limited number of database connections and a rate     *)
(* limiter in Redis.                                                       *)
(*                                                                         *)
(* Handlers declared async, and the dependency get_principal, run on the   *)
(* event loop.  get_principal queries the database there, synchronously:   *)
(* when no connection is free the loop itself waits, and with it every     *)
(* request whose next step needs the loop, the ones that hold the          *)
(* connections included.  Only the pool's timeout, a worker thread that    *)
(* closes its own session, or a crash ends that wait.                      *)
(*                                                                         *)
(* POST /v1/eval/run inserts a row and leaves the work to a background     *)
(* job, with a session of its own, that finds the row again by its id.     *)
(* Whether the request's session is committed before the job starts        *)
(* depends on the release of the framework (requirements only ask for      *)
(* 0.111 or later): before it, or after the job is over.                   *)
(***************************************************************************)
EXTENDS Naturals, FiniteSets

CONSTANTS
    Request,      \* the requests clients may send
    Loads,        \* which route and credential each may have: functions on Request
    NoRequest,    \* the event loop waits for nobody
    PoolSize,     \* connections the engine opens at most
    Threads,      \* worker threads at most
    Limit,        \* requests of the API key per window
    LastWindow,   \* bound: the windows of the limiter are 0..LastWindow
    CrashBudget   \* bound: crashes in a behaviour

Routes == {"generate", "read", "eval", "ready"}

ASSUME ServingConstants ==
    /\ Loads \subseteq [Request -> [route : Routes, credential : {"key", "token", "none"}]]
    /\ NoRequest \notin Request
    /\ PoolSize \in Nat \ {0} /\ Threads \in Nat \ {0}
    /\ Limit \in Nat /\ LastWindow \in Nat /\ CrashBudget \in Nat

VARIABLES
    load,         \* the route and the credential of each request
    pc,           \* where the handling of each request stands
    status,       \* the HTTP status decided for it, 0 for none yet
    waiting,      \* the request for which the event loop waits in the pool
    held,         \* the sessions that hold a connection
    window,       \* int(time.time() // window_s)
    hits,         \* the counters in Redis, by window
    count,        \* what INCR answered to a request, 0 when Redis failed
    bucket,       \* the window a request was counted in
    row,          \* the evaluation run inserted by a request
    job,          \* its background job
    broken,       \* jobs whose transaction a database error aborted
    unlucky,      \* history: jobs that met a crash, an abort or an empty pool
    commitFirst,  \* the framework closes sessions before background jobs
    crashes

vars == <<load, pc, status, waiting, held, window, hits, count, bucket, row, job,
          broken, unlucky, commitFirst, crashes>>
fixedVars == <<load, commitFirst>>
limiterVars == <<window, hits, count, bucket>>
jobVars == <<row, job, broken, unlucky>>

Own(r) == <<r, "request">>    \* the session of get_db
Job(r) == <<r, "job">>        \* the session of the background job
Route(r) == load[r].route
Credential(r) == load[r].credential

Session == {Own(r) : r \in Request} \union {Job(r) : r \in Request}

Forbidden == 403
Unauthorized == 401
RateLimited == 429
NotFound == 404
InternalError == 500
Statuses == {0, 200, 202, 401, 404, 429, 500}

TypeOK ==
    /\ load \in Loads
    /\ pc \in [Request -> {"idle", "limiting", "limited", "blocked", "admitted",
                           "working", "persisting", "closing", "done", "lost"}]
    /\ status \in [Request -> Statuses]
    /\ waiting \in Request \union {NoRequest}
    /\ held \subseteq Session
    /\ window \in 0..LastWindow
    /\ hits \in [0..LastWindow -> Nat]
    /\ count \in [Request -> Nat]
    /\ bucket \in [Request -> 0..LastWindow]
    /\ row \in [Request -> {"none", "flushed", "running", "done", "failed", "gone"}]
    /\ job \in [Request -> {"none", "queued", "rows", "finishing", "raised", "over"}]
    /\ broken \subseteq Request
    /\ unlucky \subseteq Request
    /\ commitFirst \in BOOLEAN
    /\ crashes \in 0..CrashBudget

Init ==
    /\ load \in Loads
    /\ pc = [r \in Request |-> "idle"]
    /\ status = [r \in Request |-> 0]
    /\ waiting = NoRequest
    /\ held = {}
    /\ window = 0
    /\ hits = [w \in 0..LastWindow |-> 0]
    /\ count = [r \in Request |-> 0]
    /\ bucket = [r \in Request |-> 0]
    /\ row = [r \in Request |-> "none"]
    /\ job = [r \in Request |-> "none"]
    /\ broken = {}
    /\ unlucky = {}
    /\ commitFirst \in BOOLEAN
    /\ crashes = 0

-----------------------------------------------------------------------------
\* Resources.

LoopIsFree == waiting = NoRequest

Busy == {r \in Request : pc[r] \in {"working", "persisting"}}
BusyJobs == {r \in Request : job[r] \in {"rows", "finishing"}}
ThreadIsFree == Cardinality(Busy) + Cardinality(BusyJobs) < Threads

ConnectionIsFree == Cardinality(held) < PoolSize

\* The session s has a connection or takes one.
Checkout(s) ==
    \/ s \in held /\ UNCHANGED held
    \/ s \notin held /\ ConnectionIsFree /\ held' = held \union {s}

\* The session s has none, and the pool gives up on it after its timeout.
PoolWaitsForever(s) == FALSE

PoolTimesOut(s) == s \notin held /\ ~ConnectionIsFree

Goto(r, l) == pc' = [pc EXCEPT ![r] = l]

\* The handling is over: the session is to be closed, the answer to be sent.
Conclude(r, s) ==
    /\ Goto(r, "closing")
    /\ status' = [status EXCEPT ![r] = s]

-----------------------------------------------------------------------------
\* Dependencies of every route: get_db, then get_principal on the loop.

\* A request reaches the loop.  Entering get_db takes a worker thread for a
\* moment, no connection; a token is decoded without the database.
Send(r) ==
    /\ pc[r] = "idle" /\ Route(r) # "ready"
    /\ LoopIsFree /\ ThreadIsFree
    /\ \/ /\ Credential(r) = "key"
          /\ Goto(r, "limiting")
          /\ UNCHANGED status
       \/ /\ Credential(r) = "token"
          /\ Goto(r, "admitted")
          /\ UNCHANGED status
       \/ /\ Credential(r) # "key"          \* invalid, expired, role too low
          /\ Conclude(r, Unauthorized)
    /\ UNCHANGED <<waiting, held, limiterVars, jobVars, fixedVars, crashes>>

\* Redis counts the request, or cannot be reached, or the answer is lost.
CheckRateLimit(r) ==
    /\ pc[r] = "limiting"
    /\ Goto(r, "limited")
    /\ bucket' = [bucket EXCEPT ![r] = window]
    /\ \/ /\ hits' = [hits EXCEPT ![window] = @ + 1]
          /\ count' = [count EXCEPT ![r] = hits'[window]]
       \/ UNCHANGED <<hits, count>>
       \/ hits' = [hits EXCEPT ![window] = @ + 1] /\ UNCHANGED count
    /\ UNCHANGED <<status, waiting, held, window, jobVars, fixedVars, crashes>>

\* int(time.time() // window_s) turns.
NextWindow ==
    /\ window < LastWindow
    /\ window' = window + 1
    /\ UNCHANGED <<pc, status, waiting, held, hits, count, bucket, jobVars,
                   fixedVars, crashes>>

\* get_api_key and get_tenant_by_name with the connection in hand: the key and
\* its role are good, or the request is refused.
Identify(r) ==
    /\ held' = held \union {Own(r)}
    /\ \/ Goto(r, "admitted") /\ UNCHANGED status
       \/ Conclude(r, Unauthorized)

OverLimitByTwo(r) == count[r] > Limit + 1
OverLimit(r) == count[r] > Limit

\* get_principal resumes on the loop after the limiter's answer.
Resume(r) ==
    /\ pc[r] = "limited" /\ LoopIsFree
    /\ \/ /\ OverLimit(r)
          /\ Conclude(r, RateLimited)
          /\ UNCHANGED <<waiting, held>>
       \/ /\ ~OverLimit(r) /\ ConnectionIsFree
          /\ Identify(r)
          /\ UNCHANGED waiting
       \/ /\ ~OverLimit(r) /\ ~ConnectionIsFree
          /\ waiting' = r
          /\ Goto(r, "blocked")
          /\ UNCHANGED <<status, held>>
    /\ UNCHANGED <<limiterVars, jobVars, fixedVars, crashes>>

\* /ready opens a connection on the loop and returns it at once.
Ready(r) ==
    /\ pc[r] = "idle" /\ Route(r) = "ready" /\ LoopIsFree
    /\ \/ /\ ConnectionIsFree
          /\ Conclude(r, 200)
          /\ UNCHANGED waiting
       \/ /\ ~ConnectionIsFree
          /\ waiting' = r
          /\ Goto(r, "blocked")
          /\ UNCHANGED status
    /\ UNCHANGED <<held, limiterVars, jobVars, fixedVars, crashes>>

\* A connection came back while the loop waited.
Unblock(r) ==
    /\ waiting = r /\ ConnectionIsFree
    /\ waiting' = NoRequest
    /\ \/ Route(r) = "ready" /\ Conclude(r, 200) /\ UNCHANGED held
       \/ Route(r) # "ready" /\ Identify(r)
    /\ UNCHANGED <<limiterVars, jobVars, fixedVars, crashes>>

\* None came back in time: /ready reports it, the other routes raise.
LoopTimesOut(r) ==
    /\ waiting = r /\ PoolTimesOut(Own(r))
    /\ waiting' = NoRequest
    /\ Conclude(r, IF Route(r) = "ready" THEN 200 ELSE InternalError)
    /\ UNCHANGED <<held, limiterVars, jobVars, fixedVars, crashes>>

-----------------------------------------------------------------------------
\* Worker threads: run_in_threadpool and the handlers that are not async.

Start(r) ==
    /\ pc[r] = "admitted" /\ LoopIsFree /\ ThreadIsFree
    /\ Goto(r, "working")
    /\ UNCHANGED <<status, waiting, held, limiterVars, jobVars, fixedVars, crashes>>

\* run_pipeline up to its last write.  Retrieval that gets no connection raises
\* inside an agent, which swallows it.
RunPipeline(r) ==
    /\ pc[r] = "working" /\ Route(r) = "generate"
    /\ Checkout(Own(r)) \/ (PoolTimesOut(Own(r)) /\ UNCHANGED held)
    /\ Goto(r, "persisting")
    /\ UNCHANGED <<status, waiting, limiterVars, jobVars, fixedVars, crashes>>

\* _persist: outside any agent, so an error reaches the caller.
Persist(r) ==
    /\ pc[r] = "persisting"
    /\ \/ Checkout(Own(r)) /\ \E s \in {200, InternalError} : Conclude(r, s)
       \/ PoolTimesOut(Own(r)) /\ Conclude(r, InternalError) /\ UNCHANGED held
    /\ UNCHANGED <<waiting, limiterVars, jobVars, fixedVars, crashes>>

\* A handler that only queries, and the statuses it may end with.
Query(r, statuses) ==
    /\ pc[r] = "working" /\ Route(r) = "read"
    /\ \/ Checkout(Own(r)) /\ \E s \in statuses : Conclude(r, s)
       \/ PoolTimesOut(Own(r)) /\ Conclude(r, InternalError) /\ UNCHANGED held
    /\ UNCHANGED <<waiting, limiterVars, jobVars, fixedVars, crashes>>

GetTrace(r) == Query(r, {200, NotFound})      \* unknown, or another tenant's
Summary(r) == Query(r, {200})
GetRun(r) == Query(r, {200, NotFound})
ReadQueue(r) == Query(r, {200, NotFound})
Search(r) == Query(r, {200, InternalError})   \* the models of retrieval may raise

Read(r) == GetTrace(r) \/ Summary(r) \/ GetRun(r) \/ ReadQueue(r) \/ Search(r)

\* start_eval: insert the run, flush, register the background job.
StartEval(r) ==
    /\ pc[r] = "working" /\ Route(r) = "eval"
    /\ \/ /\ Checkout(Own(r))
          /\ Conclude(r, 202)
          /\ row' = [row EXCEPT ![r] = "flushed"]
       \/ /\ PoolTimesOut(Own(r))
          /\ Conclude(r, InternalError)
          /\ UNCHANGED <<held, row>>
    /\ UNCHANGED <<waiting, limiterVars, job, broken, unlucky, fixedVars, crashes>>

\* The connections once session_scope has left the session of r.
ReleasedOnSuccess(r) == IF status[r] < 400 THEN held \ {Own(r)} ELSE held
Released(r) == held \ {Own(r)}

\* The runs once the session of r is committed.
NotCommitted(r) == row
Committed(r) == [row EXCEPT ![r] = "running"]

\* Back on the loop: the session is committed or rolled back and returns its
\* connection, and the answer is sent.  With the other order of the framework
\* the answer of start_eval is sent, and its job runs, before that.
Close(r) ==
    /\ pc[r] = "closing" /\ LoopIsFree
    /\ Goto(r, "done")
    /\ IF status[r] # 202
       THEN /\ held' = Released(r)
            /\ UNCHANGED <<row, job>>
       ELSE /\ job' = [job EXCEPT ![r] = "queued"]
            /\ IF commitFirst
               THEN /\ held' = Released(r)
                    /\ row' = Committed(r)
               ELSE UNCHANGED <<held, row>>
    /\ UNCHANGED <<status, waiting, limiterVars, broken, unlucky, fixedVars, crashes>>

-----------------------------------------------------------------------------
\* The background job of an evaluation.

StartJob(r) ==
    /\ job[r] = "queued" /\ LoopIsFree /\ ThreadIsFree
    /\ job' = [job EXCEPT ![r] = "rows"]
    /\ UNCHANGED <<pc, status, waiting, held, limiterVars, row, broken, unlucky,
                   fixedVars, crashes>>

\* run_evaluation: an item that fails is logged and skipped, so a transaction
\* the database aborted, or a pool that gave no connection, ends nothing here.
RunEvaluation(r) ==
    /\ job[r] = "rows"
    /\ job' = [job EXCEPT ![r] = "finishing"]
    /\ \/ Checkout(Job(r)) /\ UNCHANGED <<broken, unlucky>>
       \/ /\ Checkout(Job(r))
          /\ broken' = broken \union {r}
          /\ unlucky' = unlucky \union {r}
       \/ PoolTimesOut(Job(r)) /\ UNCHANGED <<held, broken, unlucky>>
       \/ UNCHANGED <<held, broken, unlucky>>           \* no dataset: it raised
    /\ UNCHANGED <<pc, status, waiting, limiterVars, row, fixedVars, crashes>>

RowIsVisible(r) == row[r] = "running"

\* s.get finds the run and its outcome is committed.
RecordOutcome(r) ==
    /\ job[r] = "finishing"
    /\ r \notin broken /\ RowIsVisible(r)
    /\ Job(r) \in held \/ ConnectionIsFree
    /\ \E final \in {"done", "failed"} : row' = [row EXCEPT ![r] = final]
    /\ job' = [job EXCEPT ![r] = "over"]
    /\ held' = held \ {Job(r)}
    /\ UNCHANGED <<pc, status, waiting, limiterVars, broken, unlucky, fixedVars, crashes>>

\* s.get raises, or finds no run: so does the handler of that exception, and
\* the session is rolled back.
FailToRecord(r) ==
    /\ job[r] = "finishing"
    /\ r \in broken \/ ~RowIsVisible(r) \/ PoolTimesOut(Job(r))
    /\ held' = held \ {Job(r)}
    /\ job' = [job EXCEPT ![r] = IF commitFirst THEN "over" ELSE "raised"]
    /\ unlucky' = IF PoolTimesOut(Job(r)) THEN unlucky \union {r} ELSE unlucky
    /\ UNCHANGED <<pc, status, waiting, limiterVars, row, broken, fixedVars, crashes>>

\* The exception passes through the request's own session, still open when the
\* framework closes it last.
Unwind(r) ==
    /\ job[r] = "raised" /\ LoopIsFree
    /\ job' = [job EXCEPT ![r] = "over"]
    /\ row' = [row EXCEPT ![r] = "gone"]
    /\ held' = held \ {Own(r)}
    /\ UNCHANGED <<pc, status, waiting, limiterVars, broken, unlucky, fixedVars, crashes>>

-----------------------------------------------------------------------------
\* The process dies and is started again: nothing resumes what it was doing.
Crash ==
    /\ crashes < CrashBudget
    /\ crashes' = crashes + 1
    /\ waiting' = NoRequest
    /\ held' = {}
    /\ pc' = [r \in Request |-> IF pc[r] \in {"idle", "done"} THEN pc[r] ELSE "lost"]
    /\ row' = [r \in Request |-> IF row[r] = "flushed" THEN "gone" ELSE row[r]]
    /\ job' = [r \in Request |-> IF job[r] = "none" THEN "none" ELSE "over"]
    /\ unlucky' = unlucky \union {r \in Request : job[r] \notin {"none", "over"}}
    /\ UNCHANGED <<status, limiterVars, broken, fixedVars>>

Step(r) ==
    \/ CheckRateLimit(r) \/ Resume(r) \/ Unblock(r) \/ LoopTimesOut(r)
    \/ Start(r) \/ RunPipeline(r) \/ Persist(r) \/ Read(r) \/ StartEval(r) \/ Close(r)

JobStep(r) ==
    StartJob(r) \/ RunEvaluation(r) \/ RecordOutcome(r) \/ FailToRecord(r) \/ Unwind(r)

Next ==
    \/ \E r \in Request : Send(r) \/ Ready(r) \/ Step(r) \/ JobStep(r)
    \/ NextWindow
    \/ Crash

Spec == Init /\ [][Next]_vars

\* The loop, the threads and the pool's timer go on; Redis and the database
\* answer or fail.  Clients, the clock and crashes owe nothing.
Fairness == \A r \in Request : WF_vars(Step(r)) /\ WF_vars(JobStep(r))

FairSpec == Spec /\ Fairness

-----------------------------------------------------------------------------
\* Properties.

\* A connection is in the hands of a session whose request is being handled, or
\* whose job runs: every way out of a request and of a job, the exceptional ones
\* included, returns it, and the loop never waits for a request that has one
\* (session_scope, get_db, get_principal).
PoolAccounted ==
    /\ Cardinality(held) <= PoolSize
    /\ \A r \in Request :
        /\ Own(r) \in held =>
              \/ pc[r] \in {"admitted", "working", "persisting", "closing"}
              \/ ~commitFirst /\ pc[r] = "done" /\ job[r] \notin {"none", "over"}
        /\ Job(r) \in held => job[r] = "finishing"
        /\ waiting = r => pc[r] = "blocked" /\ Own(r) \notin held
        /\ pc[r] = "blocked" => waiting = r

\* Requests of the key that the limiter has let through in a window, Redis
\* having answered.
LetThrough(w) ==
    {r \in Request : /\ bucket[r] = w /\ count[r] > 0
                     /\ pc[r] \notin {"idle", "limiting", "limited", "lost"}
                     /\ status[r] # RateLimited}

\* Whatever the order in which Redis counts and the loop resumes, at most Limit
\* requests a window pass on Redis's answer, and a request is refused only after
\* Limit others were counted in its window (check_rate_limit).
RateRespected ==
    /\ \A w \in 0..LastWindow : Cardinality(LetThrough(w)) <= Limit
    /\ \A r \in Request : status[r] = RateLimited => hits[bucket[r]] > Limit

\* With the framework that commits first, a client that was told the id of an
\* evaluation run finds the run, and once its job is over the run has its
\* outcome, unless the job met a crash, an aborted transaction or an exhausted
\* pool; with the other, a run that was announced is never recorded
\* (start_eval, _job).
RunRecorded ==
    \A r \in Request :
        /\ commitFirst /\ pc[r] = "done" /\ status[r] = 202
              => row[r] \in {"running", "done", "failed"}
        /\ commitFirst /\ job[r] = "over" /\ r \notin unlucky => row[r] \in {"done", "failed"}
        /\ ~commitFirst => row[r] \in {"none", "flushed", "gone"}

\* No request is being handled and no job is under way.
Quiet ==
    \A r \in Request : /\ pc[r] \in {"idle", "done", "lost"}
                       /\ job[r] \in {"none", "over"}

\* Every request is answered unless the process dies under it, and every job
\* comes to an end, although the loop may wait for connections only it can
\* release and threads may wait for connections held by requests that wait for
\* threads (get_principal, run_in_threadpool, create_engine).
EveryoneServed == []<>Quiet
=============================================================================
