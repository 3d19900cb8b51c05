--------------------------- MODULE ServingProofs ---------------------------
(***************************************************************************)
(* Connections, the rate limit and evaluation runs, for any number of      *)
(* requests, connections, threads, windows and crashes, and whatever each  *)
(* request asks for.                                                       *)
(***************************************************************************)
EXTENDS Serving, FiniteSetTheorems, TLAPS

\* Until the limiter has answered nothing is decided, and what it answered tells
\* the requests of a window apart, in the order in which they were counted.
Counted ==
    /\ \A r \in Request :
        /\ pc[r] \in {"idle", "limiting"} => count[r] = 0
        /\ pc[r] \in {"idle", "limiting", "limited", "blocked", "admitted", "working",
                      "persisting"} => status[r] = 0
        /\ count[r] <= hits[bucket[r]]
        /\ (pc[r] \notin {"idle", "limiting", "limited", "lost"} /\ status[r] # RateLimited)
              => count[r] <= Limit
        /\ status[r] = RateLimited => count[r] > Limit
    /\ \A r, s \in Request :
          r # s /\ count[r] > 0 /\ bucket[r] = bucket[s] => count[r] # count[s]

\* A job belongs to an evaluation that was announced; its run is visible to it
\* if the framework commits first.
Announced ==
    /\ broken \subseteq unlucky
    /\ \A r \in Request :
        /\ job[r] # "none" => pc[r] = "done" /\ status[r] = 202
        /\ commitFirst => job[r] # "raised"
        /\ commitFirst /\ job[r] \in {"queued", "rows", "finishing"} => row[r] = "running"

IInv ==
    /\ TypeOK
    /\ Counted
    /\ IsFiniteSet(held) /\ PoolAccounted
    /\ Announced /\ RunRecorded

\* The routes that only read end with one of these statuses.
LEMMA ReadIsQuery ==
    ASSUME NEW r \in Request, Read(r)
    PROVE  \E S \in SUBSET {200, NotFound, InternalError} : Query(r, S)
BY DEF Read, GetTrace, Summary, GetRun, ReadQueue, Search

-----------------------------------------------------------------------------
\* The pool

\* Sessions of different requests, and of a request and its job, differ.
LEMMA SessionsDiffer ==
    \A r, q \in Request : Own(r) # Job(q) /\ (Own(r) = Own(q) => r = q) /\ (Job(r) = Job(q) => r = q)
BY DEF Own, Job

\* Taking and returning connections keeps the pool within its size.
LEMMA PoolSizeKept ==
    ASSUME IsFiniteSet(held), Cardinality(held) <= PoolSize,
           \/ held' \subseteq held
           \/ \E s : Checkout(s)
           \/ ConnectionIsFree /\ \E s : held' = held \union {s}
    PROVE  IsFiniteSet(held)' /\ (Cardinality(held) <= PoolSize)'
<1>1. Cardinality(held) \in Nat /\ PoolSize \in Nat
  BY FS_CardinalityType, ServingConstants
<1>2. CASE held' \subseteq held
  <2>1. IsFiniteSet(held') /\ Cardinality(held') <= Cardinality(held)
    BY <1>2, FS_Subset
  <2>2. Cardinality(held') \in Nat
    BY <2>1, FS_CardinalityType
  <2> QED BY <1>1, <2>1, <2>2
<1>3. ASSUME NEW s, ConnectionIsFree, held' = held \union {s}
      PROVE  IsFiniteSet(held') /\ Cardinality(held') <= PoolSize
  <2>1. IsFiniteSet(held') /\ Cardinality(held') <= Cardinality(held) + 1
    BY <1>1, <1>3, FS_AddElement
  <2>2. Cardinality(held') \in Nat
    BY <2>1, FS_CardinalityType
  <2> QED BY <1>1, <1>3, <2>1, <2>2 DEF ConnectionIsFree
<1> QED BY <1>2, <1>3 DEF Checkout
-----------------------------------------------------------------------------
\* Types

\* What a route may conclude with is a status.
LEMMA ConcludeType ==
    ASSUME TypeOK, NEW r \in Request, \E s \in Statuses : Conclude(r, s)
    PROVE  /\ pc' \in [Request -> {"idle", "limiting", "limited", "blocked", "admitted",
                                   "working", "persisting", "closing", "done", "lost"}]
           /\ status' \in [Request -> Statuses]
BY DEF TypeOK, Conclude, Goto

\* Nor does a session that takes or returns a connection become another thing.
LEMMA HeldType ==
    ASSUME TypeOK, NEW r \in Request,
           \/ Checkout(Own(r)) \/ Checkout(Job(r)) \/ UNCHANGED held
           \/ held' = held \union {Own(r)}
    PROVE  held' \subseteq Session
BY DEF TypeOK, Checkout, Session

LEMMA TypeStep == TypeOK /\ [Next]_vars => TypeOK'
<1> SUFFICES ASSUME TypeOK, [Next]_vars PROVE TypeOK'
  OBVIOUS
<1> USE ServingConstants
<1>1. \A r \in Request : Own(r) \in Session /\ Job(r) \in Session
  BY DEF Session
<1>2. 401 \in Statuses /\ 429 \in Statuses /\ 404 \in Statuses /\ 500 \in Statuses /\ 200 \in Statuses
      /\ 202 \in Statuses
  BY DEF Statuses
<1> USE DEF fixedVars, limiterVars, jobVars, Goto, Unauthorized, RateLimited, NotFound, InternalError
<1>3. ASSUME NEW r \in Request, Send(r) PROVE TypeOK'
  BY <1>3, <1>2, ConcludeType DEF Send, TypeOK
<1>4. ASSUME NEW r \in Request, CheckRateLimit(r) PROVE TypeOK'
  <2>1. window \in 0..LastWindow /\ hits[window] + 1 \in Nat
    BY DEF TypeOK
  <2>2. hits' \in [0..LastWindow -> Nat]
    BY <1>4, <2>1 DEF CheckRateLimit, TypeOK
  <2>3. count' \in [Request -> Nat]
    BY <1>4, <2>1, <2>2 DEF CheckRateLimit, TypeOK
  <2> QED BY <1>4, <2>1, <2>2, <2>3 DEF CheckRateLimit, TypeOK
<1>5. ASSUME NEW r \in Request, Resume(r) PROVE TypeOK'
  BY <1>5, <1>1, <1>2, ConcludeType DEF Resume, Identify, TypeOK
<1>6. ASSUME NEW r \in Request, Ready(r) \/ Unblock(r) \/ LoopTimesOut(r) PROVE TypeOK'
  <2>1. CASE Ready(r)
    BY <2>1, <1>2, ConcludeType DEF Ready, TypeOK
  <2>2. CASE Unblock(r)
    <3>1. held' \subseteq Session
      BY <2>2, HeldType DEF Unblock, Identify
    <3> QED BY <2>2, <3>1, <1>2, ConcludeType DEF Unblock, Identify, TypeOK
  <2>3. CASE LoopTimesOut(r)
    <3>1. \E s \in Statuses : Conclude(r, s)
      BY <2>3, <1>2 DEF LoopTimesOut
    <3> QED BY <2>3, <3>1, ConcludeType DEF LoopTimesOut, TypeOK
  <2> QED BY <1>6, <2>1, <2>2, <2>3
<1>7. ASSUME NEW r \in Request, Start(r) \/ RunPipeline(r) PROVE TypeOK'
  BY <1>7, <1>1 DEF Start, RunPipeline, Checkout, TypeOK
<1>8. ASSUME NEW r \in Request, Persist(r) PROVE TypeOK'
  <2>1. held' \subseteq Session
    BY <1>8, HeldType DEF Persist
  <2>2. \E s \in Statuses : Conclude(r, s)
    BY <1>8, <1>2 DEF Persist
  <2> QED BY <1>8, <2>1, <2>2, ConcludeType DEF Persist, TypeOK
<1>9. ASSUME NEW r \in Request, Read(r) PROVE TypeOK'
  <2>1. PICK S \in SUBSET {200, NotFound, InternalError} : Query(r, S)
    BY <1>9, ReadIsQuery
  <2>2. held' \subseteq Session
    BY <2>1, HeldType DEF Query
  <2>3. \E s \in Statuses : Conclude(r, s)
    BY <2>1, <1>2 DEF Query
  <2> QED BY <2>1, <2>2, <2>3, ConcludeType DEF Query, TypeOK
<1>10. ASSUME NEW r \in Request, StartEval(r) PROVE TypeOK'
  <2>1. held' \subseteq Session
    BY <1>10, HeldType DEF StartEval
  <2>2. \E s \in Statuses : Conclude(r, s)
    BY <1>10, <1>2 DEF StartEval
  <2>3. row' \in [Request -> {"none", "flushed", "running", "done", "failed", "gone"}]
    BY <1>10 DEF StartEval, TypeOK
  <2> QED BY <1>10, <2>1, <2>2, <2>3, ConcludeType DEF StartEval, TypeOK
<1>11. ASSUME NEW r \in Request, Close(r) PROVE TypeOK'
  <2>1. held' \subseteq Session
    BY <1>11 DEF Close, Released, TypeOK
  <2>2. row' \in [Request -> {"none", "flushed", "running", "done", "failed", "gone"}]
    BY <1>11 DEF Close, Committed, TypeOK
  <2>3. job' \in [Request -> {"none", "queued", "rows", "finishing", "raised", "over"}]
    <3>1. job' = job \/ job' = [job EXCEPT ![r] = "queued"]
      BY <1>11 DEF Close
    <3> QED BY <3>1 DEF TypeOK
  <2> QED BY <1>11, <2>1, <2>2, <2>3 DEF Close, TypeOK
<1>12. ASSUME NEW r \in Request, StartJob(r) \/ RunEvaluation(r) PROVE TypeOK'
  BY <1>12, <1>1 DEF StartJob, RunEvaluation, Checkout, TypeOK
<1>13. ASSUME NEW r \in Request, RecordOutcome(r) \/ FailToRecord(r) \/ Unwind(r) PROVE TypeOK'
  <2>1. held' \subseteq Session
    BY <1>13 DEF RecordOutcome, FailToRecord, Unwind, TypeOK
  <2>2. row' \in [Request -> {"none", "flushed", "running", "done", "failed", "gone"}]
    BY <1>13 DEF RecordOutcome, FailToRecord, Unwind, TypeOK
  <2>3. job' \in [Request -> {"none", "queued", "rows", "finishing", "raised", "over"}]
    BY <1>13 DEF RecordOutcome, FailToRecord, Unwind, TypeOK
  <2> QED BY <1>13, <2>1, <2>2, <2>3 DEF RecordOutcome, FailToRecord, Unwind, TypeOK
<1>14. CASE NextWindow
  BY <1>14 DEF NextWindow, TypeOK
<1>15. CASE Crash
  BY <1>15 DEF Crash, TypeOK
<1>16. CASE UNCHANGED vars
  BY <1>16 DEF vars, TypeOK
<1> QED
  BY <1>3, <1>4, <1>5, <1>6, <1>7, <1>8, <1>9, <1>10, <1>11, <1>12, <1>13, <1>14, <1>15, <1>16
     DEF Next, Step, JobStep

-----------------------------------------------------------------------------
\* The limiter

\* A step that counts nobody keeps what the limiter answered, as long as only
\* one request moves, it is not let through beyond the limit, and it is refused
\* only beyond it.
LEMMA UncountedKeeps ==
    ASSUME TypeOK, Counted, NEW r \in Request, UNCHANGED <<hits, count, bucket>>,
           NEW l, pc' = [pc EXCEPT ![r] = l],
           NEW s, status' = [status EXCEPT ![r] = s],
           l \in {"idle", "limiting"} => count[r] = 0,
           l \in {"idle", "limiting", "limited", "blocked", "admitted", "working",
                  "persisting"} => s = 0,
           l \notin {"idle", "limiting", "limited", "lost"} /\ s # RateLimited => count[r] <= Limit,
           s = RateLimited => count[r] > Limit
    PROVE  Counted'
<1>1. /\ pc'[r] = l /\ status'[r] = s
      /\ \A q \in Request \ {r} : pc'[q] = pc[q] /\ status'[q] = status[q]
  BY DEF TypeOK
<1> QED BY <1>1 DEF Counted

\* Nor does the end of a request that was not counted beyond the limit, or that
\* is refused because it was.
LEMMA EndKeeps ==
    ASSUME TypeOK, Counted, NEW r \in Request, UNCHANGED <<hits, count, bucket>>,
           NEW l \in {"closing", "done"}, pc' = [pc EXCEPT ![r] = l],
           NEW s, status' = [status EXCEPT ![r] = s],
           s # RateLimited => count[r] <= Limit,
           s = RateLimited => count[r] > Limit
    PROVE  Counted'
BY UncountedKeeps

\* The request that is counted next gets a number nobody of its window has.
LEMMA CountingKeeps ==
    ASSUME TypeOK, Counted, NEW r \in Request, CheckRateLimit(r)
    PROVE  Counted'
<1> DEFINE w == window
<1>1. w \in 0..LastWindow /\ hits[w] \in Nat /\ count[r] = 0 /\ status[r] = 0
  BY DEF TypeOK, CheckRateLimit, Counted
<1>2. /\ pc'[r] = "limited" /\ bucket'[r] = w
      /\ \A q \in Request \ {r} : /\ pc'[q] = pc[q] /\ bucket'[q] = bucket[q]
                                  /\ count'[q] = count[q]
      /\ status' = status
  BY DEF CheckRateLimit, Goto, TypeOK
<1>3. \A v \in 0..LastWindow : hits'[v] \in Nat /\ hits[v] \in Nat /\ hits[v] <= hits'[v]
  <2>1. hits' = hits \/ hits' = [hits EXCEPT ![w] = hits[w] + 1]
    BY DEF CheckRateLimit
  <2>2. \A v \in 0..LastWindow : hits[v] \in Nat
    BY DEF TypeOK
  <2>3. CASE hits' = hits
    BY <2>2, <2>3
  <2>4. CASE hits' = [hits EXCEPT ![w] = hits[w] + 1]
    <3>1. \A v \in 0..LastWindow : hits'[v] = IF v = w THEN hits[v] + 1 ELSE hits[v]
      BY <2>4 DEF TypeOK
    <3> QED BY <2>2, <3>1
  <2> QED BY <2>1, <2>3, <2>4
<1>4. \/ count'[r] = 0
      \/ count'[r] = hits'[w] /\ hits'[w] = hits[w] + 1
  BY <1>1 DEF CheckRateLimit, TypeOK
<1>5. \A q \in Request : count[q] \in Nat /\ bucket[q] \in 0..LastWindow
  BY DEF TypeOK
<1>6. \A q \in Request : count[q] <= hits[bucket[q]]
  BY DEF Counted
<1>7. \A q \in Request : count'[q] <= hits'[bucket'[q]]
  <2>1. ASSUME NEW q \in Request \ {r} PROVE count'[q] <= hits'[bucket'[q]]
    BY <1>2, <1>3, <1>5, <1>6
  <2>2. count'[r] <= hits'[bucket'[r]]
    BY <1>1, <1>2, <1>3, <1>4
  <2> QED BY <2>1, <2>2
<1>8. ASSUME NEW q \in Request \ {r}, count'[r] > 0, bucket'[q] = w
      PROVE  count'[q] # count'[r]
  BY <1>1, <1>2, <1>3, <1>4, <1>5, <1>6, <1>8
<1>9. \A q, s \in Request : q # s /\ count'[q] > 0 /\ bucket'[q] = bucket'[s] => count'[q] # count'[s]
  <2>1. ASSUME NEW q \in Request, NEW s \in Request, q # s, count'[q] > 0, bucket'[q] = bucket'[s],
               count'[q] = count'[s]
        PROVE  FALSE
    <3>1. CASE q = r
      BY <3>1, <2>1, <1>2, <1>8
    <3>2. CASE s = r
      BY <3>2, <2>1, <1>2, <1>8
    <3>3. CASE q # r /\ s # r
      BY <3>3, <2>1, <1>2 DEF Counted
    <3> QED BY <3>1, <3>2, <3>3
  <2> QED BY <2>1
<1>10. ASSUME NEW q \in Request
       PROVE  /\ pc'[q] \in {"idle", "limiting"} => count'[q] = 0
              /\ pc'[q] \in {"idle", "limiting", "limited", "blocked", "admitted", "working",
                             "persisting"} => status'[q] = 0
              /\ pc'[q] \notin {"idle", "limiting", "limited", "lost"} /\ status'[q] # RateLimited
                    => count'[q] <= Limit
              /\ status'[q] = RateLimited => count'[q] > Limit
  <2>1. CASE q = r
    BY <2>1, <1>1, <1>2 DEF RateLimited
  <2>2. CASE q # r
    BY <2>2, <1>2 DEF Counted
  <2> QED BY <2>1, <2>2
<1> QED BY <1>7, <1>9, <1>10 DEF Counted

LEMMA CountedStep ==
    ASSUME TypeOK, Counted, PoolAccounted, [Next]_vars
    PROVE  Counted'
<1> USE ServingConstants DEF limiterVars
<1>1. \A r \in Request :
        /\ pc[r] \in {"idle", "blocked", "admitted", "working", "persisting"}
              => status[r] = 0 /\ count[r] <= Limit
        /\ pc[r] = "limited" => status[r] = 0
        /\ pc[r] = "idle" => count[r] = 0
        /\ waiting = r => pc[r] = "blocked"
        /\ count[r] \in Nat
  <2>1. \A r \in Request : count[r] \in Nat /\ (waiting = r => pc[r] = "blocked")
    BY DEF TypeOK, PoolAccounted
  <2>2. \A r \in Request : pc[r] = "idle" => count[r] = 0
    BY DEF Counted
  <2>3. \A r \in Request :
          pc[r] \in {"idle", "limited", "blocked", "admitted", "working", "persisting"}
              => status[r] = 0
    BY DEF Counted
  <2>4. \A r \in Request :
          pc[r] \in {"blocked", "admitted", "working", "persisting"} => count[r] <= Limit
    BY <2>3 DEF Counted, RateLimited
  <2> QED BY <2>1, <2>2, <2>3, <2>4
<1>2. ASSUME NEW r \in Request, NEW l \in {"limiting", "blocked", "admitted", "working", "persisting"},
             UNCHANGED limiterVars, Goto(r, l), UNCHANGED status,
             status[r] = 0, count[r] <= Limit, l = "limiting" => count[r] = 0
      PROVE  Counted'
  <2>1. status' = [status EXCEPT ![r] = 0]
    BY <1>2 DEF TypeOK
  <2>2. pc' = [pc EXCEPT ![r] = l] /\ UNCHANGED <<hits, count, bucket>>
    BY <1>2 DEF Goto
  <2>3. ~(0 = RateLimited) /\ (l \in {"idle", "limiting"} => count[r] = 0)
    BY <1>2 DEF RateLimited
  <2> QED BY <1>2, <2>1, <2>2, <2>3, UncountedKeeps
<1>3. ASSUME NEW r \in Request, NEW s \in {200, 202, 401, 404, 500},
             UNCHANGED limiterVars, Conclude(r, s), count[r] <= Limit
      PROVE  Counted'
  <2>1. /\ pc' = [pc EXCEPT ![r] = "closing"] /\ status' = [status EXCEPT ![r] = s]
        /\ UNCHANGED <<hits, count, bucket>>
    BY <1>3 DEF Conclude, Goto
  <2>2. ~(s = RateLimited)
    BY DEF RateLimited
  <2> QED BY <1>3, <2>1, <2>2, EndKeeps
<1> USE DEF Unauthorized, NotFound, InternalError
<1>4. ASSUME NEW r \in Request, Send(r) PROVE Counted'
  BY <1>4, <1>1, <1>2, <1>3 DEF Send
<1>5. ASSUME NEW r \in Request, CheckRateLimit(r) PROVE Counted'
  BY <1>5, CountingKeeps
<1>6. ASSUME NEW r \in Request, Resume(r) PROVE Counted'
  <2>1. CASE OverLimit(r) /\ Conclude(r, RateLimited)
    <3>1. /\ pc' = [pc EXCEPT ![r] = "closing"] /\ status' = [status EXCEPT ![r] = RateLimited]
          /\ UNCHANGED <<hits, count, bucket>>
      BY <2>1, <1>6 DEF Resume, Conclude, Goto
    <3> QED BY <2>1, <3>1, EndKeeps DEF OverLimit
  <2>2. CASE ~OverLimit(r) /\ Goto(r, "blocked") /\ UNCHANGED status
    BY <2>2, <1>6, <1>1, <1>2 DEF Resume, OverLimit
  <2>3. CASE ~OverLimit(r) /\ Identify(r)
    BY <2>3, <1>6, <1>1, <1>2, <1>3 DEF Resume, OverLimit, Identify
  <2> QED BY <1>6, <2>1, <2>2, <2>3 DEF Resume
<1>7. ASSUME NEW r \in Request, Ready(r) \/ Unblock(r) \/ LoopTimesOut(r) PROVE Counted'
  BY <1>7, <1>1, <1>2, <1>3 DEF Ready, Unblock, LoopTimesOut, Identify
<1>8. ASSUME NEW r \in Request, Start(r) \/ RunPipeline(r) PROVE Counted'
  BY <1>8, <1>1, <1>2 DEF Start, RunPipeline
<1>9. ASSUME NEW r \in Request, Persist(r) \/ StartEval(r) PROVE Counted'
  BY <1>9, <1>1, <1>3 DEF Persist, StartEval
<1>10. ASSUME NEW r \in Request, Read(r) PROVE Counted'
  BY <1>10, <1>1, <1>3, ReadIsQuery DEF Query
<1>11. ASSUME NEW r \in Request, Close(r) PROVE Counted'
  <2>1. status' = [status EXCEPT ![r] = status[r]] /\ pc' = [pc EXCEPT ![r] = "done"]
    BY <1>11 DEF Close, Goto, TypeOK
  <2>2. /\ status[r] = RateLimited => count[r] > Limit
        /\ status[r] # RateLimited => count[r] <= Limit
    BY <1>11 DEF Close, Counted
  <2>3. UNCHANGED <<hits, count, bucket>>
    BY <1>11 DEF Close
  <2> QED BY <2>1, <2>2, <2>3, EndKeeps
<1>12. ASSUME NEW r \in Request, JobStep(r) PROVE Counted'
  <2>1. UNCHANGED <<pc, status, hits, count, bucket>>
    BY <1>12 DEF JobStep, StartJob, RunEvaluation, RecordOutcome, FailToRecord, Unwind
  <2> QED BY <2>1 DEF Counted
<1>13. CASE NextWindow
  BY <1>13 DEF NextWindow, Counted
<1>14. CASE Crash
  <2>1. UNCHANGED <<status, hits, count, bucket>>
    BY <1>14 DEF Crash
  <2>2. \A r \in Request : pc'[r] = "lost" \/ pc'[r] = pc[r]
    BY <1>14 DEF Crash
  <2> QED BY <2>1, <2>2 DEF Counted
<1>15. CASE UNCHANGED vars
  BY <1>15 DEF vars, Counted
<1> QED
  BY <1>4, <1>5, <1>6, <1>7, <1>8, <1>9, <1>10, <1>11, <1>12, <1>13, <1>14, <1>15 DEF Next, Step

-----------------------------------------------------------------------------
\* Runs

\* A request that is neither answered before a step nor after it has no job, and
\* moving it disturbs no run.
LEMMA UnansweredKeepsRuns ==
    ASSUME Announced, RunRecorded, NEW r \in Request,
           UNCHANGED <<row, job, broken, unlucky, commitFirst>>,
           pc[r] # "done", pc'[r] # "done",
           \A q \in Request \ {r} : pc'[q] = pc[q] /\ status'[q] = status[q]
    PROVE  Announced' /\ RunRecorded'
<1>1. job[r] = "none"
  BY DEF Announced
<1> QED BY <1>1 DEF Announced, RunRecorded

\* Nor does a step of a job on its own run, as long as what it says of it is true.
LEMMA OwnRunKeeps ==
    ASSUME Announced, RunRecorded, NEW r \in Request,
           UNCHANGED <<pc, status, commitFirst>>, pc[r] = "done", status[r] = 202,
           \A q \in Request \ {r} : row'[q] = row[q] /\ job'[q] = job[q],
           \A q \in Request \ {r} : q \in unlucky' <=> q \in unlucky,
           broken' \subseteq unlucky',
           commitFirst => /\ job'[r] # "raised"
                          /\ row'[r] \in {"running", "done", "failed"}
                          /\ job'[r] \in {"queued", "rows", "finishing"} => row'[r] = "running"
                          /\ job'[r] = "over" /\ r \notin unlucky' => row'[r] \in {"done", "failed"},
           ~commitFirst => row'[r] \in {"none", "flushed", "gone"}
    PROVE  Announced' /\ RunRecorded'
<1>1. Announced'
  BY DEF Announced
<1>2. RunRecorded'
  BY DEF RunRecorded
<1> QED BY <1>1, <1>2

LEMMA RunsStep ==
    ASSUME TypeOK, Announced, RunRecorded, PoolAccounted, [Next]_vars
    PROVE  Announced' /\ RunRecorded'
<1> USE DEF fixedVars, jobVars
<1>1. ASSUME NEW r \in Request, NEW l, Goto(r, l), UNCHANGED status, UNCHANGED fixedVars,
             UNCHANGED jobVars, pc[r] # "done", l # "done"
      PROVE  Announced' /\ RunRecorded'
  BY <1>1, UnansweredKeepsRuns DEF Goto, TypeOK
<1>2. ASSUME NEW r \in Request, NEW s, Conclude(r, s), UNCHANGED fixedVars, UNCHANGED jobVars,
             pc[r] # "done"
      PROVE  Announced' /\ RunRecorded'
  BY <1>2, UnansweredKeepsRuns DEF Conclude, Goto, TypeOK
<1>3. ASSUME NEW r \in Request, Send(r) \/ CheckRateLimit(r) PROVE Announced' /\ RunRecorded'
  BY <1>3, <1>1, <1>2 DEF Send, CheckRateLimit
<1>4. ASSUME NEW r \in Request, Resume(r) PROVE Announced' /\ RunRecorded'
  BY <1>4, <1>1, <1>2 DEF Resume, Identify
<1>5. ASSUME NEW r \in Request, Ready(r) \/ Unblock(r) \/ LoopTimesOut(r)
      PROVE  Announced' /\ RunRecorded'
  <2>1. waiting = r => pc[r] = "blocked"
    BY DEF PoolAccounted
  <2> QED BY <1>5, <2>1, <1>1, <1>2 DEF Ready, Unblock, LoopTimesOut, Identify
<1>6. ASSUME NEW r \in Request, Start(r) \/ RunPipeline(r) \/ Persist(r)
      PROVE  Announced' /\ RunRecorded'
  BY <1>6, <1>1, <1>2 DEF Start, RunPipeline, Persist
<1>7. ASSUME NEW r \in Request, Read(r) PROVE Announced' /\ RunRecorded'
  BY <1>7, <1>2, ReadIsQuery DEF Query
<1>8. ASSUME NEW r \in Request, StartEval(r) PROVE Announced' /\ RunRecorded'
  <2>1. PICK s : Conclude(r, s)
    BY <1>8 DEF StartEval
  <2>2. /\ pc[r] = "working" /\ pc'[r] = "closing"
        /\ \A q \in Request \ {r} : pc'[q] = pc[q] /\ status'[q] = status[q]
        /\ UNCHANGED <<job, broken, unlucky, commitFirst>>
    BY <1>8, <2>1 DEF StartEval, Conclude, Goto, TypeOK
  <2>3. /\ \A q \in Request \ {r} : row'[q] = row[q]
        /\ row'[r] = "flushed" \/ row'[r] = row[r]
    <3>1. row' = [row EXCEPT ![r] = "flushed"] \/ row' = row
      BY <1>8 DEF StartEval
    <3> QED BY <3>1 DEF TypeOK
  <2>4. job[r] = "none"
    BY <2>2 DEF Announced
  <2> QED BY <2>2, <2>3, <2>4 DEF Announced, RunRecorded
<1>9. ASSUME NEW r \in Request, Close(r) PROVE Announced' /\ RunRecorded'
  <2>1. /\ pc[r] = "closing" /\ pc'[r] = "done" /\ status'[r] = status[r]
        /\ \A q \in Request \ {r} : pc'[q] = pc[q] /\ status'[q] = status[q]
        /\ UNCHANGED <<broken, unlucky, commitFirst>>
    BY <1>9 DEF Close, Goto, TypeOK
  <2>2. job[r] = "none"
    BY <2>1 DEF Announced
  <2>3. CASE status[r] # 202
    BY <2>1, <2>2, <2>3, <1>9 DEF Close, Announced, RunRecorded
  <2>4. CASE status[r] = 202
    <3>1. job' = [job EXCEPT ![r] = "queued"]
      BY <2>4, <1>9 DEF Close
    <3>2. job'[r] = "queued" /\ \A q \in Request \ {r} : job'[q] = job[q]
      BY <3>1 DEF TypeOK
    <3>3. row' = IF commitFirst THEN [row EXCEPT ![r] = "running"] ELSE row
      BY <2>4, <1>9 DEF Close, Committed
    <3>4. /\ \A q \in Request \ {r} : row'[q] = row[q]
          /\ row'[r] = IF commitFirst THEN "running" ELSE row[r]
      BY <3>3 DEF TypeOK
    <3>5. Announced'
      BY <2>1, <2>4, <3>2, <3>4 DEF Announced
    <3>6. RunRecorded'
      BY <2>1, <2>4, <3>2, <3>4 DEF RunRecorded
    <3> QED BY <3>5, <3>6
  <2> QED BY <2>3, <2>4
<1>10. ASSUME NEW r \in Request, JobStep(r) PROVE Announced' /\ RunRecorded'
  <2>1. /\ job[r] # "none" /\ UNCHANGED <<pc, status, commitFirst>>
    BY <1>10 DEF JobStep, StartJob, RunEvaluation, RecordOutcome, FailToRecord, Unwind
  <2>2. /\ pc[r] = "done" /\ status[r] = 202 /\ broken \subseteq unlucky
        /\ commitFirst => /\ row[r] \in {"running", "done", "failed"}
                          /\ job[r] \in {"queued", "rows", "finishing"} => row[r] = "running"
                          /\ job[r] # "raised"
        /\ ~commitFirst => row[r] \in {"none", "flushed", "gone"}
    BY <2>1 DEF Announced, RunRecorded
  <2>3. ASSUME NEW j, job' = [job EXCEPT ![r] = j]
        PROVE  job'[r] = j /\ \A q \in Request \ {r} : job'[q] = job[q]
    BY <2>3 DEF TypeOK
  <2>4. ASSUME NEW x, row' = [row EXCEPT ![r] = x]
        PROVE  row'[r] = x /\ \A q \in Request \ {r} : row'[q] = row[q]
    BY <2>4 DEF TypeOK
  <2>5. CASE StartJob(r)
    BY <2>1, <2>2, <2>3, <2>5, OwnRunKeeps DEF StartJob
  <2>6. CASE RunEvaluation(r)
    <3>1. /\ broken' \subseteq unlucky' /\ UNCHANGED row
          /\ \A q \in Request \ {r} : q \in unlucky' <=> q \in unlucky
      BY <2>2, <2>6 DEF RunEvaluation
    <3> QED BY <2>1, <2>2, <2>3, <2>6, <3>1, OwnRunKeeps DEF RunEvaluation
  <2>7. CASE RecordOutcome(r)
    <3>1. commitFirst /\ UNCHANGED <<broken, unlucky>>
      BY <2>2, <2>7 DEF RecordOutcome, RowIsVisible
    <3>2. PICK x \in {"done", "failed"} : row' = [row EXCEPT ![r] = x]
      BY <2>7 DEF RecordOutcome
    <3>3. row'[r] \in {"done", "failed"} /\ \A q \in Request \ {r} : row'[q] = row[q]
      BY <3>2, <2>4
    <3>4. job'[r] = "over" /\ \A q \in Request \ {r} : job'[q] = job[q]
      BY <2>7, <2>3 DEF RecordOutcome
    <3> QED BY <2>1, <2>2, <3>1, <3>3, <3>4, OwnRunKeeps
  <2>8. CASE FailToRecord(r)
    <3>1. /\ broken' \subseteq unlucky' /\ UNCHANGED row
          /\ \A q \in Request \ {r} : q \in unlucky' <=> q \in unlucky
      BY <2>2, <2>8 DEF FailToRecord
    <3>2. commitFirst => r \in unlucky'
      BY <2>2, <2>8 DEF FailToRecord, RowIsVisible
    <3> QED BY <2>1, <2>2, <2>3, <2>8, <3>1, <3>2, OwnRunKeeps DEF FailToRecord
  <2>9. CASE Unwind(r)
    <3>1. ~commitFirst /\ UNCHANGED <<broken, unlucky>>
      BY <2>2, <2>9 DEF Unwind
    <3> QED BY <2>1, <2>2, <2>3, <2>4, <2>9, <3>1, OwnRunKeeps DEF Unwind
  <2> QED BY <1>10, <2>5, <2>6, <2>7, <2>8, <2>9 DEF JobStep
<1>11. CASE NextWindow
  BY <1>11 DEF NextWindow, Announced, RunRecorded
<1>12. CASE Crash
  <2>1. \A r \in Request :
          /\ pc'[r] = "done" <=> pc[r] = "done"
          /\ row'[r] = IF row[r] = "flushed" THEN "gone" ELSE row[r]
          /\ job'[r] = IF job[r] = "none" THEN "none" ELSE "over"
          /\ r \in unlucky' <=> r \in unlucky \/ job[r] \notin {"none", "over"}
    BY <1>12 DEF Crash
  <2>2. UNCHANGED <<status, broken, commitFirst>> /\ unlucky \subseteq unlucky'
    BY <1>12 DEF Crash
  <2>3. Announced'
    BY <2>1, <2>2 DEF Announced
  <2>4. RunRecorded'
    BY <2>1, <2>2 DEF RunRecorded
  <2> QED BY <2>3, <2>4
<1>13. CASE UNCHANGED vars
  BY <1>13 DEF vars, Announced, RunRecorded
<1> QED
  BY <1>3, <1>4, <1>5, <1>6, <1>7, <1>8, <1>9, <1>10, <1>11, <1>12, <1>13 DEF Next, Step

-----------------------------------------------------------------------------
\* Who holds a connection

\* What PoolAccounted says of one request.
Holder(r) ==
    /\ Own(r) \in held =>
          \/ pc[r] \in {"admitted", "working", "persisting", "closing"}
          \/ ~commitFirst /\ pc[r] = "done" /\ job[r] \notin {"none", "over"}
    /\ Job(r) \in held => job[r] = "finishing"
    /\ waiting = r => pc[r] = "blocked" /\ Own(r) \notin held
    /\ pc[r] = "blocked" => waiting = r

\* A step of one request or of its job takes no connection for another, and the
\* loop waits for it or for nobody new.
LEMMA OthersKeepTheirs ==
    ASSUME TypeOK, PoolAccounted, NEW r \in Request, UNCHANGED commitFirst,
           \A q \in Request \ {r} : pc'[q] = pc[q] /\ job'[q] = job[q],
           held' \subseteq held \union {Own(r), Job(r)},
           \A q \in Request \ {r} : Own(q) \in held => Own(q) \in held',
           \/ waiting' = waiting
           \/ waiting \in {r, NoRequest} /\ waiting' \in {r, NoRequest},
           Holder(r)'
    PROVE  \A q \in Request : Holder(q)'
<1>1. ASSUME NEW q \in Request \ {r} PROVE Holder(q)'
  <2>1. Holder(q)
    BY DEF PoolAccounted, Holder
  <2>2. /\ Own(q) \in held' <=> Own(q) \in held
        /\ Job(q) \in held' => Job(q) \in held
    BY SessionsDiffer
  <2>3. waiting' = q <=> waiting = q
    BY ServingConstants
  <2> QED BY <2>1, <2>2, <2>3 DEF Holder
<1> QED BY <1>1

LEMMA PoolStep ==
    ASSUME TypeOK, IsFiniteSet(held), PoolAccounted, Announced, RunRecorded, [Next]_vars
    PROVE  IsFiniteSet(held)' /\ PoolAccounted'
<1>1. IsFiniteSet(held) /\ Cardinality(held) <= PoolSize /\ \A r \in Request : Holder(r)
  BY DEF PoolAccounted, Holder
<1>2. ASSUME IsFiniteSet(held)', (Cardinality(held) <= PoolSize)', \A r \in Request : Holder(r)'
      PROVE  IsFiniteSet(held)' /\ PoolAccounted'
  BY <1>2 DEF PoolAccounted, Holder
<1> USE DEF fixedVars, jobVars
<1>3. ASSUME NEW r \in Request, NEW l, Goto(r, l)
      PROVE  pc'[r] = l /\ \A q \in Request \ {r} : pc'[q] = pc[q]
  BY <1>3 DEF Goto, TypeOK
<1>4. ASSUME NEW r \in Request, NEW j, job' = [job EXCEPT ![r] = j]
      PROVE  job'[r] = j /\ \A q \in Request \ {r} : job'[q] = job[q]
  BY <1>4 DEF TypeOK
\* The request r moves to l; its session may take a connection.
<1>5. ASSUME NEW r \in Request, NEW l, Goto(r, l), UNCHANGED <<job, commitFirst>>,
             \/ UNCHANGED held
             \/ Checkout(Own(r))
             \/ ConnectionIsFree /\ held' = held \union {Own(r)},
             \/ UNCHANGED waiting /\ pc[r] # "blocked"
             \/ waiting \in {r, NoRequest} /\ waiting' = NoRequest,
             \/ Own(r) \notin held /\ UNCHANGED held /\ l # "blocked"
             \/ l \in {"admitted", "working", "persisting", "closing"}
      PROVE  IsFiniteSet(held)' /\ PoolAccounted'
  <2>1. IsFiniteSet(held)' /\ (Cardinality(held) <= PoolSize)'
    BY <1>5, <1>1, PoolSizeKept
  <2>2. held \subseteq held' /\ held' \subseteq held \union {Own(r)}
    BY <1>5 DEF Checkout
  <2>3. waiting' # r
    BY <1>5, <1>1, ServingConstants DEF Holder
  <2>4. Holder(r)'
    BY <1>1, <1>3, <1>5, <2>2, <2>3, SessionsDiffer DEF Holder
  <2>5. \A q \in Request : Holder(q)'
    BY <1>3, <1>5, <2>2, <2>4, OthersKeepTheirs
  <2> QED BY <1>2, <2>1, <2>5
\* The loop begins to wait for r.
<1>6. ASSUME NEW r \in Request, Goto(r, "blocked"), UNCHANGED <<job, commitFirst, held>>,
             pc[r] \in {"idle", "limited"}, waiting = NoRequest, waiting' = r
      PROVE  IsFiniteSet(held)' /\ PoolAccounted'
  <2>1. Holder(r)'
    BY <1>1, <1>3, <1>6 DEF Holder
  <2>2. \A q \in Request : Holder(q)'
    BY <1>3, <1>6, <2>1, OthersKeepTheirs
  <2> QED BY <1>1, <1>2, <1>6, <2>2
<1>7. ASSUME NEW r \in Request, Send(r) \/ CheckRateLimit(r)
      PROVE  IsFiniteSet(held)' /\ PoolAccounted'
  <2>1. Own(r) \notin held /\ pc[r] # "blocked"
    BY <1>1, <1>7 DEF Holder, Send, CheckRateLimit
  <2> QED BY <1>5, <1>7, <2>1 DEF Send, CheckRateLimit, Conclude
<1>8. ASSUME NEW r \in Request, Resume(r) PROVE IsFiniteSet(held)' /\ PoolAccounted'
  BY <1>5, <1>6, <1>8 DEF Resume, Identify, Conclude, LoopIsFree
<1>9. ASSUME NEW r \in Request, Ready(r) \/ Unblock(r) \/ LoopTimesOut(r)
      PROVE  IsFiniteSet(held)' /\ PoolAccounted'
  BY <1>5, <1>6, <1>9 DEF Ready, Unblock, LoopTimesOut, Identify, Conclude, LoopIsFree
<1>10. ASSUME NEW r \in Request, Start(r) \/ RunPipeline(r) \/ Persist(r) \/ StartEval(r)
       PROVE  IsFiniteSet(held)' /\ PoolAccounted'
  BY <1>5, <1>10 DEF Start, RunPipeline, Persist, StartEval, Conclude
<1>11. ASSUME NEW r \in Request, Read(r) PROVE IsFiniteSet(held)' /\ PoolAccounted'
  BY <1>5, <1>11, ReadIsQuery DEF Query, Conclude
<1>12. ASSUME NEW r \in Request, Close(r) PROVE IsFiniteSet(held)' /\ PoolAccounted'
  <2>1. pc[r] = "closing" /\ Goto(r, "done") /\ UNCHANGED <<waiting, commitFirst>> /\ waiting # r
    BY <1>1, <1>12, ServingConstants DEF Close, LoopIsFree
  <2>2. job[r] = "none" /\ Job(r) \notin held
    BY <1>1, <2>1 DEF Announced, Holder
  <2>3. held' \subseteq held /\ \A q \in Request \ {r} : Own(q) \in held => Own(q) \in held'
    BY <1>12, SessionsDiffer DEF Close, Released
  <2>4. job' = job \/ job' = [job EXCEPT ![r] = "queued"]
    BY <1>12 DEF Close
  <2>5. \A q \in Request \ {r} : job'[q] = job[q]
    BY <2>4, <1>4
  <2>6. Own(r) \in held' => ~commitFirst /\ job' = [job EXCEPT ![r] = "queued"]
    BY <1>12 DEF Close, Released
  <2>7. Holder(r)'
    BY <2>1, <2>2, <2>3, <2>6, <1>3, <1>4 DEF Holder
  <2>8. \A q \in Request : Holder(q)'
    BY <1>3, <2>1, <2>3, <2>5, <2>7, OthersKeepTheirs
  <2>9. IsFiniteSet(held)' /\ (Cardinality(held) <= PoolSize)'
    BY <1>1, <2>3, PoolSizeKept
  <2> QED BY <1>2, <2>8, <2>9
<1>13. ASSUME NEW r \in Request, JobStep(r) PROVE IsFiniteSet(held)' /\ PoolAccounted'
  <2>1. job[r] # "none" /\ UNCHANGED <<pc, waiting, commitFirst>>
    BY <1>13 DEF JobStep, StartJob, RunEvaluation, RecordOutcome, FailToRecord, Unwind
  <2>2. /\ pc[r] = "done" /\ waiting # r
        /\ Own(r) \in held => ~commitFirst /\ job[r] \notin {"none", "over"}
        /\ Job(r) \in held => job[r] = "finishing"
        /\ row[r] = "running" => commitFirst
    BY <1>1, <2>1 DEF Announced, Holder, RunRecorded
  <2>3. PICK j \in {"rows", "finishing", "raised", "over"} : job' = [job EXCEPT ![r] = j]
    BY <1>13 DEF JobStep, StartJob, RunEvaluation, RecordOutcome, FailToRecord, Unwind
  <2>4. job'[r] = j /\ \A q \in Request \ {r} : job'[q] = job[q]
    BY <2>3, <1>4
  <2>5. /\ held' \subseteq held \/ Checkout(Job(r))
        /\ \A q \in Request \ {r} : Own(q) \in held => Own(q) \in held'
    BY <1>13, SessionsDiffer
       DEF JobStep, StartJob, RunEvaluation, RecordOutcome, FailToRecord, Unwind, Checkout
  <2>6. IsFiniteSet(held)' /\ (Cardinality(held) <= PoolSize)'
    BY <1>1, <2>5, PoolSizeKept
  <2>7. held' \subseteq held \union {Own(r), Job(r)}
    BY <2>5 DEF Checkout
  <2>8. Own(r) \in held' => Own(r) \in held /\ j # "over"
    <3>1. Own(r) \in held' => Own(r) \in held
      BY <2>5, SessionsDiffer DEF Checkout
    <3>2. CASE StartJob(r) \/ RunEvaluation(r)
      BY <3>1, <3>2, <2>4, <1>4 DEF StartJob, RunEvaluation
    <3>3. CASE RecordOutcome(r)
      BY <3>1, <3>3, <2>2 DEF RecordOutcome, RowIsVisible
    <3>4. CASE FailToRecord(r)
      <4>1. job'[r] = IF commitFirst THEN "over" ELSE "raised"
        BY <3>4, <1>4 DEF FailToRecord
      <4> QED BY <3>1, <4>1, <2>2, <2>4
    <3>5. CASE Unwind(r)
      BY <3>5 DEF Unwind
    <3> QED BY <1>13, <3>2, <3>3, <3>4, <3>5 DEF JobStep
  <2>9. Job(r) \in held' => j = "finishing"
    <3>1. CASE StartJob(r) \/ Unwind(r)
      BY <3>1, <2>2, SessionsDiffer DEF StartJob, Unwind
    <3>2. CASE RunEvaluation(r)
      BY <3>2, <2>4, <1>4 DEF RunEvaluation
    <3>3. CASE RecordOutcome(r) \/ FailToRecord(r)
      BY <3>3 DEF RecordOutcome, FailToRecord
    <3> QED BY <1>13, <3>1, <3>2, <3>3 DEF JobStep
  <2>10. Holder(r)'
    BY <2>1, <2>2, <2>3, <2>4, <2>8, <2>9 DEF Holder
  <2>11. \A q \in Request : Holder(q)'
    BY <2>1, <2>4, <2>5, <2>7, <2>10, OthersKeepTheirs
  <2> QED BY <1>2, <2>6, <2>11
<1>14. CASE NextWindow \/ UNCHANGED vars
  BY <1>14 DEF NextWindow, vars, PoolAccounted
<1>15. CASE Crash
  <2>1. held' = {} /\ waiting' = NoRequest /\ \A r \in Request : pc'[r] # "blocked"
    BY <1>15 DEF Crash
  <2>2. IsFiniteSet(held)' /\ (Cardinality(held) <= PoolSize)'
    BY <1>1, <2>1, PoolSizeKept
  <2> QED BY <1>2, <2>1, <2>2, ServingConstants DEF Holder
<1> QED
  BY <1>7, <1>8, <1>9, <1>10, <1>11, <1>12, <1>13, <1>14, <1>15 DEF Next, Step

-----------------------------------------------------------------------------
\* The theorems

LEMMA InitIInv == Init => IInv
<1> SUFFICES ASSUME Init PROVE IInv
  OBVIOUS
<1> USE ServingConstants DEF Init
<1>1. TypeOK
  BY DEF TypeOK, Statuses
<1>2. Counted
  BY DEF Counted, RateLimited
<1>3. IsFiniteSet(held) /\ Cardinality(held) = 0
  BY FS_EmptySet
<1>4. PoolAccounted
  BY <1>3 DEF PoolAccounted
<1>5. Announced /\ RunRecorded
  BY DEF Announced, RunRecorded
<1> QED BY <1>1, <1>2, <1>3, <1>4, <1>5 DEF IInv

\* What each step of the process keeps: types, counters, connections and runs.
THEOREM Invariance == Spec => []IInv
<1>1. Init => IInv
  BY InitIInv
<1>2. IInv /\ [Next]_vars => IInv'
  BY TypeStep, CountedStep, PoolStep, RunsStep DEF IInv
<1> QED BY <1>1, <1>2, PTL DEF Spec

\* Every variable keeps its type: no request, session or job is left in a state
\* the handlers do not know, for any number of requests, threads and connections.
THEOREM TypeCorrect == Spec => []TypeOK
BY Invariance, PTL DEF IInv

\* A connection is held only by a session that is still being handled, for every
\* way out of a request or of a job, and never by the request the event loop is
\* waiting for (get_db, get_principal, session_scope).
THEOREM ConnectionsAreAccounted == Spec => []PoolAccounted
BY Invariance, PTL DEF IInv

\* A client that was told the id of an evaluation run finds it, and a job that met
\* no crash, no aborted transaction and no empty pool has recorded its outcome,
\* where the framework closes sessions first (start_eval, _job).
THEOREM RunsAreRecorded == Spec => []RunRecorded
BY Invariance, PTL DEF IInv

\* Different numbers from 1 to Limit are at most Limit.
LEMMA CountedWithinLimit ==
    ASSUME TypeOK, Counted
    PROVE  RateRespected
<1> USE ServingConstants
<1>1. ASSUME NEW w \in 0..LastWindow PROVE Cardinality(LetThrough(w)) <= Limit
  <2> DEFINE number == [r \in LetThrough(w) |-> count[r]]
  <2>1. \A r \in LetThrough(w) : r \in Request /\ bucket[r] = w /\ count[r] \in 1..Limit
    BY DEF LetThrough, Counted, TypeOK
  <2>2. number \in Injection(LetThrough(w), 1..Limit)
    <3>1. number \in [LetThrough(w) -> 1..Limit]
      BY <2>1
    <3>2. \A r, s \in LetThrough(w) : number[r] = number[s] => r = s
      BY <2>1 DEF Counted
    <3> QED BY <3>1, <3>2 DEF Injection, IsInjective
  <2>3. IsFiniteSet(1..Limit) /\ Cardinality(1..Limit) = Limit
    BY FS_Interval
  <2>4. Cardinality(LetThrough(w)) <= Cardinality(1..Limit)
    BY <2>2, <2>3, FS_Injection
  <2> QED BY <2>3, <2>4
<1>2. ASSUME NEW r \in Request, status[r] = RateLimited PROVE hits[bucket[r]] > Limit
  <2>1. count[r] > Limit /\ count[r] <= hits[bucket[r]]
    BY <1>2 DEF Counted
  <2>2. count[r] \in Nat /\ hits[bucket[r]] \in Nat
    BY DEF TypeOK
  <2> QED BY <2>1, <2>2
<1> QED BY <1>1, <1>2 DEF RateRespected

\* Of the requests Redis answered for, at most Limit pass in a window, in whatever
\* order it counts them and the loop resumes them (check_rate_limit).
THEOREM RateIsRespected == Spec => []RateRespected
BY Invariance, CountedWithinLimit, PTL DEF IInv

-----------------------------------------------------------------------------
\* Nobody waits for nobody

\* Nobody reaches a worker thread for /ready, which is answered on the loop.
Routed ==
    \A r \in Request :
        pc[r] \in {"limiting", "limited", "admitted", "working"} => Route(r) # "ready"

\* The guards of Step(r) and of JobStep(r): a thread either gets a connection or
\* its timeout, so it never waits for more than the pool; the loop and the
\* threads are what the others wait for.
CanGoOn(r) ==
    \/ pc[r] \in {"limiting", "persisting"}
    \/ pc[r] = "working" /\ Route(r) \in {"generate", "read", "eval"}
    \/ pc[r] \in {"limited", "closing"} /\ LoopIsFree
    \/ waiting = r /\ (ConnectionIsFree \/ PoolTimesOut(Own(r)))
    \/ pc[r] = "admitted" /\ LoopIsFree /\ ThreadIsFree
    \/ job[r] \in {"rows", "finishing"}
    \/ job[r] = "queued" /\ LoopIsFree /\ ThreadIsFree
    \/ job[r] = "raised" /\ LoopIsFree

\* Whatever is under way, somebody can go on with it.
SomebodyCanGoOn == Quiet \/ \E r \in Request : CanGoOn(r)

\* They are the guards: nobody goes on without them.
LEMMA NobodyGoesOnOtherwise ==
    ASSUME NEW r \in Request, Step(r) \/ JobStep(r)
    PROVE  CanGoOn(r)
<1>1. CASE Step(r)
  <2>1. CASE CheckRateLimit(r) \/ Resume(r) \/ Persist(r) \/ Close(r) \/ Start(r)
    BY <2>1 DEF CanGoOn, CheckRateLimit, Resume, Persist, Close, Start
  <2>2. CASE Unblock(r) \/ LoopTimesOut(r)
    BY <2>2 DEF CanGoOn, Unblock, LoopTimesOut
  <2>3. CASE RunPipeline(r) \/ Read(r) \/ StartEval(r)
    BY <2>3, ReadIsQuery DEF CanGoOn, RunPipeline, Query, StartEval
  <2> QED BY <1>1, <2>1, <2>2, <2>3 DEF Step
<1>2. CASE JobStep(r)
  BY <1>2 DEF JobStep, CanGoOn, StartJob, RunEvaluation, RecordOutcome, FailToRecord, Unwind
<1> QED BY <1>1, <1>2

\* Where the handling of a request goes from where it is.
Moves == [p \in {"idle", "limiting", "limited", "blocked", "admitted", "working",
                "persisting", "closing"} |->
            CASE p = "idle" -> {"limiting", "admitted", "blocked", "closing"}
              [] p = "limiting" -> {"limited"}
              [] p = "limited" -> {"admitted", "blocked", "closing"}
              [] p = "blocked" -> {"admitted", "closing"}
              [] p = "admitted" -> {"working"}
              [] p = "working" -> {"persisting", "closing"}
              [] p = "persisting" -> {"closing"}
              [] p = "closing" -> {"done"}]

RequestMoves(r) ==
    /\ \E p \in Moves[pc[r]] :
          /\ pc' = [pc EXCEPT ![r] = p]
          /\ p \in {"limiting", "limited", "admitted", "working"}
                => Route(r) # "ready" \/ pc[r] \in {"limiting", "limited", "admitted"}
    /\ \/ UNCHANGED job
       \/ pc[r] = "closing" /\ job' = [job EXCEPT ![r] = "queued"]
    /\ pc[r] \in DOMAIN Moves
    /\ UNCHANGED <<load, window, crashes>>

LEMMA RequestStepMoves ==
    ASSUME TypeOK, PoolAccounted, NEW r \in Request, Send(r) \/ Ready(r) \/ Step(r)
    PROVE  RequestMoves(r)
<1> USE DEF Goto, Conclude, Identify
<1> DEFINE Goes(P) == \E p \in P :
                        /\ pc' = [pc EXCEPT ![r] = p]
                        /\ p \in {"limiting", "limited", "admitted", "working"}
                              => Route(r) # "ready" \/ pc[r] \in {"limiting", "limited", "admitted"}
           Still == UNCHANGED <<load, window, crashes>>
<1>1. CASE Send(r)
  <2>1. pc[r] = "idle" /\ Still /\ UNCHANGED job /\ Goes({"limiting", "admitted", "closing"})
    BY <1>1 DEF Send, limiterVars, jobVars, fixedVars
  <2> QED BY <2>1 DEF RequestMoves, Moves
<1>2. CASE Ready(r)
  <2>1. pc[r] = "idle" /\ Still /\ UNCHANGED job /\ Goes({"blocked", "closing"})
    BY <1>2 DEF Ready, limiterVars, jobVars, fixedVars
  <2> QED BY <2>1 DEF RequestMoves, Moves
<1>3. CASE CheckRateLimit(r)
  <2>1. pc[r] = "limiting" /\ Still /\ UNCHANGED job /\ Goes({"limited"})
    BY <1>3 DEF CheckRateLimit, jobVars, fixedVars
  <2> QED BY <2>1 DEF RequestMoves, Moves
<1>4. CASE Resume(r)
  <2>1. pc[r] = "limited" /\ Still /\ UNCHANGED job /\ Goes({"admitted", "blocked", "closing"})
    BY <1>4 DEF Resume, limiterVars, jobVars, fixedVars
  <2> QED BY <2>1 DEF RequestMoves, Moves
<1>5. CASE Unblock(r) \/ LoopTimesOut(r)
  <2>1. pc[r] = "blocked"
    BY <1>5 DEF Unblock, LoopTimesOut, PoolAccounted
  <2>2. Still /\ UNCHANGED job /\ Goes({"admitted", "closing"})
    BY <1>5 DEF Unblock, LoopTimesOut, limiterVars, jobVars, fixedVars
  <2> QED BY <2>1, <2>2 DEF RequestMoves, Moves
<1>6. CASE Start(r)
  <2>1. pc[r] = "admitted" /\ Still /\ UNCHANGED job /\ Goes({"working"})
    BY <1>6 DEF Start, limiterVars, jobVars, fixedVars
  <2> QED BY <2>1 DEF RequestMoves, Moves
<1>7. CASE RunPipeline(r) \/ Read(r) \/ StartEval(r)
  <2>1. pc[r] = "working" /\ Still /\ UNCHANGED job /\ Goes({"persisting", "closing"})
    BY <1>7, ReadIsQuery DEF RunPipeline, Query, StartEval, limiterVars, jobVars, fixedVars
  <2> QED BY <2>1 DEF RequestMoves, Moves
<1>8. CASE Persist(r)
  <2>1. pc[r] = "persisting" /\ Still /\ UNCHANGED job /\ Goes({"closing"})
    BY <1>8 DEF Persist, limiterVars, jobVars, fixedVars
  <2> QED BY <2>1 DEF RequestMoves, Moves
<1>9. CASE Close(r)
  <2>1. pc[r] = "closing" /\ Still /\ Goes({"done"})
    BY <1>9 DEF Close, limiterVars, fixedVars
  <2>2. UNCHANGED job \/ job' = [job EXCEPT ![r] = "queued"]
    BY <1>9 DEF Close
  <2> QED BY <2>1, <2>2 DEF RequestMoves, Moves
<1> QED BY <1>1, <1>2, <1>3, <1>4, <1>5, <1>6, <1>7, <1>8, <1>9 DEF Step

\* And where a job goes.
JobMoves(r) ==
    /\ \E i, j \in {"queued", "rows", "finishing", "raised", "over"} :
          /\ job[r] = i /\ job' = [job EXCEPT ![r] = j]
          /\ <<i, j>> \in {<<"queued", "rows">>, <<"rows", "finishing">>,
                           <<"finishing", "over">>, <<"finishing", "raised">>,
                           <<"raised", "over">>}
    /\ UNCHANGED <<load, pc, window, crashes>>

LEMMA JobStepMoves ==
    ASSUME NEW r \in Request, JobStep(r)
    PROVE  JobMoves(r)
<1>1. CASE StartJob(r)
  BY <1>1 DEF StartJob, JobMoves, limiterVars, fixedVars
<1>2. CASE RunEvaluation(r)
  BY <1>2 DEF RunEvaluation, JobMoves, limiterVars, fixedVars
<1>3. CASE RecordOutcome(r)
  BY <1>3 DEF RecordOutcome, JobMoves, limiterVars, fixedVars
<1>4. CASE FailToRecord(r)
  <2>1. /\ job[r] = "finishing" /\ UNCHANGED <<load, pc, window, crashes>>
        /\ \E j \in {"over", "raised"} : job' = [job EXCEPT ![r] = j]
    BY <1>4 DEF FailToRecord, limiterVars, fixedVars
  <2> QED BY <2>1 DEF JobMoves
<1>5. CASE Unwind(r)
  BY <1>5 DEF Unwind, JobMoves, limiterVars, fixedVars
<1> QED BY <1>1, <1>2, <1>3, <1>4, <1>5 DEF JobStep

LEMMA RoutedStep ==
    ASSUME TypeOK, PoolAccounted, Routed, [Next]_vars
    PROVE  Routed'
<1>1. ASSUME NEW r \in Request, RequestMoves(r) PROVE Routed'
  <2>1. PICK p \in Moves[pc[r]] :
          /\ pc' = [pc EXCEPT ![r] = p]
          /\ p \in {"limiting", "limited", "admitted", "working"}
                => Route(r) # "ready" \/ pc[r] \in {"limiting", "limited", "admitted"}
    BY <1>1 DEF RequestMoves
  <2>2. \A q \in Request : pc'[q] = IF q = r THEN p ELSE pc[q]
    BY <2>1 DEF TypeOK
  <2>3. load' = load
    BY <1>1 DEF RequestMoves
  <2> QED BY <2>1, <2>2, <2>3 DEF Routed, Route
<1>2. CASE UNCHANGED vars \/ NextWindow \/ \E r \in Request : JobMoves(r)
  BY <1>2 DEF vars, NextWindow, fixedVars, JobMoves, Routed, Route
<1>3. CASE Crash
  BY <1>3 DEF Crash, fixedVars, Routed, Route, TypeOK
<1> QED BY <1>1, <1>2, <1>3, RequestStepMoves, JobStepMoves DEF Next

LEMMA GoingOn ==
    ASSUME IInv, Routed
    PROVE  SomebodyCanGoOn
<1>1. SUFFICES ASSUME \A r \in Request : ~CanGoOn(r) PROVE Quiet
  BY DEF SomebodyCanGoOn
<1>2. TypeOK /\ PoolAccounted
  BY DEF IInv
<1>3. \A r \in Request : load[r].route \in Routes
  BY <1>2, ServingConstants DEF TypeOK
<1>4. Busy = {} /\ BusyJobs = {}
  BY <1>1, <1>3 DEF Busy, BusyJobs, CanGoOn, Routed, Route, Routes
<1>5. ThreadIsFree
  BY <1>4, FS_EmptySet, ServingConstants DEF ThreadIsFree
<1>6. LoopIsFree
  <2>1. SUFFICES ASSUME NEW r \in Request, waiting = r PROVE FALSE
    BY <1>2 DEF TypeOK, LoopIsFree
  <2>2. Own(r) \notin held
    BY <1>2, <2>1 DEF PoolAccounted
  <2> QED BY <1>1, <2>1, <2>2 DEF CanGoOn, PoolTimesOut
<1>7. ASSUME NEW r \in Request PROVE pc[r] \in {"idle", "done", "lost"}
  <2>1. pc[r] # "blocked"
    BY <1>2, <1>6, ServingConstants DEF PoolAccounted, LoopIsFree
  <2>2. pc[r] # "working"
    BY <1>4 DEF Busy
  <2>3. pc[r] \in {"idle", "limiting", "limited", "blocked", "admitted",
                   "working", "persisting", "closing", "done", "lost"}
    BY <1>2 DEF TypeOK
  <2> QED BY <1>1, <1>5, <1>6, <2>1, <2>2, <2>3 DEF CanGoOn
<1>8. ASSUME NEW r \in Request PROVE job[r] \in {"none", "over"}
  <2>1. job[r] \in {"none", "queued", "rows", "finishing", "raised", "over"}
    BY <1>2 DEF TypeOK
  <2> QED BY <1>1, <1>5, <1>6, <2>1 DEF CanGoOn
<1> QED BY <1>7, <1>8 DEF Quiet

\* The loop may wait for connections only it can release and threads may be
\* short, yet there is always somebody who can go on, for any number of requests,
\* connections and threads: the timeout of the pool breaks every cycle of waits
\* (get_principal, run_in_threadpool, create_engine).
THEOREM NobodyWaitsForNobody == Spec => []SomebodyCanGoOn
<1>1. Init => Routed
  BY DEF Init, Routed
<1>2. IInv /\ Routed /\ [Next]_vars => Routed'
  BY RoutedStep DEF IInv
<1>3. IInv /\ Routed => SomebodyCanGoOn
  BY GoingOn
<1> QED BY <1>1, <1>2, <1>3, Invariance, PTL DEF Spec

-----------------------------------------------------------------------------
\* Nothing is done twice

StepsOf(p) ==
    CASE p = "idle" -> 8 [] p = "limiting" -> 7 [] p = "limited" -> 6 [] p = "blocked" -> 5
      [] p = "admitted" -> 4 [] p = "working" -> 3 [] p = "persisting" -> 2
      [] p = "closing" -> 1 [] p \in {"done", "lost"} -> 0

JobStepsOf(j) ==
    CASE j = "none" -> 5 [] j = "queued" -> 4 [] j = "rows" -> 3 [] j = "finishing" -> 2
      [] j = "raised" -> 1 [] j = "over" -> 0

\* The steps left to a request and to its job.
StepsLeft(r) == StepsOf(pc[r]) + JobStepsOf(job[r])

\* A step takes one request forward and leaves the others where they are, or it
\* is the clock's or a crash, which sends none back.
Advances ==
    \/ \E r \in Request : /\ StepsLeft(r)' < StepsLeft(r)
                          /\ \A q \in Request \ {r} : StepsLeft(q)' = StepsLeft(q)
    \/ /\ window' > window \/ crashes' > crashes
       /\ \A r \in Request : StepsLeft(r)' <= StepsLeft(r)

LEMMA StepTable ==
    /\ StepsOf("idle") = 8 /\ StepsOf("limiting") = 7 /\ StepsOf("limited") = 6
    /\ StepsOf("blocked") = 5 /\ StepsOf("admitted") = 4 /\ StepsOf("working") = 3
    /\ StepsOf("persisting") = 2 /\ StepsOf("closing") = 1
    /\ StepsOf("done") = 0 /\ StepsOf("lost") = 0
    /\ JobStepsOf("none") = 5 /\ JobStepsOf("queued") = 4 /\ JobStepsOf("rows") = 3
    /\ JobStepsOf("finishing") = 2 /\ JobStepsOf("raised") = 1 /\ JobStepsOf("over") = 0
BY DEF StepsOf, JobStepsOf

LEMMA StepRange ==
    ASSUME TypeOK, NEW r \in Request
    PROVE  /\ StepsOf(pc[r]) \in Int /\ 0 <= StepsOf(pc[r])
           /\ JobStepsOf(job[r]) \in Int /\ 0 <= JobStepsOf(job[r])
<1>1. pc[r] \in {"idle", "limiting", "limited", "blocked", "admitted", "working",
                "persisting", "closing", "done", "lost"}
  BY DEF TypeOK
<1>2. job[r] \in {"none", "queued", "rows", "finishing", "raised", "over"}
  BY DEF TypeOK
<1> QED BY <1>1, <1>2, StepTable

LEMMA AdvanceStep ==
    ASSUME IInv, Next, ~UNCHANGED vars
    PROVE  Advances
<1>0. TypeOK /\ PoolAccounted
  BY DEF IInv
<1>1. ASSUME NEW r \in Request, RequestMoves(r) PROVE Advances
  <2>1. PICK p \in Moves[pc[r]] : pc' = [pc EXCEPT ![r] = p]
    BY <1>1 DEF RequestMoves
  <2>2. StepsOf(p) < StepsOf(pc[r])
    BY <1>1, <2>1, StepTable DEF RequestMoves, Moves
  <2>3. \A q \in Request : pc'[q] = IF q = r THEN p ELSE pc[q]
    BY <1>0, <2>1 DEF TypeOK
  <2>4. /\ \A q \in Request \ {r} : job'[q] = job[q]
        /\ job'[r] = job[r] \/ (job[r] = "none" /\ job'[r] = "queued")
    <3>1. pc[r] = "closing" => job[r] = "none"
      BY DEF IInv, Announced
    <3> QED BY <1>0, <1>1, <3>1 DEF RequestMoves, TypeOK
  <2>5. JobStepsOf(job'[r]) <= JobStepsOf(job[r])
    BY <1>0, <2>4, StepTable, StepRange
  <2>6. StepsOf(p) \in Int /\ StepsOf(pc[r]) \in Int /\ JobStepsOf(job[r]) \in Int
        /\ JobStepsOf(job'[r]) \in Int
    <3>1. StepsOf(p) \in Int
      BY <1>1, <2>1, StepTable DEF RequestMoves, Moves
    <3> QED BY <1>0, <2>4, <3>1, StepTable, StepRange
  <2> QED BY <2>2, <2>3, <2>4, <2>5, <2>6 DEF Advances, StepsLeft
<1>2. ASSUME NEW r \in Request, JobMoves(r) PROVE Advances
  <2>1. PICK i, j \in {"queued", "rows", "finishing", "raised", "over"} :
          /\ job[r] = i /\ job' = [job EXCEPT ![r] = j]
          /\ <<i, j>> \in {<<"queued", "rows">>, <<"rows", "finishing">>,
                           <<"finishing", "over">>, <<"finishing", "raised">>,
                           <<"raised", "over">>}
    BY <1>2 DEF JobMoves
  <2>2. JobStepsOf(j) < JobStepsOf(i) /\ JobStepsOf(j) \in Int /\ JobStepsOf(i) \in Int
    BY <2>1, StepTable
  <2>3. \A q \in Request : job'[q] = IF q = r THEN j ELSE job[q]
    BY <1>0, <2>1 DEF TypeOK
  <2>4. pc' = pc /\ StepsOf(pc[r]) \in Int
    BY <1>0, <1>2, StepRange DEF JobMoves
  <2> QED BY <2>1, <2>2, <2>3, <2>4 DEF Advances, StepsLeft
<1>3. CASE NextWindow
  <2>1. window' > window /\ UNCHANGED <<pc, job>>
    BY <1>0, <1>3, ServingConstants DEF NextWindow, jobVars, TypeOK
  <2>2. \A r \in Request : StepsLeft(r)' = StepsLeft(r) /\ StepsLeft(r) \in Int
    BY <1>0, <2>1, StepRange DEF StepsLeft
  <2>3. \A r \in Request : StepsLeft(r)' <= StepsLeft(r)
    BY <2>2
  <2> QED BY <2>1, <2>3 DEF Advances
<1>4. CASE Crash
  <2>1. crashes' > crashes
    BY <1>0, <1>4, ServingConstants DEF Crash, TypeOK
  <2>2. ASSUME NEW r \in Request PROVE StepsLeft(r)' <= StepsLeft(r)
    <3>1. pc'[r] = pc[r] \/ pc'[r] = "lost"
      BY <1>4 DEF Crash
    <3>2. job'[r] = job[r] \/ job'[r] = "over"
      BY <1>4 DEF Crash
    <3>3. StepsOf(pc'[r]) \in Int /\ StepsOf(pc'[r]) <= StepsOf(pc[r])
      BY <1>0, <3>1, StepRange, StepTable
    <3>4. JobStepsOf(job'[r]) \in Int /\ JobStepsOf(job'[r]) <= JobStepsOf(job[r])
      BY <1>0, <3>2, StepRange, StepTable
    <3> QED BY <1>0, <3>3, <3>4, StepRange DEF StepsLeft
  <2> QED BY <2>1, <2>2 DEF Advances
<1> QED BY <1>0, <1>1, <1>2, <1>3, <1>4, RequestStepMoves, JobStepMoves DEF Next

\* No request and no job is ever sent back: each step takes one of them forward,
\* by one of its at most thirteen steps, whatever the loop, the threads, the pool
\* and the limiter do to the order, and a crash only ends what it meets.
THEOREM EveryStepAdvances == Spec => [][Advances]_vars
<1>1. IInv /\ [Next]_vars => [Advances]_vars
  BY AdvanceStep
<1> QED BY <1>1, Invariance, PTL DEF Spec
=============================================================================
