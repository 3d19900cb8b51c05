---------------------------- MODULE ScriptsProofs ----------------------------
(***************************************************************************)
(* The two programs that run without a database, proved for any number of  *)
(* items, model calls, claims, prompts and reviews:                        *)
(*   - the report of a local evaluation accounts for every item once, its  *)
(*     token counts are those of the item until a first timeout, and the   *)
(*     pointer never names half a run (LocalEval);                         *)
(*   - what the demo server delivers is the pipeline's answer or a         *)
(*     reviewer's (DemoServer).                                            *)
(***************************************************************************)
EXTENDS MCScripts, FiniteSetTheorems, TLAPS

-----------------------------------------------------------------------------
\* The evaluation: where an item stands.

Counted(i) == i \in Reported \union timeouts \union failed

\* The main thread is finished with the item.
Settled(i) == i < item \/ (i = item /\ phase \in {"baseline", "write", "point"})

\* An item is counted once, as soon as it is settled and, as long as the main
\* thread lives, not before; an item not yet submitted has left no trace.
OneOutcome ==
    /\ \A i \in Item :
          /\ ~(i \in Reported /\ i \in timeouts)
          /\ ~(i \in Reported /\ i \in failed)
          /\ ~(i \in timeouts /\ i \in failed)
    /\ \A i \in Item : Settled(i) => Counted(i)
    /\ phase # "over" =>
          \A i \in Item : ~Settled(i) =>
              /\ ~Counted(i)
              /\ i # item \/ phase \notin {"grade", "report"}
                    => training[i] = 0 /\ gradingCalls[i] = 0
              /\ i # item \/ phase # "report" => calibration[i] = 0
              /\ i # item \/ phase = "next" => thread[i] = "none"

\* What st holds, and what is written of the item at hand.
AtHand ==
    /\ phase = "await" => st = Nothing
    /\ phase \in {"grade", "report"} =>
          st = item /\ thread[item] = "returned" /\ training[item] <= claims[item]
    /\ phase = "report" => training[item] = claims[item] /\ calibration[item] = 1
    /\ phase \in {"write", "point"} => item = Items

\* The rows of the report and of the two sets retraining reads.
Rows ==
    \A i \in Item :
        /\ rowOf[i] \in {i, Nothing}
        /\ calibration[i] = 0 \/ (calibration[i] = 1 /\ training[i] = claims[i])
        /\ i \in Reported => calibration[i] = 1 /\ thread[i] = "returned"
        /\ i \in timeouts => training[i] = 0 /\ calibration[i] = 0

\* Nothing was asked by, or charged to, a pipeline that has not begun.
Unbegun ==
    \A i \in Item :
        thread[i] \in {"none", "starting"} => gateway # i /\ meter[i] = 0 /\ asked[i] = 0

\* No item up to i timed out.
Clean(i) == \A j \in timeouts : i < j

\* Until a first item times out one thread works at a time, on the gateway of
\* the item at hand, whose meter holds its own calls and its grading.
OneAtATime ==
    Clean(item) =>
        /\ \A i \in Item :
              thread[i] \in {"starting", "working"} => i = item /\ phase \in {"await", "over"}
        /\ phase # "over" /\ thread[item] \in {"working", "returned", "raised"}
              => gateway = item
        /\ phase \in {"await", "grade", "report"} => meter[item] = asked[item] + gradingCalls[item]

\* The usage of a row is exact if no item up to it timed out.
CleanTokens == \A i \in Reported : Clean(i) => tokens[i] = asked[i] + gradingCalls[i]

PointerFollows ==
    /\ PointerIsWhole
    /\ phase = "point" => written = Len(Outputs)

EvalInv ==
    /\ EvalTypeOK
    /\ OneOutcome /\ AtHand /\ Rows
    /\ Unbegun /\ OneAtATime /\ CleanTokens
    /\ PointerFollows

\* Items are compared as the numbers they are.
LEMMA ItemsAreNumbers ==
    /\ Nothing \notin Item /\ 1 \in Item /\ Items \in Item
    /\ \A i \in Item : i \in Int /\ ~(i < 1) /\ i <= Items
    /\ \A i \in Item : i < Items => i + 1 \in Item
BY EvalConstants DEF Item, Nothing

LEMMA FourOutputs == Len(Outputs) = 4
BY DEF Outputs

\* Before the first item nothing is counted, asked or written.
LEMMA EvalInitHolds == EvalInit => EvalInv
<1> SUFFICES ASSUME EvalInit PROVE EvalInv
  OBVIOUS
<1>1. 1 \in Item /\ Nothing \notin Item
  BY EvalConstants DEF Item, Nothing
<1>0. 0 \in 0..Calls /\ 0 \in 0..Len(Outputs)
  BY EvalConstants, FourOutputs
<1> USE DEF EvalInit
<1>2. Reported = {}
  BY DEF Reported
<1>3. EvalTypeOK
  BY <1>0, <1>1 DEF EvalTypeOK
<1>4. \A i \in Item : ~(i < 1)
  BY ItemsAreNumbers
<1>5. OneOutcome
  BY <1>2, <1>4 DEF OneOutcome, Counted, Settled
<1>6. AtHand
  BY DEF AtHand
<1>7. Rows
  BY <1>2 DEF Rows
<1>8. Unbegun
  BY <1>1 DEF Unbegun
<1>9. OneAtATime
  BY <1>1 DEF OneAtATime
<1>10. CleanTokens
  BY <1>2 DEF CleanTokens
<1>11. PointerFollows
  BY DEF PointerFollows, PointerIsWhole
<1> QED BY <1>3, <1>5, <1>6, <1>7, <1>8, <1>9, <1>10, <1>11 DEF EvalInv

\* A step of a worker thread, of the item at hand or of an abandoned one.
LEMMA ThreadKeeps ==
    ASSUME EvalInv, phase # "over", NEW i \in Item,
           \/ StartThread(i) \/ EndThread(i)
           \/ CallModel(i, i) \/ (gateway # Nothing /\ CallModel(i, gateway))
    PROVE  EvalInv'
<1> USE EvalConstants DEF EvalInv
<1>1. /\ UNCHANGED <<phase, item, st, gradingCalls, claims, sinkVars, outcomeVars, fileVars>>
      /\ Reported' = Reported
  BY DEF StartThread, EndThread, CallModel, Reported, sinkVars, outcomeVars
<1>2. /\ thread' \in [Item -> {"none", "starting", "working", "returned", "raised"}]
      /\ \A j \in Item : thread'[j] = "none" <=> thread[j] = "none"
      /\ \A j \in Item : thread[j] = "returned" => thread'[j] = "returned"
      /\ \A j \in Item : thread'[j] \in {"none", "starting"}
                            => thread[j] = thread'[j]
  BY DEF StartThread, EndThread, CallModel, EvalTypeOK
<1>3. EvalTypeOK'
  <2>1. gateway' \in Item \union {Nothing}
    BY DEF StartThread, EndThread, CallModel, Published, EvalTypeOK
  <2>2. asked' \in [Item -> 0..Calls] /\ meter' \in [Item -> Nat]
    <3>1. CASE StartThread(i) \/ EndThread(i)
      BY <3>1 DEF StartThread, EndThread, EvalTypeOK
    <3>2. ASSUME NEW c \in Item, CallModel(i, c)
          PROVE  asked' \in [Item -> 0..Calls] /\ meter' \in [Item -> Nat]
      <4>1. asked[i] + 1 \in 0..Calls /\ meter[c] + 1 \in Nat
        <5>1. asked[i] < Calls /\ asked[i] \in 0..Calls /\ meter[c] \in Nat
          BY <3>2 DEF CallModel, EvalTypeOK
        <5> QED BY <5>1, EvalConstants
      <4> QED BY <3>2, <4>1 DEF CallModel, EvalTypeOK
    <3> QED BY <3>1, <3>2 DEF EvalTypeOK
  <2> QED BY <1>1, <1>2, <2>1, <2>2 DEF EvalTypeOK, sinkVars, outcomeVars, fileVars
<1>4. (OneOutcome /\ AtHand /\ Rows)'
  <2>1. UNCHANGED <<phase, item, st, gradingCalls, claims, training, calibration, rowOf,
                    timeouts, failed>>
    BY <1>1 DEF sinkVars, outcomeVars
  <2>2. OneOutcome'
    BY <1>1, <1>2, <2>1 DEF OneOutcome, Counted, Settled
  <2>3. AtHand' /\ Rows'
    BY <1>1, <1>2, <2>1 DEF AtHand, Rows, EvalTypeOK
  <2> QED BY <2>2, <2>3
<1>5. Unbegun'
  <2>1. CASE StartThread(i)
    BY <2>1 DEF Unbegun, StartThread, Published, EvalTypeOK
  <2>2. CASE EndThread(i)
    BY <2>2 DEF Unbegun, EndThread, EvalTypeOK
  <2>3. ASSUME NEW c \in Item, CallModel(i, c), c = i \/ c = gateway PROVE Unbegun'
    <3>1. \A j \in Item \ {i} : asked'[j] = asked[j]
      BY <2>3 DEF CallModel, EvalTypeOK
    <3>2. \A j \in Item \ {c} : meter'[j] = meter[j]
      BY <2>3 DEF CallModel, EvalTypeOK
    <3> QED BY <2>3, <3>1, <3>2 DEF Unbegun, CallModel
  <2> QED BY <2>1, <2>2, <2>3 DEF EvalTypeOK
<1>6. OneAtATime'
  <2> SUFFICES ASSUME Clean(item) PROVE OneAtATime'
    BY <1>1 DEF OneAtATime, Clean, outcomeVars
  <2>1. i = item /\ phase = "await" /\ item \in Item
    BY DEF OneAtATime, StartThread, EndThread, CallModel, EvalTypeOK
  <2>2. CASE StartThread(i)
    BY <2>1, <2>2 DEF OneAtATime, StartThread, Published, EvalTypeOK, outcomeVars, Clean
  <2>3. CASE EndThread(i)
    BY <2>1, <2>3 DEF OneAtATime, EndThread, EvalTypeOK, outcomeVars, Clean
  <2>4. CASE CallModel(i, i) \/ (gateway # Nothing /\ CallModel(i, gateway))
    <3>1. thread[item] = "working" /\ gateway = item /\ CallModel(item, item)
      BY <2>1, <2>4 DEF OneAtATime, CallModel
    <3>2. /\ meter[item] \in Nat /\ meter'[item] = meter[item] + 1
          /\ asked[item] \in 0..Calls /\ asked'[item] = asked[item] + 1
          /\ gradingCalls[item] \in Nat
      BY <2>1, <3>1 DEF CallModel, EvalTypeOK
    <3>3. UNCHANGED <<phase, item, thread, gateway, gradingCalls>>
      BY <3>1 DEF CallModel
    <3> QED BY <2>1, <3>1, <3>2, <3>3, EvalConstants DEF OneAtATime
  <2> QED BY <2>2, <2>3, <2>4
<1>7. CleanTokens'
  <2>1. \A j \in Reported : thread[j] = "returned"
    BY DEF Rows, Reported
  <2>2. \A j \in Reported : asked'[j] = asked[j]
    BY <2>1 DEF StartThread, EndThread, CallModel, EvalTypeOK, Reported
  <2> QED BY <1>1, <2>2 DEF CleanTokens, Clean, sinkVars, outcomeVars
<1>8. PointerFollows'
  BY <1>1 DEF PointerFollows, PointerIsWhole, fileVars
<1> QED BY <1>3, <1>4, <1>5, <1>6, <1>7, <1>8

\* The item at hand while it is submitted, awaited or graded.
LEMMA Unsettled ==
    ASSUME EvalInv, phase \in {"next", "await", "grade", "report"}
    PROVE  /\ item \in Item /\ item \in Int /\ Nothing \notin Item
           /\ ~Settled(item) /\ ~Counted(item)
           /\ item \notin Reported /\ item \notin timeouts /\ item \notin failed
           /\ rowOf[item] = Nothing /\ (phase # "report" => calibration[item] = 0)
           /\ phase \notin {"grade", "report"} => training[item] = 0 /\ gradingCalls[item] = 0
           /\ phase = "next" => thread[item] = "none"
<1>1. item \in Item /\ item \in Int /\ Nothing \notin Item
  BY ItemsAreNumbers DEF EvalInv, EvalTypeOK
<1>2. ~Settled(item)
  BY <1>1 DEF Settled
<1>3. /\ ~Counted(item)
      /\ phase \notin {"grade", "report"} => training[item] = 0 /\ gradingCalls[item] = 0
      /\ phase # "report" => calibration[item] = 0
      /\ phase = "next" => thread[item] = "none"
  BY <1>1, <1>2 DEF EvalInv, OneOutcome
<1>4. item \notin Reported /\ item \notin timeouts /\ item \notin failed
  BY <1>3 DEF Counted
<1>5. rowOf[item] = Nothing
  BY <1>1, <1>4 DEF EvalInv, Rows, Reported
<1> QED BY <1>1, <1>2, <1>3, <1>4, <1>5

\* An item that is submitted has left no trace.
LEMMA SubmitKeeps ==
    ASSUME EvalInv, Submit
    PROVE  EvalInv'
<1> USE DEF EvalInv
<1>1. /\ phase = "next" /\ phase' = "await" /\ st' = Nothing
      /\ thread' = [thread EXCEPT ![item] = "starting"]
      /\ UNCHANGED <<item, gateway, asked, meter, gradingCalls, claims, training, calibration,
                     rowOf, tokens, timeouts, failed, baselines, written, pointer>>
      /\ Reported' = Reported
  BY DEF Submit, Reset, Reported, sinkVars, outcomeVars, fileVars
<1>0. item \in Item /\ thread[item] = "none" /\ item \notin Reported
  BY <1>1, Unsettled
<1>2. EvalTypeOK'
  BY <1>0, <1>1 DEF EvalTypeOK
<1>3. OneOutcome'
  BY <1>0, <1>1 DEF OneOutcome, Settled, Counted, EvalTypeOK
<1>4. AtHand' /\ Rows'
  BY <1>0, <1>1 DEF AtHand, Rows, EvalTypeOK, Reported
<1>5. Unbegun'
  BY <1>0, <1>1 DEF Unbegun, EvalTypeOK
<1>6. OneAtATime'
  <2>1. /\ thread'[item] = "starting"
        /\ \A i \in Item \ {item} : thread'[i] = thread[i]
    BY <1>0, <1>1 DEF EvalTypeOK
  <2>2. meter[item] = 0 /\ asked[item] = 0 /\ gradingCalls[item] = 0
    BY <1>0, <1>1, Unsettled DEF Unbegun
  <2> QED BY <1>0, <1>1, <2>1, <2>2 DEF OneAtATime, Clean
<1>7. CleanTokens' /\ PointerFollows'
  BY <1>1 DEF CleanTokens, Clean, PointerFollows, PointerIsWhole
<1> QED BY <1>2, <1>3, <1>4, <1>5, <1>6, <1>7

\* The wait ends: with a state to grade, or with the item counted.
LEMMA ResultKeeps ==
    ASSUME EvalInv, Result
    PROVE  EvalInv'
<1> USE DEF EvalInv
<1>0. phase = "await"
  BY DEF Result
<1>1. /\ phase = "await" /\ st = Nothing /\ item \in Item /\ Nothing \notin Item
      /\ UNCHANGED <<item, thread, gateway, asked, meter, gradingCalls, claims, training,
                     calibration, rowOf, tokens, baselines, written, pointer>>
      /\ Reported' = Reported
      /\ ~Counted(item) /\ training[item] = 0 /\ gradingCalls[item] = 0 /\ calibration[item] = 0
  BY <1>0, Unsettled DEF Result, Reported, threadVars, sinkVars, fileVars, AtHand
<1>2. \/ /\ thread[item] = "returned" /\ st' = item /\ phase' = "grade"
         /\ UNCHANGED <<timeouts, failed>>
      \/ /\ thread[item] = "raised" /\ failed' = failed \union {item} /\ phase' = "baseline"
         /\ UNCHANGED <<st, timeouts>>
      \/ /\ timeouts' = timeouts \union {item} /\ phase' = "baseline"
         /\ UNCHANGED <<st, failed>>
  BY <1>1 DEF Result
<1>3. EvalTypeOK'
  BY <1>1, <1>2 DEF EvalTypeOK
<1>4. OneOutcome'
  BY <1>1, <1>2, ItemsAreNumbers DEF OneOutcome, Settled, Counted
<1>5. AtHand'
  <2>0. claims[item] \in 0..MaxClaims
    BY <1>1 DEF EvalTypeOK
  <2>1. claims[item] >= 0
    BY <2>0, EvalConstants
  <2> QED BY <1>1, <1>2, <2>1 DEF AtHand
<1>6. Rows'
  BY <1>1, <1>2 DEF Rows
<1>7. Unbegun'
  BY <1>1, <1>2 DEF Unbegun
<1>8. Clean(item)' => Clean(item) /\ timeouts' = timeouts
  BY <1>1, <1>2, ItemsAreNumbers DEF Clean
<1>9. OneAtATime'
  <2>1. CASE thread[item] = "returned" /\ phase' = "grade" /\ timeouts' = timeouts
    BY <1>1, <1>8, <2>1 DEF OneAtATime
  <2>2. CASE thread[item] = "raised" /\ phase' = "baseline" /\ timeouts' = timeouts
    BY <1>1, <1>8, <2>2 DEF OneAtATime
  <2>3. CASE timeouts' = timeouts \union {item} /\ phase' = "baseline"
    <3>1. ~Clean(item)'
      BY <1>1, <2>3, ItemsAreNumbers DEF Clean
    <3> QED BY <3>1 DEF OneAtATime
  <2> QED BY <1>2, <2>1, <2>2, <2>3
<1>10. CleanTokens'
  BY <1>1, <1>2 DEF CleanTokens, Clean
<1>11. PointerFollows'
  BY <1>1, <1>2 DEF PointerFollows, PointerIsWhole
<1> QED BY <1>3, <1>4, <1>5, <1>6, <1>7, <1>9, <1>10, <1>11

\* What a grading call does to the meters while nobody timed out.
LEMMA GradedCharges ==
    ASSUME EvalInv, Graded, phase = "grade", UNCHANGED <<item, asked, gateway, thread>>
    PROVE  /\ item \in Item
           /\ meter' \in [Item -> Nat] /\ gradingCalls' \in [Item -> Nat]
           /\ \A i \in Item \ {item} : gradingCalls'[i] = gradingCalls[i]
           /\ Unbegun'
           /\ Clean(item) => meter'[item] = asked[item] + gradingCalls'[item]
<1> USE DEF EvalInv
<1>1. /\ item \in Item /\ Nothing \notin Item /\ gateway \in Item \union {Nothing}
      /\ meter \in [Item -> Nat] /\ gradingCalls \in [Item -> Nat]
      /\ thread[item] \notin {"none", "starting"}
      /\ thread \in [Item -> {"none", "starting", "working", "returned", "raised"}]
      /\ asked[item] \in 0..Calls
  BY Unsettled DEF EvalTypeOK, AtHand
<1>2. asked[item] \in Int
  BY <1>1, EvalConstants
<1>3. CASE meter' = meter /\ gradingCalls' = gradingCalls
  BY <1>1, <1>3 DEF Unbegun, OneAtATime
<1>4. CASE /\ gateway # Nothing
           /\ meter' = [meter EXCEPT ![gateway] = @ + 1]
           /\ gradingCalls' = [gradingCalls EXCEPT ![item] = @ + 1]
  BY <1>1, <1>2, <1>4 DEF Unbegun, OneAtATime
<1> QED BY <1>3, <1>4 DEF Graded

\* One more claim of the item at hand is labelled.
LEMMA GradeClaimKeeps ==
    ASSUME EvalInv, GradeClaim
    PROVE  EvalInv'
<1> USE DEF EvalInv
<1>0. phase = "grade"
  BY DEF GradeClaim
<1>1. /\ phase = "grade" /\ st = item /\ item \in Item /\ training[item] < claims[item]
      /\ training' = [training EXCEPT ![item] = @ + 1]
      /\ UNCHANGED <<phase, item, st, thread, gateway, asked, claims, calibration, rowOf,
                     tokens, timeouts, failed, baselines, written, pointer>>
      /\ Reported' = Reported /\ ~Counted(item) /\ calibration[item] = 0
  BY <1>0, Unsettled DEF GradeClaim, Reported, outcomeVars, fileVars, AtHand
<1>2. /\ meter' \in [Item -> Nat] /\ gradingCalls' \in [Item -> Nat]
      /\ \A i \in Item \ {item} : gradingCalls'[i] = gradingCalls[i]
      /\ Unbegun'
      /\ Clean(item) => meter'[item] = asked[item] + gradingCalls'[item]
  BY <1>1, GradedCharges DEF GradeClaim
<1>3. /\ training[item] \in Nat /\ claims[item] \in Int
      /\ training' \in [Item -> Nat] /\ training'[item] <= claims[item]
      /\ \A i \in Item \ {item} : training'[i] = training[i]
  <2>1. training[item] \in Nat /\ claims[item] \in 0..MaxClaims /\ training \in [Item -> Nat]
    BY <1>1 DEF EvalTypeOK
  <2>2. training[item] + 1 \in Nat /\ claims[item] \in Int
        /\ training[item] + 1 <= claims[item]
    BY <1>1, <2>1, EvalConstants
  <2> QED BY <1>1, <2>1, <2>2
<1>4. EvalTypeOK'
  BY <1>1, <1>2, <1>3 DEF EvalTypeOK
<1>5. OneOutcome'
  BY <1>1, <1>2, <1>3 DEF OneOutcome, Settled, Counted
<1>6. AtHand' /\ Rows'
  BY <1>1, <1>3 DEF AtHand, Rows, Counted
<1>7. OneAtATime' /\ CleanTokens'
  BY <1>1, <1>2 DEF OneAtATime, CleanTokens, Clean, Counted, Reported
<1>8. PointerFollows'
  BY <1>1 DEF PointerFollows, PointerIsWhole
<1> QED BY <1>2, <1>4, <1>5, <1>6, <1>7, <1>8

\* The answer has its calibration row, and all the others.
LEMMA CalibrateKeeps ==
    ASSUME EvalInv, Calibrate
    PROVE  EvalInv'
<1> USE DEF EvalInv
<1>0. phase = "grade"
  BY DEF Calibrate
<1>1. /\ phase = "grade" /\ phase' = "report" /\ st = item /\ item \in Item
      /\ training[item] = claims[item] /\ training[item] <= claims[item]
      /\ thread[item] = "returned"
      /\ calibration' = [calibration EXCEPT ![item] = @ + 1] /\ calibration[item] = 0
      /\ UNCHANGED <<item, st, thread, gateway, asked, claims, training, rowOf, tokens, timeouts,
                     failed, baselines, written, pointer>>
      /\ Reported' = Reported /\ ~Counted(item)
  BY <1>0, Unsettled DEF Calibrate, Reported, outcomeVars, fileVars, AtHand
<1>2. /\ meter' \in [Item -> Nat] /\ gradingCalls' \in [Item -> Nat]
      /\ \A i \in Item \ {item} : gradingCalls'[i] = gradingCalls[i]
      /\ Unbegun'
      /\ Clean(item) => meter'[item] = asked[item] + gradingCalls'[item]
  BY <1>1, GradedCharges DEF Calibrate
<1>3. /\ calibration' \in [Item -> Nat] /\ calibration'[item] = 1
      /\ \A i \in Item \ {item} : calibration'[i] = calibration[i]
  <2>1. calibration \in [Item -> Nat]
    BY DEF EvalTypeOK
  <2>2. 0 + 1 = 1 /\ 1 \in Nat
    OBVIOUS
  <2> QED BY <1>1, <2>1, <2>2
<1>4. EvalTypeOK'
  BY <1>1, <1>2, <1>3 DEF EvalTypeOK
<1>5. OneOutcome'
  BY <1>1, <1>2, <1>3 DEF OneOutcome, Settled, Counted
<1>6. AtHand' /\ Rows'
  BY <1>1, <1>3 DEF AtHand, Rows, Counted
<1>7. OneAtATime' /\ CleanTokens'
  BY <1>1, <1>2 DEF OneAtATime, CleanTokens, Clean, Counted, Reported
<1>8. PointerFollows'
  BY <1>1 DEF PointerFollows, PointerIsWhole
<1> QED BY <1>2, <1>4, <1>5, <1>6, <1>7, <1>8

\* The row is reported, with what its meter holds.
LEMMA FinishRowKeeps ==
    ASSUME EvalInv, FinishRow
    PROVE  EvalInv'
<1> USE DEF EvalInv
<1>0. phase = "report"
  BY DEF FinishRow
<1>1. /\ phase = "report" /\ phase' = "baseline" /\ st = item /\ item \in Item
      /\ calibration[item] = 1 /\ thread[item] = "returned"
      /\ tokens' = [tokens EXCEPT ![item] = meter[item]]
      /\ rowOf' = [rowOf EXCEPT ![item] = item]
      /\ UNCHANGED <<item, st, thread, gateway, asked, meter, gradingCalls, claims, training,
                     calibration, timeouts, failed, baselines, written, pointer>>
      /\ ~Counted(item)
  BY <1>0, Unsettled DEF FinishRow, threadVars, outcomeVars, fileVars, AtHand
<1>3. /\ Reported' = Reported \union {item} /\ item \notin Reported
      /\ item \notin timeouts /\ item \notin failed
  <2>1. rowOf \in [Item -> Item \union {Nothing}] /\ item # Nothing
    BY <1>0, Unsettled DEF EvalTypeOK
  <2> QED BY <1>0, <1>1, <2>1, Unsettled DEF Reported
<1>4. EvalTypeOK'
  BY <1>1 DEF EvalTypeOK
<1>5. OneOutcome'
  <2>1. \A i \in Item : ~(i < item) /\ i # item => ~Settled(i) /\ ~Settled(i)'
    BY <1>1 DEF Settled
  <2>2. \A i \in Item : i # item => (Counted(i)' <=> Counted(i))
    BY <1>1, <1>3 DEF Counted
  <2>3. Counted(item)' /\ Settled(item)'
    BY <1>1, <1>3 DEF Counted, Settled
  <2>4. \A i \in Item : i < item => Settled(i) /\ Settled(i)'
    BY <1>1 DEF Settled
  <2>5. \A i \in Item : /\ ~(i \in Reported' /\ i \in timeouts')
                        /\ ~(i \in Reported' /\ i \in failed')
                        /\ ~(i \in timeouts' /\ i \in failed')
    BY <1>1, <1>3 DEF OneOutcome
  <2> QED BY <1>1, <2>1, <2>2, <2>3, <2>4, <2>5 DEF OneOutcome
<1>6. AtHand' /\ Unbegun'
  BY <1>1 DEF AtHand, Unbegun
<1>7. Rows'
  <2>1. rowOf \in [Item -> Item \union {Nothing}]
    BY DEF EvalTypeOK
  <2> QED BY <1>1, <1>3, <2>1 DEF Rows
<1>8. OneAtATime'
  BY <1>1 DEF OneAtATime, Clean
<1>9. CleanTokens'
  <2>1. tokens'[item] = meter[item] /\ \A i \in Item \ {item} : tokens'[i] = tokens[i]
    BY <1>1 DEF EvalTypeOK
  <2>2. \A i \in Item : Clean(i)' <=> Clean(i)
    BY <1>1 DEF Clean
  <2>3. Clean(item) => meter[item] = asked[item] + gradingCalls[item]
    BY <1>1 DEF OneAtATime
  <2> QED BY <1>1, <1>3, <2>1, <2>2, <2>3 DEF CleanTokens, Reported
<1>10. PointerFollows'
  BY <1>1 DEF PointerFollows, PointerIsWhole
<1> QED BY <1>4, <1>5, <1>6, <1>7, <1>8, <1>9, <1>10

\* The item fails: it is counted, its rows for retraining stay.
LEMMA FailToGradeKeeps ==
    ASSUME EvalInv, FailToGrade
    PROVE  EvalInv'
<1> USE DEF EvalInv
<1>0. phase \in {"grade", "report"}
  BY DEF FailToGrade
<1>1. /\ phase \in {"grade", "report"} /\ phase' = "baseline" /\ item \in Item
      /\ failed' = failed \union {item}
      /\ UNCHANGED <<item, st, thread, gateway, asked, meter, gradingCalls, claims, training,
                     calibration, rowOf, tokens, timeouts, baselines, written, pointer>>
      /\ Reported' = Reported /\ ~Counted(item)
  BY <1>0, Unsettled DEF FailToGrade, Reported, threadVars, sinkVars, fileVars
<1>2. EvalTypeOK'
  BY <1>1 DEF EvalTypeOK
<1>3. OneOutcome'
  BY <1>1, ItemsAreNumbers DEF OneOutcome, Settled, Counted
<1>4. AtHand' /\ Rows' /\ Unbegun'
  BY <1>1 DEF AtHand, Rows, Unbegun
<1>5. OneAtATime' /\ CleanTokens'
  BY <1>1 DEF OneAtATime, CleanTokens, Clean
<1>6. PointerFollows'
  BY <1>1 DEF PointerFollows, PointerIsWhole
<1> QED BY <1>2, <1>3, <1>4, <1>5, <1>6

\* The baseline of the item, charged to whoever published a gateway last, and
\* the step to the next item or to the files.
LEMMA BaselineKeeps ==
    ASSUME EvalInv, Baseline
    PROVE  EvalInv'
<1> USE DEF EvalInv
<1>0. item \in Item /\ item \in Int /\ item <= Items /\ Items \in Int
  BY ItemsAreNumbers DEF EvalTypeOK
<1>1. /\ phase = "baseline" /\ item \in Item
      /\ \/ meter' = meter
         \/ gateway # Nothing /\ meter' = [meter EXCEPT ![gateway] = @ + 1]
      /\ baselines' = baselines \union {item} \/ baselines' = baselines
      /\ \/ item < Items /\ phase' = "next" /\ item' = item + 1
         \/ item = Items /\ phase' = "write" /\ item' = item
      /\ UNCHANGED <<st, thread, gateway, asked, gradingCalls, claims, training,
                     calibration, rowOf, tokens, timeouts, failed, written, pointer>>
      /\ Reported' = Reported /\ Counted(item)
  <2>1. phase = "baseline" => Settled(item) /\ Counted(item)
    BY <1>0 DEF OneOutcome, Settled
  <2>2. item < Items \/ item = Items
    BY <1>0
  <2>3. ~(Items < Items)
    BY <1>0
  <2> QED BY <1>0, <2>1, <2>2, <2>3
          DEF Baseline, GradedBaseline, Reported, sinkVars, fileVars
<1>2. /\ item' \in Item /\ item \in Int /\ \A i \in Item : i \in Int
      /\ \A i \in Item : i < item' => i <= item
      /\ item' = item \/ item' = item + 1
  BY <1>1, ItemsAreNumbers
<1>3. /\ meter' \in [Item -> Nat]
      /\ \A i \in Item : i # gateway => meter'[i] = meter[i]
  <2>1. meter \in [Item -> Nat] /\ gateway \in Item \union {Nothing}
    BY DEF EvalTypeOK
  <2> QED BY <1>1, <2>1
<1>4. EvalTypeOK'
  BY <1>1, <1>2, <1>3 DEF EvalTypeOK
<1>5. \A i \in Item : Settled(i)' <=> Settled(i)
  BY <1>1, <1>2 DEF Settled
<1>6. OneOutcome'
  <2>1. \A i \in Item : ~Settled(i) => i # item /\ (i = item' => phase' = "next")
    BY <1>1, <1>2 DEF Settled
  <2> QED BY <1>1, <1>5, <2>1 DEF OneOutcome, Counted
<1>7. AtHand' /\ Rows'
  BY <1>1 DEF AtHand, Rows
<1>8. Unbegun'
  BY <1>1, <1>3 DEF Unbegun
<1>9. OneAtATime'
  <2>1. Clean(item)' => Clean(item)
    <3>1. \A j \in timeouts : j \in Int
      BY <1>2 DEF EvalTypeOK
    <3>2. CASE item' = item
      BY <1>1, <3>2 DEF Clean
    <3>3. ASSUME item' = item + 1, Clean(item)', NEW j \in timeouts PROVE item < j
      BY <1>1, <1>2, <3>1, <3>3 DEF Clean
    <3> QED BY <1>2, <3>2, <3>3 DEF Clean
  <2>2. Clean(item)' => \A i \in Item : thread'[i] \notin {"starting", "working"}
    BY <1>1, <2>1 DEF OneAtATime
  <2>3. item' # item => thread[item'] = "none"
    BY <1>1, <1>2 DEF OneOutcome, Settled
  <2>4. item' = item => (Clean(item)' => gateway' = item' \/ thread'[item'] \notin {"working", "returned", "raised"})
    BY <1>1, <2>1 DEF OneAtATime
  <2> QED BY <1>1, <2>1, <2>2, <2>3, <2>4 DEF OneAtATime
<1>10. CleanTokens'
  BY <1>1 DEF CleanTokens, Clean
<1>11. PointerFollows'
  BY <1>1 DEF PointerFollows, PointerIsWhole
<1> QED BY <1>4, <1>6, <1>7, <1>8, <1>9, <1>10, <1>11

\* The files, the pointer behind them, and the end of the process.
LEMMA FilesKeep ==
    ASSUME EvalInv, Write \/ OpenPointer \/ WritePointer \/ Die
    PROVE  EvalInv'
<1> USE DEF EvalInv
<1>1. /\ UNCHANGED <<item, st, thread, gateway, asked, meter, gradingCalls, claims, training,
                     calibration, rowOf, tokens, timeouts, failed, baselines>>
      /\ Reported' = Reported
  BY DEF Write, OpenPointer, WritePointer, Die, Reported, threadVars, sinkVars, outcomeVars
<1>2. \/ phase \in {"write", "point"} /\ phase' \in {"write", "point", "over"}
      \/ phase' = "over"
  BY DEF Write, OpenPointer, WritePointer, Die
<1>3. /\ written' \in 0..Len(Outputs) /\ pointer' \in {"older run", "empty", "this run"}
      /\ PointerFollows'
  <2>0. written \in 0..4 /\ Len(Outputs) = 4
    BY FourOutputs DEF EvalTypeOK
  <2>1. CASE Write
    <3>1. /\ written < 4 /\ written' = written + 1 /\ pointer' = pointer
          /\ phase = "write" /\ phase' = phase
      BY <2>0, <2>1 DEF Write
    <3>2. pointer # "this run"
      <4>1. written # 4
        BY <2>0, <3>1
      <4> QED BY <2>0, <4>1 DEF PointerFollows, PointerIsWhole
    <3>3. written + 1 \in 0..4
      BY <2>0, <3>1
    <3> QED BY <2>0, <3>1, <3>2, <3>3 DEF EvalTypeOK, PointerFollows, PointerIsWhole
  <2>2. CASE OpenPointer
    <3>1. /\ written >= 4 /\ UNCHANGED written /\ pointer' = "empty" /\ phase' = "point"
      BY <2>0, <2>2 DEF OpenPointer, BeforePointer
    <3>2. written = 4
      BY <2>0, <3>1
    <3> QED BY <2>0, <3>1, <3>2 DEF PointerFollows, PointerIsWhole
  <2>3. CASE WritePointer
    BY <2>3 DEF WritePointer, EvalTypeOK, PointerFollows, PointerIsWhole
  <2>4. CASE Die
    BY <2>4 DEF Die, EvalTypeOK, PointerFollows, PointerIsWhole, fileVars
  <2> QED BY <2>1, <2>2, <2>3, <2>4
<1>4. EvalTypeOK'
  BY <1>1, <1>2, <1>3 DEF EvalTypeOK
<1>5. OneOutcome'
  BY <1>1, <1>2 DEF OneOutcome, Settled, Counted
<1>6. AtHand' /\ Rows' /\ Unbegun'
  BY <1>1, <1>2 DEF AtHand, Rows, Unbegun
<1>7. OneAtATime' /\ CleanTokens'
  BY <1>1, <1>2 DEF OneAtATime, CleanTokens, Clean
<1> QED BY <1>3, <1>4, <1>5, <1>6, <1>7

LEMMA EvalNextKeeps == EvalInv /\ [EvalNext]_evalVars => EvalInv'
<1> SUFFICES ASSUME EvalInv, [EvalNext]_evalVars PROVE EvalInv'
  OBVIOUS
<1>1. CASE UNCHANGED evalVars
  BY <1>1
     DEF evalVars, threadVars, sinkVars, outcomeVars, fileVars, EvalInv, EvalTypeOK, OneOutcome,
         Settled, Counted, Reported, AtHand, Rows, Unbegun, OneAtATime, Clean, CleanTokens,
         PointerFollows, PointerIsWhole
<1>2. CASE EvalNext
  BY <1>2, ThreadKeeps, SubmitKeeps, ResultKeeps, GradeClaimKeeps, CalibrateKeeps,
     FinishRowKeeps, FailToGradeKeeps, BaselineKeeps, FilesKeep DEF EvalNext
<1> QED BY <1>1, <1>2

\* The invariant holds in every reachable state.
THEOREM EvalInvariance == EvalSpec => []EvalInv
BY EvalInitHolds, EvalNextKeeps, PTL DEF EvalSpec

\* The report accounts for every item the loop has left, once (main).
THEOREM EveryItemCounts == EvalSpec => []EveryItemAccounted
<1>1. EvalInv => EveryItemAccounted
  <2> SUFFICES ASSUME EvalInv PROVE EveryItemAccounted
    OBVIOUS
  <2>1. ASSUME NEW i \in Past
        PROVE  Cardinality({s \in {<<1, Reported>>, <<2, timeouts>>, <<3, failed>>} :
                              i \in s[2]}) = 1
    <3>1. i \in Item /\ (i < item \/ (phase \in {"write", "point"} /\ i <= item))
      <4>1. item \in Item /\ item \in Int
        BY ItemsAreNumbers DEF EvalInv, EvalTypeOK
      <4>2. CASE phase \in {"write", "point"}
        BY <4>1, <4>2, ItemsAreNumbers DEF Past, EvalInv, AtHand
      <4>3. CASE phase \notin {"write", "point"}
        <5>1. i \in 1..(item - 1) /\ item \in 1..Items /\ Items \in Nat
          BY <4>1, <4>3, EvalConstants DEF Past, Item
        <5> QED BY <5>1 DEF Item
      <4> QED BY <4>2, <4>3
    <3>2. Settled(i)
      <4>1. item \in Int /\ i \in Int
        BY <3>1, ItemsAreNumbers DEF EvalInv, EvalTypeOK
      <4> QED BY <3>1, <4>1 DEF Settled
    <3>3. PICK s \in {<<1, Reported>>, <<2, timeouts>>, <<3, failed>>} :
             {r \in {<<1, Reported>>, <<2, timeouts>>, <<3, failed>>} : i \in r[2]} = {s}
      BY <3>1, <3>2 DEF EvalInv, OneOutcome, Counted
    <3> QED BY <3>3, FS_Singleton
  <2> QED BY <2>1 DEF EvalInv, Rows, EveryItemAccounted
<1> QED BY <1>1, EvalInvariance, PTL

\* Until a first item times out no row is charged for another item's calls
\* (_maahaf_row, set_gateway).
THEOREM TokensAreExact == EvalSpec => []TokensExact
<1>1. EvalInv => TokensExact
  <2> SUFFICES ASSUME EvalInv, NEW i \in Reported, timeouts \intersect 1..i = {}
               PROVE  tokens[i] = asked[i] + gradingCalls[i]
    BY DEF TokensExact
  <2>1. i \in Item /\ timeouts \subseteq Item
    BY DEF Reported, EvalInv, EvalTypeOK
  <2>2. Clean(i)
    BY <2>1 DEF Clean, Item
  <2> QED BY <2>2 DEF EvalInv, CleanTokens
<1> QED BY <1>1, EvalInvariance, PTL

\* Whenever the process dies, latest.txt names no run with a file missing.
THEOREM PointerNeverTorn == EvalSpec => []PointerIsWhole
<1>1. EvalInv => PointerIsWhole
  BY DEF EvalInv, PointerFollows
<1> QED BY <1>1, EvalInvariance, PTL

-----------------------------------------------------------------------------
\* The demo server: what a review has done when it stands where it stands.

\* Before the request is recorded there is nothing to show, and before it is
\* enqueued nothing to review.
NothingBefore ==
    \A p \in Prompt :
        /\ handled[p] \in {"idle", "pipeline"} => decided[p] = "none" /\ trace[p] = NoTrace
        /\ handled[p] # "done" => entry[p] = NoEntry

\* Once it is recorded there is an outcome to change.
SomethingAfter ==
    \A p \in Prompt :
        handled[p] \in {"recorded", "done"} =>
            trace[p] \in [action : Actions, words : {"model", "revised", "withheld"}]

\* A review is of a listed item; an item is pending until a review's first step.
ReviewsAreOfEntries ==
    \A v \in Review :
        line[v] # "idle" =>
            /\ entry[review[v].on].status # "none"
            /\ line[v] # "status" => entry[review[v].on].status = "reviewed"
            /\ line[v] = "response" => TouchesTrace(v) /\ review[v].decision # "approved"
            /\ line[v] = "action" => TouchesTrace(v)

\* The words of the trace when a review of its own has written them.
WordsAfter(v) ==
    IF review[v].decision = "approved" THEN "model"
    ELSE IF review[v].decision = "rejected" THEN "withheld" ELSE "revised"

\* The trace of a request nobody reviewed, or that one call is reviewing.
TraceFollowsReview ==
    \A p \in Prompt :
        /\ Reviews(p) = {} /\ handled[p] \in {"recorded", "done"}
              => trace[p] = [action |-> decided[p], words |-> "model"]
        /\ \A v \in Reviews(p) :
              Reviews(p) = {v} =>
                  /\ line[v] \in {"status", "decision", "response"}
                        => trace[p] = [action |-> decided[p], words |-> "model"]
                  /\ line[v] = "action"
                        => trace[p] = [action |-> decided[p], words |-> WordsAfter(v)]

DemoInv ==
    /\ DemoTypeOK
    /\ DOMAIN review = Review
    /\ NothingBefore /\ SomethingAfter /\ ReviewsAreOfEntries /\ TraceFollowsReview
    /\ ReviewsAreDelivered

\* Initially no request has been made.
LEMMA DemoInitHolds == DemoInit => DemoInv
<1> SUFFICES ASSUME DemoInit PROVE DemoInv
  OBVIOUS
<1>1. DemoTypeOK /\ DOMAIN review = Review
  BY DEF DemoInit, DemoTypeOK, NoTrace, NoEntry
<1>2. NothingBefore /\ SomethingAfter /\ ReviewsAreOfEntries /\ TraceFollowsReview
  BY DEF DemoInit, NothingBefore, SomethingAfter, ReviewsAreOfEntries, TraceFollowsReview, Reviews
<1>3. ReviewsAreDelivered
  BY DEF DemoInit, ReviewsAreDelivered, Reviews, Listed, NoTrace, NoEntry
<1> QED BY <1>1, <1>2, <1>3 DEF DemoInv

\* The pipeline begins: nothing a reviewer sees changes.
LEMMA GenerateKeeps ==
    ASSUME DemoInv, NEW p \in Prompt, Generate(p)
    PROVE  DemoInv'
<1> USE DEF DemoInv
<1>1. /\ handled[p] = "idle" /\ handled' = [handled EXCEPT ![p] = "pipeline"]
      /\ UNCHANGED <<decided, trace, entry, review, line, evalRun>>
  BY DEF Generate
<1>2. DemoTypeOK' /\ DOMAIN review' = Review
  BY <1>1 DEF DemoTypeOK
<1>3. \A q \in Prompt :
          /\ handled'[q] = "done" <=> handled[q] = "done"
          /\ handled'[q] = "recorded" <=> handled[q] = "recorded"
          /\ handled'[q] \in {"idle", "pipeline"} <=> handled[q] \in {"idle", "pipeline"}
  BY <1>1 DEF DemoTypeOK
<1>4. NothingBefore' /\ SomethingAfter' /\ ReviewsAreOfEntries' /\ TraceFollowsReview'
  BY <1>1, <1>3 DEF NothingBefore, SomethingAfter, ReviewsAreOfEntries, TraceFollowsReview, Reviews,
                    TouchesTrace, WordsAfter
<1>5. ReviewsAreDelivered'
  BY <1>1, <1>3 DEF ReviewsAreDelivered, Reviews, Listed, Reviewed
<1> QED BY <1>2, <1>4, <1>5

\* The outcome is recorded: nobody has reviewed the request yet.
LEMMA RecordKeeps ==
    ASSUME DemoInv, NEW p \in Prompt, Record(p)
    PROVE  DemoInv'
<1> USE DEF DemoInv
<1>1. PICK action \in Actions :
         /\ decided' = [decided EXCEPT ![p] = action]
         /\ trace' = [trace EXCEPT ![p] = [action |-> action, words |-> "model"]]
  BY DEF Record, Traced
<1>2. /\ handled[p] = "pipeline" /\ handled' = [handled EXCEPT ![p] = "recorded"]
      /\ UNCHANGED <<entry, review, line, evalRun>>
  BY DEF Record
<1>3. entry[p] = NoEntry
  BY <1>2 DEF NothingBefore
<1>4. Reviews(p) = {} /\ \A q \in Prompt : Reviews(q)' = Reviews(q)
  BY <1>2, <1>3 DEF Reviews, ReviewsAreOfEntries, NoEntry
<1>5. DemoTypeOK' /\ DOMAIN review' = Review
  BY <1>1, <1>2 DEF DemoTypeOK
<1>6. /\ handled'[p] = "recorded" /\ decided'[p] = action
      /\ trace'[p] = [action |-> action, words |-> "model"]
      /\ \A q \in Prompt \ {p} : /\ handled'[q] = handled[q] /\ decided'[q] = decided[q]
                                 /\ trace'[q] = trace[q]
  BY <1>1, <1>2 DEF DemoTypeOK
<1>7. NothingBefore' /\ SomethingAfter'
  BY <1>2, <1>3, <1>6 DEF NothingBefore, SomethingAfter
<1>8. ReviewsAreOfEntries'
  BY <1>2 DEF ReviewsAreOfEntries, TouchesTrace
<1>9. TraceFollowsReview'
  BY <1>2, <1>4, <1>6 DEF TraceFollowsReview, WordsAfter
<1>10. ReviewsAreDelivered'
  <2> SUFFICES ASSUME NEW q \in Prompt
      PROVE /\ entry'[q].status = "pending"
                  => trace'[q] = [action |-> decided'[q], words |-> "model"]
            /\ handled'[q] = "done" /\ decided'[q] = "escalate"
                  => entry'[q].status \in {"pending", "reviewed"}
            /\ \A v \in Reviews(q)' :
                  Reviews(q)' = {v} /\ line'[v] = "done" => trace'[q] = Reviewed(q, v)'
            /\ trace'[q].action = decided'[q]
                  \/ \E v \in Reviews(q)' : trace'[q].action = ActionOf(review'[v].decision)
    BY DEF ReviewsAreDelivered, Listed
  <2>1. CASE q = p
    BY <1>2, <1>3, <1>4, <1>6, <2>1 DEF NoEntry
  <2>2. CASE q # p
    <3>1. \A v \in Review : Reviewed(q, v)' = Reviewed(q, v)
      BY <1>2, <1>6, <2>2 DEF Reviewed
    <3>2. Reviews(q) \subseteq Review
      BY DEF Reviews
    <3> QED BY <1>2, <1>4, <1>6, <2>2, <3>1, <3>2 DEF ReviewsAreDelivered, Listed
  <2> QED BY <2>1, <2>2
<1> QED BY <1>5, <1>7, <1>8, <1>9, <1>10

\* The item joins the queue: nobody has opened it yet.
LEMMA EnqueueKeeps ==
    ASSUME DemoInv, NEW p \in Prompt, Enqueue(p)
    PROVE  DemoInv'
<1> USE DEF DemoInv
<1>1. PICK highStakes \in BOOLEAN :
         entry' = IF Queued(decided[p], highStakes) THEN [entry EXCEPT ![p].status = "pending"]
                  ELSE entry
  BY DEF Enqueue
<1>2. /\ handled[p] = "recorded" /\ handled' = [handled EXCEPT ![p] = "done"]
      /\ UNCHANGED <<decided, trace, review, line, evalRun>>
  BY DEF Enqueue
<1>3. entry[p] = NoEntry
  BY <1>2 DEF NothingBefore
<1>4. Reviews(p) = {} /\ \A q \in Prompt : Reviews(q)' = Reviews(q)
  BY <1>2, <1>3 DEF Reviews, ReviewsAreOfEntries, NoEntry
<1>5. /\ entry' \in [Prompt -> [status : {"none", "pending", "reviewed"},
                                decision : Decisions \union {"none"}]]
      /\ \A q \in Prompt \ {p} : entry'[q] = entry[q]
      /\ decided[p] = "escalate" => entry'[p].status = "pending"
  <2>1. CASE Queued(decided[p], highStakes)
    BY <1>1, <2>1 DEF DemoTypeOK
  <2>2. CASE ~Queued(decided[p], highStakes)
    BY <1>1, <2>2 DEF DemoTypeOK, Queued
  <2> QED BY <2>1, <2>2
<1>6. DemoTypeOK' /\ DOMAIN review' = Review
  BY <1>2, <1>5 DEF DemoTypeOK
<1>7. handled'[p] = "done" /\ \A q \in Prompt \ {p} : handled'[q] = handled[q]
  BY <1>2 DEF DemoTypeOK
<1>8. NothingBefore' /\ SomethingAfter'
  BY <1>2, <1>5, <1>7 DEF NothingBefore, SomethingAfter
<1>9. ReviewsAreOfEntries'
  <2> SUFFICES ASSUME NEW v \in Review, line[v] # "idle"
               PROVE  review[v].on \in Prompt \ {p}
    BY <1>2, <1>5 DEF ReviewsAreOfEntries, TouchesTrace
  <2> QED BY <1>4 DEF Reviews, DemoTypeOK
<1>10. TraceFollowsReview'
  BY <1>2, <1>4, <1>7 DEF TraceFollowsReview, WordsAfter
<1>11. trace[p] = [action |-> decided[p], words |-> "model"]
  BY <1>2, <1>4 DEF TraceFollowsReview
<1>12. ReviewsAreDelivered'
  <2> SUFFICES ASSUME NEW q \in Prompt
      PROVE /\ entry'[q].status = "pending"
                  => trace[q] = [action |-> decided[q], words |-> "model"]
            /\ handled'[q] = "done" /\ decided[q] = "escalate"
                  => entry'[q].status \in {"pending", "reviewed"}
            /\ \A v \in Reviews(q)' :
                  Reviews(q)' = {v} /\ line'[v] = "done" => trace[q] = Reviewed(q, v)'
            /\ trace[q].action = decided[q]
                  \/ \E v \in Reviews(q)' : trace[q].action = ActionOf(review'[v].decision)
    BY <1>2 DEF ReviewsAreDelivered, Listed
  <2>1. CASE q = p
    BY <1>4, <1>5, <1>11, <2>1
  <2>2. CASE q # p
    <3>1. \A v \in Review : Reviewed(q, v)' = Reviewed(q, v)
      BY <1>2 DEF Reviewed
    <3>2. Reviews(q) \subseteq Review
      BY DEF Reviews
    <3> QED BY <1>2, <1>4, <1>5, <1>7, <2>2, <3>1, <3>2 DEF ReviewsAreDelivered, Listed
  <2> QED BY <2>1, <2>2
<1> QED BY <1>6, <1>8, <1>9, <1>10, <1>12

\* A reviewer opens an item that is listed: another review of the same item is
\* no longer the only one.
LEMMA OpenKeeps ==
    ASSUME DemoInv, NEW v \in Review, Open(v)
    PROVE  DemoInv'
<1> USE DEF DemoInv
<1>1. PICK p \in Prompt, decision \in Decisions, text \in BOOLEAN :
         /\ entry[p].status # "none"
         /\ review' = [review EXCEPT ![v] = [on |-> p, decision |-> decision, text |-> text]]
  BY DEF Open
<1>2. /\ line[v] = "idle" /\ line' = [line EXCEPT ![v] = "status"]
      /\ UNCHANGED <<handled, decided, trace, entry, evalRun>>
  BY DEF Open
<1>3. /\ review'[v] = [on |-> p, decision |-> decision, text |-> text]
      /\ line'[v] = "status" /\ DOMAIN review' = Review
      /\ \A w \in Review \ {v} : review'[w] = review[w] /\ line'[w] = line[w]
  BY <1>1, <1>2 DEF DemoTypeOK
<1>4. DemoTypeOK'
  BY <1>2, <1>3 DEF DemoTypeOK
<1>5. /\ Reviews(p)' = Reviews(p) \union {v} /\ v \notin Reviews(p)
      /\ \A q \in Prompt \ {p} : Reviews(q)' = Reviews(q) /\ v \notin Reviews(q)
  BY <1>2, <1>3 DEF Reviews
<1>6. NothingBefore' /\ SomethingAfter'
  BY <1>2 DEF NothingBefore, SomethingAfter
<1>7. ReviewsAreOfEntries'
  BY <1>1, <1>2, <1>3 DEF ReviewsAreOfEntries, TouchesTrace
<1>8. handled[p] = "done"
  BY <1>1 DEF NothingBefore, NoEntry, DemoTypeOK
<1>9. \A w \in Reviews(p)' : Reviews(p)' = {w} => w = v /\ Reviews(p) = {}
  BY <1>5
<1>10. TraceFollowsReview'
  <2> SUFFICES ASSUME NEW q \in Prompt
      PROVE /\ Reviews(q)' = {} /\ handled[q] \in {"recorded", "done"}
                  => trace[q] = [action |-> decided[q], words |-> "model"]
            /\ \A w \in Reviews(q)' :
                  Reviews(q)' = {w} =>
                      /\ line'[w] \in {"status", "decision", "response"}
                            => trace[q] = [action |-> decided[q], words |-> "model"]
                      /\ line'[w] = "action"
                            => trace[q] = [action |-> decided[q], words |-> WordsAfter(w)']
    BY <1>2 DEF TraceFollowsReview
  <2>1. CASE q = p
    BY <1>3, <1>5, <1>8, <1>9, <2>1 DEF TraceFollowsReview
  <2>2. CASE q # p
    <3>1. Reviews(q)' = Reviews(q) /\ \A w \in Reviews(q) : w \in Review \ {v}
      BY <1>5, <2>2 DEF Reviews
    <3> QED BY <1>3, <3>1 DEF TraceFollowsReview, WordsAfter
  <2> QED BY <2>1, <2>2
<1>11. ReviewsAreDelivered'
  <2> SUFFICES ASSUME NEW q \in Prompt
      PROVE /\ entry[q].status = "pending"
                  => trace[q] = [action |-> decided[q], words |-> "model"]
            /\ handled[q] = "done" /\ decided[q] = "escalate"
                  => entry[q].status \in {"pending", "reviewed"}
            /\ \A w \in Reviews(q)' :
                  Reviews(q)' = {w} /\ line'[w] = "done" => trace[q] = Reviewed(q, w)'
            /\ trace[q].action = decided[q]
                  \/ \E w \in Reviews(q)' : trace[q].action = ActionOf(review'[w].decision)
    BY <1>2 DEF ReviewsAreDelivered, Listed
  <2>1. \A w \in Reviews(q) : w \in Review \ {v} /\ w \in Reviews(q)'
    BY <1>5 DEF Reviews
  <2>2. /\ entry[q].status = "pending"
              => trace[q] = [action |-> decided[q], words |-> "model"]
        /\ handled[q] = "done" /\ decided[q] = "escalate"
              => entry[q].status \in {"pending", "reviewed"}
    BY DEF ReviewsAreDelivered, Listed
  <2>3. \A w \in Reviews(q)' :
           Reviews(q)' = {w} /\ line'[w] = "done" => trace[q] = Reviewed(q, w)'
    <3>1. CASE q = p
      BY <1>3, <1>9, <3>1
    <3>2. CASE q # p
      BY <1>2, <1>3, <1>5, <2>1, <3>2 DEF ReviewsAreDelivered, Reviewed
    <3> QED BY <3>1, <3>2
  <2>4. trace[q].action = decided[q]
           \/ \E w \in Reviews(q)' : trace[q].action = ActionOf(review'[w].decision)
    BY <1>3, <2>1 DEF ReviewsAreDelivered
  <2> QED BY <2>2, <2>3, <2>4
<1> QED BY <1>3, <1>4, <1>6, <1>7, <1>10, <1>11

\* A review that moves on is of the same item, and so are all the others.
LEMMA ReviewMovesOn ==
    ASSUME DemoInv, NEW v \in Review, NEW from \in {"status", "decision", "response", "action"},
           NEW to \in {"decision", "response", "action", "done"},
           Advance(v, from, to), UNCHANGED <<handled, decided, review, evalRun>>
    PROVE  /\ review[v].on \in Prompt /\ v \in Reviews(review[v].on)
           /\ review[v].decision \in Decisions
           /\ handled[review[v].on] = "done"
           /\ line[v] = from /\ line'[v] = to
           /\ \A w \in Review \ {v} : line'[w] = line[w]
           /\ line' \in [Review -> {"idle", "status", "decision", "response", "action", "done"}]
           /\ \A q \in Prompt : Reviews(q)' = Reviews(q)
           /\ \A q \in Prompt : q # review[v].on => v \notin Reviews(q)
           /\ \A w \in Review : TouchesTrace(w)' = TouchesTrace(w)
           /\ \A w \in Review : WordsAfter(w)' = WordsAfter(w)
           /\ \A w \in Review, q \in Prompt : Reviewed(q, w)' = Reviewed(q, w)
<1> USE DEF DemoInv
<1>1. /\ line[v] = from /\ line'[v] = to
      /\ \A w \in Review \ {v} : line'[w] = line[w]
      /\ line' \in [Review -> {"idle", "status", "decision", "response", "action", "done"}]
  BY DEF Advance, DemoTypeOK
<1>2. /\ review[v].on \in Prompt /\ review[v].decision \in Decisions
      /\ entry[review[v].on].status # "none"
  BY <1>1 DEF DemoTypeOK, ReviewsAreOfEntries
<1>3. handled[review[v].on] = "done"
  BY <1>2 DEF NothingBefore, NoEntry
<1>4. \A w \in Review : line'[w] = "idle" <=> line[w] = "idle"
  BY <1>1
<1>5. \A q \in Prompt : Reviews(q)' = Reviews(q)
  BY <1>4 DEF Reviews
<1>6. v \in Reviews(review[v].on) /\ \A q \in Prompt : q # review[v].on => v \notin Reviews(q)
  BY <1>1 DEF Reviews
<1>7. \A w \in Review : TouchesTrace(w)' = TouchesTrace(w) /\ WordsAfter(w)' = WordsAfter(w)
  BY DEF TouchesTrace, WordsAfter
<1>8. \A w \in Review, q \in Prompt : Reviewed(q, w)' = Reviewed(q, w)
  BY DEF Reviewed
<1> QED BY <1>1, <1>2, <1>3, <1>5, <1>6, <1>7, <1>8

\* The item leaves the pending list before anything else of it changes.
LEMMA SetStatusKeeps ==
    ASSUME DemoInv, NEW v \in Review, SetStatus(v)
    PROVE  DemoInv'
<1> DEFINE p == review[v].on
<1> USE DEF DemoInv
<1>1. /\ Advance(v, "status", "decision")
      /\ entry' = [entry EXCEPT ![p].status = "reviewed"]
      /\ UNCHANGED <<handled, decided, trace, review, evalRun>>
  BY DEF SetStatus
<1>2. /\ p \in Prompt /\ v \in Reviews(p) /\ handled[p] = "done"
      /\ line[v] = "status" /\ line'[v] = "decision"
      /\ \A w \in Review \ {v} : line'[w] = line[w]
      /\ line' \in [Review -> {"idle", "status", "decision", "response", "action", "done"}]
      /\ \A q \in Prompt : Reviews(q)' = Reviews(q)
      /\ \A q \in Prompt : q # p => v \notin Reviews(q)
      /\ \A w \in Review : TouchesTrace(w)' = TouchesTrace(w)
      /\ \A w \in Review : WordsAfter(w)' = WordsAfter(w)
      /\ \A w \in Review, q \in Prompt : Reviewed(q, w)' = Reviewed(q, w)
  BY <1>1, ReviewMovesOn
<1> HIDE DEF p
<1>3. /\ entry' \in [Prompt -> [status : {"none", "pending", "reviewed"},
                                decision : Decisions \union {"none"}]]
      /\ entry'[p].status = "reviewed" /\ \A q \in Prompt \ {p} : entry'[q] = entry[q]
  <2>1. entry \in [Prompt -> [status : {"none", "pending", "reviewed"},
                               decision : Decisions \union {"none"}]]
    BY DEF DemoTypeOK
  <2> QED BY <1>1, <1>2, <2>1
<1>4. DemoTypeOK' /\ DOMAIN review' = Review
  BY <1>1, <1>2, <1>3 DEF DemoTypeOK
<1>5. NothingBefore' /\ SomethingAfter'
  BY <1>1, <1>2, <1>3 DEF NothingBefore, SomethingAfter
<1>6. ReviewsAreOfEntries'
  BY <1>1, <1>2, <1>3 DEF ReviewsAreOfEntries, p
<1>7. TraceFollowsReview'
  BY <1>1, <1>2 DEF TraceFollowsReview, Reviews
<1>8. ReviewsAreDelivered'
  BY <1>1, <1>2, <1>3 DEF ReviewsAreDelivered, Listed, Reviews
<1> QED BY <1>4, <1>5, <1>6, <1>7, <1>8

\* The decision is noted: a revision without a text ends here.
LEMMA SetDecisionKeeps ==
    ASSUME DemoInv, NEW v \in Review, SetDecision(v)
    PROVE  DemoInv'
<1> DEFINE p == review[v].on
           to == IF ~TouchesTrace(v) THEN "done"
                 ELSE IF review[v].decision = "approved" THEN "action" ELSE "response"
<1> USE DEF DemoInv
<1>1. /\ Advance(v, "decision", to)
      /\ entry' = [entry EXCEPT ![p].decision = review[v].decision]
      /\ UNCHANGED <<handled, decided, trace, review, evalRun>>
  BY DEF SetDecision
<1>2. /\ p \in Prompt /\ v \in Reviews(p) /\ handled[p] = "done"
      /\ review[v].decision \in Decisions
      /\ line[v] = "decision" /\ line'[v] = to
      /\ \A w \in Review \ {v} : line'[w] = line[w]
      /\ line' \in [Review -> {"idle", "status", "decision", "response", "action", "done"}]
      /\ \A q \in Prompt : Reviews(q)' = Reviews(q)
      /\ \A q \in Prompt : q # p => v \notin Reviews(q)
      /\ \A w \in Review : TouchesTrace(w)' = TouchesTrace(w)
      /\ \A w \in Review : WordsAfter(w)' = WordsAfter(w)
      /\ \A w \in Review, q \in Prompt : Reviewed(q, w)' = Reviewed(q, w)
  BY <1>1, ReviewMovesOn
<1> HIDE DEF p, to
<1>3. /\ entry' \in [Prompt -> [status : {"none", "pending", "reviewed"},
                                decision : Decisions \union {"none"}]]
      /\ \A q \in Prompt : entry'[q].status = entry[q].status
      /\ \A q \in Prompt \ {p} : entry'[q] = entry[q]
  BY <1>1, <1>2 DEF DemoTypeOK
<1>4. DemoTypeOK' /\ DOMAIN review' = Review
  BY <1>1, <1>2, <1>3 DEF DemoTypeOK
<1>5. NothingBefore' /\ SomethingAfter'
  BY <1>1, <1>2, <1>3 DEF NothingBefore, SomethingAfter
<1>6. ReviewsAreOfEntries'
  BY <1>1, <1>2, <1>3 DEF ReviewsAreOfEntries, p, to
<1>7. Reviews(p) = {v} => trace[p] = [action |-> decided[p], words |-> "model"]
  BY <1>2 DEF TraceFollowsReview
<1>8. /\ to = "action" => WordsAfter(v) = "model"
      /\ to = "done" => Reviewed(p, v) = [action |-> decided[p], words |-> "model"]
  BY <1>2 DEF WordsAfter, TouchesTrace, Reviewed, to, Decisions
<1>9. TraceFollowsReview'
  BY <1>1, <1>2, <1>7, <1>8 DEF TraceFollowsReview, Reviews
<1>10. ReviewsAreDelivered'
  BY <1>1, <1>2, <1>3, <1>7, <1>8 DEF ReviewsAreDelivered, Listed, Reviews
<1> QED BY <1>4, <1>5, <1>6, <1>9, <1>10

\* The words are the reviewer's; the action still waits.
LEMMA SetResponseKeeps ==
    ASSUME DemoInv, NEW v \in Review, SetResponse(v)
    PROVE  DemoInv'
<1> DEFINE p == review[v].on
           words == IF review[v].decision = "rejected" THEN "withheld" ELSE "revised"
<1> USE DEF DemoInv
<1>1. /\ Advance(v, "response", "action")
      /\ trace' = [trace EXCEPT ![p].words = words]
      /\ UNCHANGED <<handled, decided, entry, review, evalRun>>
  BY DEF SetResponse
<1>2. /\ p \in Prompt /\ v \in Reviews(p) /\ handled[p] = "done"
      /\ line[v] = "response" /\ line'[v] = "action"
      /\ \A w \in Review \ {v} : line'[w] = line[w]
      /\ line' \in [Review -> {"idle", "status", "decision", "response", "action", "done"}]
      /\ \A q \in Prompt : Reviews(q)' = Reviews(q)
      /\ \A q \in Prompt : q # p => v \notin Reviews(q)
      /\ \A w \in Review : TouchesTrace(w)' = TouchesTrace(w)
      /\ \A w \in Review : WordsAfter(w)' = WordsAfter(w)
      /\ \A w \in Review, q \in Prompt : Reviewed(q, w)' = Reviewed(q, w)
  BY <1>1, ReviewMovesOn
<1>3. /\ entry[p].status = "reviewed" /\ WordsAfter(v) = words /\ TouchesTrace(v)
      /\ words \in {"model", "revised", "withheld"}
  BY <1>2 DEF ReviewsAreOfEntries, WordsAfter
<1>4. trace[p] \in [action : Actions, words : {"model", "revised", "withheld"}]
  BY <1>2 DEF SomethingAfter
<1> HIDE DEF p, words
<1>5. /\ trace'[p] = [action |-> trace[p].action, words |-> words]
      /\ trace'[p] \in [action : Actions, words : {"model", "revised", "withheld"}]
      /\ \A q \in Prompt \ {p} : trace'[q] = trace[q]
      /\ trace' \in [Prompt -> [action : Actions, words : {"model", "revised", "withheld"}]
                               \union {NoTrace}]
  BY <1>1, <1>2, <1>3, <1>4 DEF DemoTypeOK
<1>6. DemoTypeOK' /\ DOMAIN review' = Review
  BY <1>1, <1>2, <1>5 DEF DemoTypeOK
<1>7. NothingBefore' /\ SomethingAfter'
  BY <1>1, <1>2, <1>5 DEF NothingBefore, SomethingAfter
<1>8. ReviewsAreOfEntries'
  BY <1>1, <1>2 DEF ReviewsAreOfEntries
<1>9. Reviews(p) = {v} => trace[p] = [action |-> decided[p], words |-> "model"]
  BY <1>2 DEF TraceFollowsReview
<1>10. TraceFollowsReview'
  BY <1>1, <1>2, <1>3, <1>5, <1>9 DEF TraceFollowsReview, Reviews
<1>11. ReviewsAreDelivered'
  BY <1>1, <1>2, <1>3, <1>5 DEF ReviewsAreDelivered, Listed, Reviews
<1> QED BY <1>6, <1>7, <1>8, <1>10, <1>11

\* The action is the one the decision stands for: with one review of the item,
\* the trace is what the review makes of it.
LEMMA SetActionKeeps ==
    ASSUME DemoInv, NEW v \in Review, SetAction(v)
    PROVE  DemoInv'
<1> DEFINE p == review[v].on
           action == ActionOf(review[v].decision)
<1> USE DEF DemoInv
<1>1. /\ Advance(v, "action", "done")
      /\ trace' = [trace EXCEPT ![p].action = action]
      /\ UNCHANGED <<handled, decided, entry, review, evalRun>>
  BY DEF SetAction
<1>2. /\ p \in Prompt /\ v \in Reviews(p) /\ handled[p] = "done"
      /\ review[v].decision \in Decisions
      /\ line[v] = "action" /\ line'[v] = "done"
      /\ \A w \in Review \ {v} : line'[w] = line[w]
      /\ line' \in [Review -> {"idle", "status", "decision", "response", "action", "done"}]
      /\ \A q \in Prompt : Reviews(q)' = Reviews(q)
      /\ \A q \in Prompt : q # p => v \notin Reviews(q)
      /\ \A w \in Review : TouchesTrace(w)' = TouchesTrace(w)
      /\ \A w \in Review : WordsAfter(w)' = WordsAfter(w)
      /\ \A w \in Review, q \in Prompt : Reviewed(q, w)' = Reviewed(q, w)
  BY <1>1, ReviewMovesOn
<1>3. entry[p].status = "reviewed" /\ TouchesTrace(v) /\ action \in Actions
  BY <1>2 DEF ReviewsAreOfEntries, ActionOf, Actions
<1>4. trace[p] \in [action : Actions, words : {"model", "revised", "withheld"}]
  BY <1>2 DEF SomethingAfter
<1>5. Reviewed(p, v) = [action |-> action, words |-> WordsAfter(v)]
  BY <1>2, <1>3 DEF Reviewed, WordsAfter, ActionOf, TouchesTrace, Decisions
<1> HIDE DEF p, action
<1>6. /\ trace'[p] = [action |-> action, words |-> trace[p].words]
      /\ trace'[p] \in [action : Actions, words : {"model", "revised", "withheld"}]
      /\ \A q \in Prompt \ {p} : trace'[q] = trace[q]
      /\ trace' \in [Prompt -> [action : Actions, words : {"model", "revised", "withheld"}]
                               \union {NoTrace}]
  BY <1>1, <1>2, <1>3, <1>4 DEF DemoTypeOK
<1>7. DemoTypeOK' /\ DOMAIN review' = Review
  BY <1>1, <1>2, <1>6 DEF DemoTypeOK
<1>8. NothingBefore' /\ SomethingAfter'
  BY <1>1, <1>2, <1>6 DEF NothingBefore, SomethingAfter
<1>9. ReviewsAreOfEntries'
  BY <1>1, <1>2 DEF ReviewsAreOfEntries
<1>10. Reviews(p) = {v} => trace'[p] = Reviewed(p, v)
  <2>1. Reviews(p) = {v} => trace[p] = [action |-> decided[p], words |-> WordsAfter(v)]
    BY <1>2 DEF TraceFollowsReview
  <2>2. Reviews(p) = {v} => trace[p].words = WordsAfter(v)
    BY <2>1
  <2> QED BY <1>5, <1>6, <2>2
<1>11. TraceFollowsReview'
  BY <1>1, <1>2, <1>6 DEF TraceFollowsReview, Reviews
<1>12. ReviewsAreDelivered'
  BY <1>1, <1>2, <1>3, <1>6, <1>10 DEF ReviewsAreDelivered, Listed, Reviews, action
<1> QED BY <1>7, <1>8, <1>9, <1>11, <1>12

\* An evaluation run touches neither traces nor the queue.
LEMMA RunEvalKeeps == DemoInv /\ RunEval => DemoInv'
BY DEF RunEval, DemoInv, DemoTypeOK, NothingBefore, SomethingAfter, ReviewsAreOfEntries,
       TraceFollowsReview, ReviewsAreDelivered, Reviews, Listed, Reviewed, TouchesTrace, WordsAfter

LEMMA DemoNextKeeps == DemoInv /\ [DemoNext]_demoVars => DemoInv'
<1> SUFFICES ASSUME DemoInv, [DemoNext]_demoVars PROVE DemoInv'
  OBVIOUS
<1>1. CASE UNCHANGED demoVars
  BY <1>1
     DEF demoVars, DemoInv, DemoTypeOK, NothingBefore, SomethingAfter, ReviewsAreOfEntries,
         TraceFollowsReview, ReviewsAreDelivered, Reviews, Listed, Reviewed, TouchesTrace,
         WordsAfter
<1>2. CASE DemoNext
  BY <1>2, GenerateKeeps, RecordKeeps, EnqueueKeeps, OpenKeeps, SetStatusKeeps, SetDecisionKeeps,
     SetResponseKeeps, SetActionKeeps, RunEvalKeeps DEF DemoNext
<1> QED BY <1>1, <1>2

\* The invariant holds in every reachable state.
THEOREM DemoInvariance == DemoSpec => []DemoInv
BY DemoInitHolds, DemoNextKeeps, PTL DEF DemoSpec

\* What is delivered is the pipeline's outcome until a review has left the
\* pending list, one review's work after it, and never an action that neither
\* the pipeline nor a reviewer chose (generate, review_resolve).
THEOREM ReviewsDelivered == DemoSpec => []ReviewsAreDelivered
<1>1. DemoInv => ReviewsAreDelivered
  BY DEF DemoInv
<1> QED BY <1>1, DemoInvariance, PTL

-----------------------------------------------------------------------------
\* The two together.

\* A behaviour is one of either program: one moves, the other stutters.
THEOREM ScriptsAreEach == ScriptsSpec => EvalSpec /\ DemoSpec
<1>1. ScriptsInit => EvalInit /\ DemoInit
  BY DEF ScriptsInit
<1>2. [ScriptsNext]_<<script, evalVars, demoVars>> => [EvalNext]_evalVars
  BY DEF ScriptsNext
<1>3. [ScriptsNext]_<<script, evalVars, demoVars>> => [DemoNext]_demoVars
  BY DEF ScriptsNext
<1> QED BY <1>1, <1>2, <1>3, PTL DEF ScriptsSpec, EvalSpec, DemoSpec

\* A behaviour stays with the program it is of.
ScriptKnown == script \in {"eval_local", "serve_demo"}

\* Every variable of the two modules keeps its type, in every behaviour.
THEOREM ScriptsTypes == ScriptsSpec => []ScriptsTypeOK
<1>1. ScriptsInit => ScriptKnown
  BY DEF ScriptsInit, ScriptKnown
<1>2. ScriptKnown /\ [ScriptsNext]_<<script, evalVars, demoVars>> => ScriptKnown'
  BY DEF ScriptsNext, ScriptKnown
<1>3. EvalInv /\ DemoInv /\ ScriptKnown => ScriptsTypeOK
  BY DEF EvalInv, DemoInv, ScriptKnown, ScriptsTypeOK
<1> QED BY <1>1, <1>2, <1>3, ScriptsAreEach, EvalInvariance, DemoInvariance, PTL
        DEF ScriptsSpec
=============================================================================
