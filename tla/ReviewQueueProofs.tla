---------------------------- MODULE ReviewQueueProofs ----------------------------
(***************************************************************************)
(* Theorems about ReviewQueue, for any number of items and of calls that   *)
(* decide on them, overlapping as they may and saying the same or not.     *)
(***************************************************************************)
EXTENDS ReviewQueue, TLAPS

--------------------------------------------------------------------------------
\* The inductive invariant

\* The rows of an item come together, a reviewed one names a committed call that
\* was about it, and calls are about items that are there.
RowsTogether ==
    /\ \A i \in Item :
        /\ item[i].status = "absent" <=> request[i].action = "none"
        /\ item[i].status = "reviewed" <=> item[i].review # NoCall
    /\ \A i \in Item, c \in Call :
        item[i].review = c => stage[c] = "committed" /\ asks[c].item = i
    /\ \A c \in Call : stage[c] # "ready" => item[asks[c].item].status # "absent"

\* What the response of an item may say: the draft, or what a decision brought.
Said(i) ==
    {Draft[i]} \cup {asks[c].text : c \in {d \in Call :
        stage[d] = "committed" /\ asks[d].item = i /\ asks[d].decision # "approved"}}

\* Every response, and every copy of one that a call holds, says one of these.
SaidBefore ==
    /\ \A i \in Item : item[i].status # "absent" => request[i].text \in Said(i)
    /\ \A c \in Call : stage[c] = "loaded" => seen[c].text \in Said(asks[c].item)

IInv == TypeOK /\ RowsTogether /\ SaidBefore /\ TraceAgrees /\ RevisedTextStands

\* Why no lost update leaves an escalation behind: whoever commits first to a
\* pending item loaded the action the request was stored with, so an attribute
\* the flush leaves out is left out for being right already; and whatever is
\* committed after that, no call wants "escalate".
Escalations ==
    /\ \A i \in Item :
        /\ item[i].status = "pending" => request[i].action = Origin[i]
        /\ item[i].status = "reviewed" => request[i].action \in {"answer", "abstain"}
    /\ \A c \in Call :
        stage[c] = "loaded" /\ item[asks[c].item].status = "pending"
        => seen[c].action = Origin[asks[c].item]

\* A call that is under way decides on the item and the response as they are.
CallsAreCurrent ==
    /\ \A c \in Call : Open(c) => item[asks[c].item].status = "pending"
    /\ \A c \in Call : stage[c] = "loaded" => seen[c] = request[asks[c].item]

--------------------------------------------------------------------------------
\* What one call writes

\* What a call asks for.
LEMMA Asked ==
    ASSUME TypeOK, NEW c \in Call
    PROVE  /\ asks[c].item \in Item /\ asks[c].decision \in Decisions
           /\ asks[c].decision = "approved" => asks[c].text = NoText
           /\ asks[c].decision = "revised" => asks[c].text \in Text
           /\ asks[c].decision = "rejected" => asks[c].text \in Notice /\ asks[c].text \in Text
  <1>1. asks[c] \in Body
    BY DEF TypeOK
  <1>2. asks[c].item \in Item /\ asks[c].decision \in Decisions
        /\ asks[c].text \in TextsFor(asks[c].decision)
    BY <1>1 DEF Body
  <1>3. QED
    BY <1>2, TextAssumption DEF TextsFor

\* The row a call wants is a request, with the text it brings unless it approves.
LEMMA ResolvedType ==
    ASSUME TypeOK, NEW c \in Call
    PROVE  /\ Resolved(c) \in Request /\ Resolved(c).action \in {"answer", "abstain"}
           /\ Resolved(c).text = IF asks[c].decision = "approved" THEN seen[c].text
                                 ELSE asks[c].text
  <1>1. seen[c] \in Request
    BY DEF TypeOK
  <1>2. CASE asks[c].decision = "approved"
    BY <1>1, <1>2 DEF Resolved, Request, Actions
  <1>3. CASE asks[c].decision = "revised"
    BY <1>3, Asked DEF Resolved, Request, Actions
  <1>4. CASE asks[c].decision = "rejected"
    BY <1>4, Asked DEF Resolved, Request, Actions
  <1>5. QED
    BY <1>2, <1>3, <1>4, Asked DEF Decisions

\* The row its commit leaves: each attribute is the one the call wants, unless
\* that is the one it loaded.
LEMMA FlushedRow ==
    ASSUME TypeOK, NEW c \in Call
    PROVE  LET row == request[asks[c].item] IN
           /\ Flushed(c) \in Request
           /\ Flushed(c).action = IF Resolved(c).action = seen[c].action THEN row.action
                                  ELSE Resolved(c).action
           /\ Flushed(c).text = IF Resolved(c).text = seen[c].text THEN row.text
                                ELSE Resolved(c).text
  <1>1. Resolved(c) \in Request /\ request[asks[c].item] \in Request
    BY ResolvedType, Asked DEF TypeOK
  <1>2. QED
    BY <1>1 DEF Flushed, Request

--------------------------------------------------------------------------------
\* The invariant, action by action

LEMMA InitIInv == Init => IInv
  <1>1. SUFFICES ASSUME Init PROVE IInv
    OBVIOUS
  <1>2. NoRequest \in Request
    BY DEF NoRequest, Request, Actions
  <1>3. TypeOK
    BY <1>1, <1>2 DEF Init, TypeOK
  <1>4. RowsTogether
    BY <1>1, TextAssumption DEF Init, RowsTogether, NoRequest
  <1>5. SaidBefore /\ TraceAgrees
    BY <1>1 DEF Init, SaidBefore, TraceAgrees
  <1>6. RevisedTextStands
    BY <1>1, TextAssumption DEF Init, RevisedTextStands
  <1>7. QED
    BY <1>3, <1>4, <1>5, <1>6 DEF IInv

\* No decision is taken back: what was said once has been said.
LEMMA SaidGrows ==
    ASSUME asks' = asks, \A c \in Call : stage[c] = "committed" => stage'[c] = "committed"
    PROVE  /\ \A i \in Item : Said(i) \subseteq Said(i)'
           /\ \A c \in Call : NotNew(c) => NotNew(c)'
  BY DEF Said, NotNew

LEMMA PersistStep ==
    ASSUME IInv, NEW i \in Item, PersistRequest(i)
    PROVE  IInv'
  <1> DEFINE new == [action |-> Origin[i], text |-> Draft[i]]
  <1>1. TypeOK /\ RowsTogether /\ SaidBefore /\ TraceAgrees /\ RevisedTextStands
    BY DEF IInv
  <1>2. /\ item[i].status = "absent" /\ UNCHANGED <<trace, asks, stage, seen>>
        /\ item' = [item EXCEPT ![i].status = "pending"]
        /\ request' = [request EXCEPT ![i] = new]
    BY DEF PersistRequest
  <1>3. new \in Request /\ new.action # "none" /\ new.text = Draft[i]
    BY OriginAssumption, TextAssumption DEF Request, Actions
  <1> HIDE DEF new
  <1>4. /\ TypeOK'
        /\ item'[i].status = "pending" /\ item'[i].review = item[i].review /\ request'[i] = new
        /\ \A j \in Item \ {i} : item'[j] = item[j] /\ request'[j] = request[j]
    BY <1>1, <1>2, <1>3 DEF TypeOK
  <1>5. item[i].review = NoCall
    BY <1>1, <1>2 DEF RowsTogether
  <1>6. RowsTogether'
    <2>1. \A c \in Call : stage'[c] # "ready" => item'[asks'[c].item].status # "absent"
      BY <1>1, <1>2, <1>4, Asked DEF RowsTogether
    <2>2. \A j \in Item, c \in Call :
            item'[j].review = c => stage'[c] = "committed" /\ asks'[c].item = j
      BY <1>1, <1>2, <1>4, <1>5, TextAssumption DEF RowsTogether
    <2>3. \A j \in Item : /\ item'[j].status = "absent" <=> request'[j].action = "none"
                          /\ item'[j].status = "reviewed" <=> item'[j].review # NoCall
      BY <1>1, <1>3, <1>4, <1>5 DEF RowsTogether
    <2>4. QED
      BY <2>1, <2>2, <2>3 DEF RowsTogether
  <1>7. \A j \in Item : Said(j) \subseteq Said(j)'
    BY <1>2, SaidGrows
  <1>8. SaidBefore'
    <2>1. request'[i].text \in Said(i)'
      BY <1>3, <1>4 DEF Said
    <2>2. \A j \in Item : item'[j].status # "absent" => request'[j].text \in Said(j)'
      BY <1>1, <1>4, <1>7, <2>1 DEF SaidBefore
    <2>3. \A c \in Call : stage'[c] = "loaded" => seen'[c].text \in Said(asks[c].item)'
      BY <1>1, <1>2, <1>7, Asked DEF SaidBefore
    <2>4. QED
      BY <1>2, <2>2, <2>3 DEF SaidBefore
  <1>9. TraceAgrees'
    BY <1>1, <1>2, <1>4 DEF TraceAgrees
  <1>10. RevisedTextStands'
    <2>1. \A c \in Call : NotNew(c) => NotNew(c)'
      BY <1>2, SaidGrows
    <2>2. \A j \in Item, c \in Call :
            item'[j].review = c => j # i /\ item'[j] = item[j] /\ request'[j] = request[j]
      BY <1>4, <1>5, TextAssumption
    <2>3. QED
      BY <1>1, <1>2, <2>1, <2>2 DEF RevisedTextStands
  <1>11. QED
    BY <1>4, <1>6, <1>8, <1>9, <1>10 DEF IInv

\* A call that begins, loads or gives up leaves the rows alone.
LEMMA CallStep ==
    ASSUME IInv, NEW c \in Call, Begin(c) \/ Load(c) \/ Rollback(c)
    PROVE  IInv'
  <1>1. TypeOK /\ RowsTogether /\ SaidBefore /\ TraceAgrees /\ RevisedTextStands
    BY DEF IInv
  <1>2. /\ UNCHANGED <<item, request, trace, asks>>
        /\ stage[c] # "committed" /\ item[asks[c].item].status # "absent"
        /\ \A d \in Call \ {c} : stage'[d] = stage[d] /\ seen'[d] = seen[d]
        /\ \/ stage'[c] = "begun" /\ TypeOK'
           \/ stage'[c] = "loaded" /\ seen'[c] = request[asks[c].item] /\ TypeOK'
           \/ stage'[c] = "ready" /\ TypeOK'
    <2>1. CASE Begin(c)
      BY <1>1, <2>1 DEF Begin, TypeOK
    <2>2. CASE Load(c)
      <3>1. request[asks[c].item] \in Request
        BY <1>1, Asked DEF TypeOK
      <3>2. QED
        BY <1>1, <2>2, <3>1 DEF Load, TypeOK, RowsTogether
    <2>3. CASE Rollback(c)
      <3>1. NoRequest \in Request
        BY DEF NoRequest, Request, Actions
      <3>2. QED
        BY <1>1, <2>3, <3>1 DEF Rollback, TypeOK, RowsTogether
    <2>4. QED
      BY <2>1, <2>2, <2>3
  <1>3. /\ \A i \in Item : Said(i) \subseteq Said(i)'
        /\ \A d \in Call : NotNew(d) => NotNew(d)'
    BY <1>2, SaidGrows
  <1>4. RowsTogether'
    BY <1>1, <1>2 DEF RowsTogether
  <1>5. SaidBefore'
    <2>1. \A i \in Item : item'[i].status # "absent" => request'[i].text \in Said(i)'
      BY <1>1, <1>2, <1>3 DEF SaidBefore
    <2>2. \A d \in Call : stage'[d] = "loaded" => seen'[d].text \in Said(asks[d].item)'
      BY <1>1, <1>2, <1>3, Asked DEF SaidBefore
    <2>3. QED
      BY <1>2, <2>1, <2>2 DEF SaidBefore
  <1>6. TraceAgrees' /\ RevisedTextStands'
    BY <1>1, <1>2, <1>3 DEF TraceAgrees, RevisedTextStands
  <1>7. QED
    BY <1>2, <1>4, <1>5, <1>6 DEF IInv

LEMMA CommitStep ==
    ASSUME IInv, NEW c \in Call, Commit(c)
    PROVE  IInv'
  <1> DEFINE i == asks[c].item
  <1>1. /\ TypeOK /\ RowsTogether /\ SaidBefore /\ TraceAgrees /\ RevisedTextStands
        /\ i \in Item /\ Flushed(c) \in Request /\ NoRequest \in Request
    BY Asked, FlushedRow DEF IInv, NoRequest, Request, Actions
  <1>2. /\ stage[c] = "loaded" /\ stage' = [stage EXCEPT ![c] = "committed"]
        /\ item' = [item EXCEPT ![i] = [status |-> "reviewed", review |-> c]]
        /\ request' = [request EXCEPT ![i] = Flushed(c)]
        /\ trace' = [trace EXCEPT ![i] = c]
        /\ seen' = [seen EXCEPT ![c] = NoRequest] /\ asks' = asks
    BY DEF Commit
  <1>3. /\ TypeOK'
        /\ item'[i] = [status |-> "reviewed", review |-> c] /\ trace'[i] = c
        /\ request'[i] = Flushed(c) /\ stage'[c] = "committed"
        /\ \A j \in Item \ {i} :
              item'[j] = item[j] /\ request'[j] = request[j] /\ trace'[j] = trace[j]
        /\ \A d \in Call \ {c} : stage'[d] = stage[d] /\ seen'[d] = seen[d]
    BY <1>1, <1>2 DEF TypeOK
  <1>4. /\ \A j \in Item : Said(j) \subseteq Said(j)'
        /\ \A d \in Call : NotNew(d) => NotNew(d)'
    BY <1>2, <1>3, SaidGrows
  <1>5. seen[c].text \in Said(i) /\ request[i].text \in Said(i) /\ item[i].status # "absent"
    BY <1>1, <1>2 DEF SaidBefore, RowsTogether
  <1>6. RowsTogether'
    <2>1. Flushed(c).action # "none"
      <3>1. request[i].action # "none"
        BY <1>1, <1>5 DEF RowsTogether
      <3>2. QED
        BY <1>1, <3>1, FlushedRow, ResolvedType
    <2>2. \A j \in Item : /\ item'[j].status = "absent" <=> request'[j].action = "none"
                          /\ item'[j].status = "reviewed" <=> item'[j].review # NoCall
      BY <1>1, <1>3, <2>1, TextAssumption DEF RowsTogether
    <2>3. \A j \in Item, d \in Call :
            item'[j].review = d => stage'[d] = "committed" /\ asks'[d].item = j
      BY <1>1, <1>2, <1>3 DEF RowsTogether
    <2>4. \A d \in Call : stage'[d] # "ready" => item'[asks'[d].item].status # "absent"
      BY <1>1, <1>2, <1>3, Asked DEF RowsTogether
    <2>5. QED
      BY <2>2, <2>3, <2>4 DEF RowsTogether
  <1>7. SaidBefore'
    <2>1. asks[c].decision # "approved" => asks[c].text \in Said(i)'
      BY <1>2, <1>3 DEF Said
    <2>2. Flushed(c).text \in Said(i)'
      BY <1>1, <1>2, <1>4, <1>5, <2>1, FlushedRow, ResolvedType
    <2>3. \A j \in Item : item'[j].status # "absent" => request'[j].text \in Said(j)'
      BY <1>1, <1>2, <1>3, <1>4, <2>2 DEF SaidBefore
    <2>4. \A d \in Call : stage'[d] = "loaded" => seen'[d].text \in Said(asks[d].item)'
      BY <1>1, <1>2, <1>3, <1>4, Asked DEF SaidBefore
    <2>5. QED
      BY <1>2, <2>3, <2>4 DEF SaidBefore
  <1>8. TraceAgrees'
    BY <1>1, <1>3 DEF TraceAgrees
  <1>9. RevisedTextStands'
    <2>1. ASSUME asks[c].decision = "revised"
          PROVE  Flushed(c).text = asks[c].text \/ NotNew(c)'
      <3>1. Resolved(c).text = asks[c].text
        BY <1>1, <2>1, ResolvedType
      <3>2. CASE asks[c].text # seen[c].text
        BY <1>1, <3>1, <3>2, FlushedRow
      <3>3. CASE asks[c].text = seen[c].text
        <4>1. NotNew(c)
          BY <1>2, <1>5, <3>3 DEF Said, NotNew
        <4>2. QED
          BY <1>4, <4>1
      <3>4. QED
        BY <3>2, <3>3
    <2>2. QED
      BY <1>1, <1>2, <1>3, <1>4, <2>1 DEF RevisedTextStands
  <1>10. QED
    BY <1>3, <1>6, <1>7, <1>8, <1>9 DEF IInv

LEMMA NextIInv == IInv /\ [Next]_vars => IInv'
  <1> SUFFICES ASSUME IInv, [Next]_vars PROVE IInv'
    OBVIOUS
  <1>1. CASE UNCHANGED vars
    <2>1. TypeOK' /\ RowsTogether' /\ TraceAgrees'
      BY <1>1 DEF vars, IInv, TypeOK, RowsTogether, TraceAgrees
    <2>2. SaidBefore' /\ RevisedTextStands'
      BY <1>1 DEF vars, IInv, SaidBefore, Said, RevisedTextStands, NotNew
    <2>3. QED
      BY <2>1, <2>2 DEF IInv
  <1>2. QED
    BY <1>1, PersistStep, CallStep, CommitStep DEF Next

\* The inductive invariant of the queue: rows, copies and calls agree, and no
\* response says what neither its draft nor a decision said.
THEOREM Invariant == Spec => []IInv
  BY InitIInv, NextIInv, PTL DEF Spec

--------------------------------------------------------------------------------
\* The theorems

\* The rows and the calls keep their types.
THEOREM TypeCorrect == Spec => []TypeOK
  <1>1. IInv => TypeOK
    BY DEF IInv
  <1>2. QED
    BY <1>1, Invariant, PTL

\* Queue row and audit trace have the decision of one call, for any number of them.
THEOREM TraceFollowsQueue == Spec => []TraceAgrees
  <1>1. IInv => TraceAgrees
    BY DEF IInv
  <1>2. QED
    BY <1>1, Invariant, PTL

\* A recorded revision that says something new is the response: the ORM leaves
\* the text out of its UPDATE only when the call loaded that very text, and then
\* the draft or a decision had said it before.
THEOREM RevisionIsDelivered == Spec => []RevisedTextStands
  <1>1. IInv => RevisedTextStands
    BY DEF IInv
  <1>2. QED
    BY <1>1, Invariant, PTL

LEMMA EscalationsCommit ==
    ASSUME IInv, Escalations, NEW c \in Call, Commit(c)
    PROVE  Escalations'
  <1> DEFINE i == asks[c].item
  <1>1. /\ TypeOK /\ RowsTogether /\ i \in Item /\ Resolved(c).action \in {"answer", "abstain"}
        /\ Flushed(c).action = IF Resolved(c).action = seen[c].action THEN request[i].action
                               ELSE Resolved(c).action
    BY Asked, ResolvedType, FlushedRow DEF IInv
  <1>2. stage[c] = "loaded" /\ asks' = asks /\ item[i].status \in {"pending", "reviewed"}
    BY <1>1 DEF Commit, TypeOK, RowsTogether
  <1>3. Flushed(c).action \in {"answer", "abstain"}
    BY <1>1, <1>2 DEF Escalations
  <1>4. /\ item'[i].status = "reviewed" /\ request'[i] = Flushed(c) /\ stage'[c] = "committed"
        /\ \A j \in Item \ {i} : item'[j] = item[j] /\ request'[j] = request[j]
        /\ \A d \in Call \ {c} : stage'[d] = stage[d] /\ seen'[d] = seen[d]
    BY <1>1 DEF Commit, TypeOK
  <1>5. \A d \in Call : asks[d].item \in Item
    BY <1>1, Asked
  <1>6. QED
    BY <1>2, <1>3, <1>4, <1>5 DEF Escalations

LEMMA EscalationsStep ==
    ASSUME IInv, Escalations, [Next]_vars
    PROVE  Escalations'
  <1>0. TypeOK /\ RowsTogether /\ \A c \in Call : asks[c].item \in Item
    BY Asked DEF IInv
  <1>1. ASSUME NEW i \in Item, PersistRequest(i) PROVE Escalations'
    <2>1. /\ item'[i].status = "pending" /\ request'[i].action = Origin[i]
          /\ \A j \in Item \ {i} : item'[j] = item[j] /\ request'[j] = request[j]
          /\ UNCHANGED <<asks, stage, seen>>
      BY <1>0, <1>1 DEF PersistRequest, TypeOK
    <2>2. \A c \in Call : stage[c] # "ready" => asks[c].item # i
      BY <1>0, <1>1 DEF PersistRequest, RowsTogether
    <2>3. QED
      BY <1>0, <2>1, <2>2 DEF Escalations
  <1>2. ASSUME NEW c \in Call, Begin(c) PROVE Escalations'
    BY <1>0, <1>2 DEF Begin, Escalations, TypeOK
  <1>3. ASSUME NEW c \in Call, Load(c) PROVE Escalations'
    BY <1>0, <1>3 DEF Load, Escalations, TypeOK
  <1>4. ASSUME NEW c \in Call, Rollback(c) PROVE Escalations'
    BY <1>0, <1>4 DEF Rollback, Escalations, TypeOK
  <1>5. CASE UNCHANGED vars
    BY <1>5 DEF vars, Escalations
  <1>6. QED
    BY <1>1, <1>2, <1>3, <1>4, <1>5, EscalationsCommit DEF Next

\* A request is marked as escalated exactly as long as its item is pending,
\* whatever calls overlap.
THEOREM EscalationsEnd == Spec => []EscalationIsPending
  <1>1. Init => Escalations
    BY DEF Init, Escalations
  <1>2. IInv /\ Escalations /\ [Next]_vars => Escalations'
    BY EscalationsStep
  <1>3. IInv /\ Escalations => EscalationIsPending
    BY OriginAssumption DEF IInv, TypeOK, RowsTogether, Escalations, EscalationIsPending
  <1>4. QED
    BY <1>1, <1>2, <1>3, Invariant, PTL DEF Spec

--------------------------------------------------------------------------------
\* One call at a time

LEMMA SequentialInvariant == SequentialSpec => [](IInv /\ OneAtATime)
  <1>1. Init => OneAtATime
    BY DEF Init, OneAtATime, Open
  <1>2. OneAtATime /\ [Next /\ OneAtATime']_vars => OneAtATime'
    BY DEF OneAtATime, Open, vars
  <1>3. IInv /\ [Next /\ OneAtATime']_vars => IInv'
    BY NextIInv
  <1>4. QED
    BY <1>1, <1>2, <1>3, InitIInv, PTL DEF SequentialSpec

\* The call under way is the only one: its copy of the request stays current.
LEMMA AloneIsCurrent ==
    ASSUME IInv, OneAtATime, CallsAreCurrent, [Next /\ OneAtATime']_vars
    PROVE  CallsAreCurrent'
  <1>0. TypeOK /\ RowsTogether /\ \A c \in Call : asks[c].item \in Item
    BY Asked DEF IInv
  <1>1. ASSUME NEW i \in Item, PersistRequest(i) PROVE CallsAreCurrent'
    <2>1. UNCHANGED <<asks, stage, seen>> /\ item[i].status = "absent"
          /\ \A j \in Item \ {i} : item'[j] = item[j] /\ request'[j] = request[j]
      BY <1>0, <1>1 DEF PersistRequest, TypeOK
    <2>2. \A c \in Call : stage[c] # "ready" => asks[c].item # i
      BY <1>0, <2>1 DEF RowsTogether
    <2>3. QED
      BY <1>0, <2>1, <2>2 DEF CallsAreCurrent, Open
  <1>2. ASSUME NEW c \in Call, Begin(c) PROVE CallsAreCurrent'
    BY <1>0, <1>2 DEF Begin, CallsAreCurrent, Open, TypeOK
  <1>3. ASSUME NEW c \in Call, Load(c) PROVE CallsAreCurrent'
    BY <1>0, <1>3 DEF Load, CallsAreCurrent, Open, TypeOK
  <1>4. ASSUME NEW c \in Call, Commit(c) \/ Rollback(c) PROVE CallsAreCurrent'
    <2>1. \A d \in Call \ {c} : ~Open(d)
      BY <1>4 DEF OneAtATime, Open, Commit, Rollback
    <2>2. \A d \in Call : ~Open(d)'
      BY <1>0, <1>4, <2>1 DEF Open, Commit, Rollback, TypeOK
    <2>3. QED
      BY <2>2 DEF CallsAreCurrent, Open
  <1>5. CASE UNCHANGED vars
    BY <1>5 DEF vars, CallsAreCurrent, Open
  <1>6. QED
    BY <1>1, <1>2, <1>3, <1>4, <1>5 DEF Next

\* Called one at a time, resolve never decides on a stale copy.
THEOREM OneCallIsCurrent == SequentialSpec => []CallsAreCurrent
  <1>1. Init => CallsAreCurrent
    BY DEF Init, CallsAreCurrent, Open
  <1>2. IInv /\ OneAtATime /\ CallsAreCurrent /\ [Next /\ OneAtATime']_vars => CallsAreCurrent'
    BY AloneIsCurrent
  <1>3. QED
    BY <1>1, <1>2, SequentialInvariant, PTL DEF SequentialSpec

\* The mapped state of the record.
LEMMA RecordInit == Init => Record!Init
  BY DEF Init, Record!Init, Record!Outcome, NoRequest

\* Then a commit is the record's decision, on the request as it stands.
LEMMA AloneStep ==
    ASSUME IInv, CallsAreCurrent, [Next /\ OneAtATime']_vars
    PROVE  [Record!Next]_(Record!vars)
  <1> DEFINE Stage(x) == [stage |-> IF x.status = "reviewed" THEN asks[x.review].decision
                                    ELSE x.status,
                          by |-> x.review]
             outcome == [i \in Item |-> Stage(item[i])]
  <1>0. TypeOK /\ RowsTogether /\ asks' = asks
    BY DEF IInv, Next, vars, PersistRequest, Begin, Load, Commit, Rollback
  <1>1. ASSUME NEW i \in Item, PersistRequest(i) PROVE Record!Next
    <2>1. /\ item[i].status = "absent" /\ item[i].review = NoCall
          /\ item' = [item EXCEPT ![i].status = "pending"]
      BY <1>0, <1>1 DEF PersistRequest, RowsTogether
    <2>2. outcome[i] = [stage |-> "absent", by |-> NoCall]
      BY <2>1
    <2>3. outcome' = [outcome EXCEPT ![i] = [stage |-> "pending", by |-> NoCall]]
      <3>1. item'[i].status = "pending" /\ item'[i].review = NoCall
        BY <1>0, <2>1 DEF TypeOK
      <3>2. \A j \in Item \ {i} : item'[j] = item[j]
        BY <1>0, <2>1 DEF TypeOK
      <3>3. outcome' = [j \in Item |-> Stage(item'[j])]
        BY <1>0
      <3>4. Stage(item'[i]) = [stage |-> "pending", by |-> NoCall]
        BY <3>1
      <3>5. QED
        BY <3>2, <3>3, <3>4
    <2>4. Record!Enqueue(i)
      BY <1>1, <2>2, <2>3 DEF PersistRequest, Record!Enqueue, Record!Outcome
    <2>5. QED
      BY <2>4 DEF Record!Next
  <1>2. ASSUME NEW c \in Call, Commit(c) PROVE Record!Next
    <2> DEFINE i == asks[c].item
    <2>1. i \in Item /\ Resolved(c) \in Request /\ request[i] \in Request
      BY <1>0, Asked, ResolvedType DEF TypeOK
    <2>2. /\ item[i].status = "pending" /\ seen[c] = request[i]
          /\ item' = [item EXCEPT ![i] = [status |-> "reviewed", review |-> c]]
          /\ request' = [request EXCEPT ![i] = Flushed(c)]
      BY <1>2 DEF Commit, CallsAreCurrent, Open
    <2>3. Flushed(c) = Resolved(c)
      BY <2>1, <2>2 DEF Flushed, Request
    <2>4. outcome' = [outcome EXCEPT ![i] = [stage |-> asks[c].decision, by |-> c]]
      <3>1. item'[i] = [status |-> "reviewed", review |-> c]
            /\ \A j \in Item \ {i} : item'[j] = item[j]
        BY <1>0, <2>1, <2>2 DEF TypeOK
      <3>2. outcome' = [j \in Item |-> Stage(item'[j])]
        BY <1>0
      <3>3. Stage(item'[i]) = [stage |-> asks[c].decision, by |-> c]
        BY <3>1
      <3>4. QED
        BY <2>1, <3>1, <3>2, <3>3
    <2>5. outcome[i].stage = "pending"
      BY <2>1, <2>2
    <2>6. CASE asks[c].decision = "approved"
      <3>1. request' = [request EXCEPT ![i].action = "answer"]
        BY <1>0, <2>1, <2>2, <2>3, <2>6 DEF Resolved, TypeOK, Request
      <3>2. Record!Approve(i, c)
        BY <2>4, <2>6, <3>1 DEF Record!Approve, Record!Outcome
      <3>3. QED
        BY <2>1, <2>5, <3>2 DEF Record!Next, Record!Decide
    <2>7. CASE asks[c].decision = "revised"
      <3>1. Record!Rewrite(i, c)
        BY <1>0, Asked, <2>2, <2>3, <2>4, <2>7
           DEF Resolved, Record!Rewrite, Record!Outcome
      <3>2. QED
        BY <2>1, <2>5, <3>1 DEF Record!Next, Record!Decide
    <2>8. CASE asks[c].decision = "rejected"
      <3>1. Record!Reject(i, c)
        BY <1>0, Asked, <2>2, <2>3, <2>4, <2>8
           DEF Resolved, Record!Reject, Record!Outcome
      <3>2. QED
        BY <2>1, <2>5, <3>1 DEF Record!Next, Record!Decide
    <2>9. QED
      BY <1>0, Asked, <2>6, <2>7, <2>8 DEF Decisions
  <1>3. ASSUME UNCHANGED <<item, request>> PROVE UNCHANGED Record!vars
    BY <1>0, <1>3 DEF Record!vars
  <1>4. QED
    BY <1>1, <1>2, <1>3 DEF Next, Begin, Load, Rollback, vars

\* Called one at a time the queue keeps its promise, whoever calls;
\* MCReviewQueue_overwritten shows two calls at once breaking it.
THEOREM QueueImplementsRecord == SequentialSpec => ImplementsRecord
  <1>1. IInv /\ CallsAreCurrent /\ [Next /\ OneAtATime']_vars => [Record!Next]_(Record!vars)
    BY AloneStep
  <1>2. QED
    BY <1>1, OneCallIsCurrent, SequentialInvariant, RecordInit, PTL
       DEF SequentialSpec, Record!Spec, ImplementsRecord
================================================================================
