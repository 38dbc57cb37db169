-------------------------- MODULE IngestionProofs --------------------------
(* Proofs about Ingestion, for every set of requests and keys.              *)
EXTENDS Ingestion, TLAPS

(***************************************************************************)
(* Type correctness.                                                        *)
(***************************************************************************)

LEMMA TypeInit == Init => TypeOK
  BY DEF Init, TypeOK

LEMMA TypeNext == TypeOK /\ [Next]_vars => TypeOK'
<1> SUFFICES ASSUME TypeOK, [Next]_vars PROVE TypeOK'
  OBVIOUS
<1>1. ASSUME NEW r \in Request, Step(r) \/ Fail(r) PROVE TypeOK'
  <2>1. CASE Select(r)
    BY <2>1 DEF Select, Goto, TypeOK, Answered
  <2>2. CASE Insert(r)
    BY <2>2 DEF Insert, Goto, TypeOK
  <2>3. CASE Fallback(r)
    BY <2>3 DEF Fallback, Goto, TypeOK, Answered
  <2>4. CASE Commit(r)
    BY <2>4 DEF Commit, Goto, TypeOK
  <2>5. CASE Enqueue(r)
    BY <2>5 DEF Enqueue, Goto, TypeOK, Answered
  <2>6. CASE Fail(r)
    BY <2>6 DEF Fail, Goto, TypeOK, Answered
  <2> QED BY <1>1, <2>1, <2>2, <2>3, <2>4, <2>5, <2>6 DEF Step
<1>2. CASE UNCHANGED vars
  BY <1>2 DEF vars, TypeOK
<1> QED BY <1>1, <1>2 DEF Next

\* The tables, the broker and the handlers keep their types.
THEOREM TypeCorrect == Spec => []TypeOK
  BY TypeInit, TypeNext, PTL DEF Spec

(***************************************************************************)
(* One task per key. The unique index gives a key to one open transaction   *)
(* at a time and to none once it is committed; so one handler commits it,   *)
(* and that one handler owes its only task.                                 *)
(***************************************************************************)

\* The open transaction that inserted a key is the handler about to commit it.
HolderCommits ==
  \A k \in Key, r \in Request : lock[k] = r <=> pc[r] = "commit" /\ key[r] = k

HeldIsUncommitted == \A k \in Key : lock[k] # NoRequest => k \notin rows

\* The handler about to push owes the first task of a committed key, alone.
OwesFirstTask ==
  /\ \A r \in Request : pc[r] = "enqueue" => key[r] \in rows /\ tasks[key[r]] = 0
  /\ \A r, s \in Request :
       pc[r] = "enqueue" /\ pc[s] = "enqueue" /\ key[r] = key[s] => r = s

Inv ==
  /\ TypeOK
  /\ HolderCommits
  /\ HeldIsUncommitted
  /\ OwesFirstTask
  /\ AtMostOneTask
  /\ AnswersAreDurable
  /\ \A r \in Request : pc[r] = "fallback" => key[r] \in rows
  /\ FallbackFindsWinner

LEMMA InvInit == Init => Inv
  BY TypeInit, NoRequestAssumption
  DEF Init, Inv, HolderCommits, HeldIsUncommitted, OwesFirstTask, AtMostOneTask,
      AnswersAreDurable, FallbackFindsWinner

LEMMA InvNext == Inv /\ [Next]_vars => Inv'
<1> SUFFICES ASSUME Inv, [Next]_vars PROVE Inv'
  OBVIOUS
<1> USE NoRequestAssumption
        DEF HolderCommits, HeldIsUncommitted, OwesFirstTask, AtMostOneTask,
            AnswersAreDurable, FallbackFindsWinner
<1>0. TypeOK'
  BY TypeNext DEF Inv
<1>1. ASSUME NEW r \in Request, Step(r) \/ Fail(r) PROVE Inv'
  <2>1. CASE Select(r)
    BY <1>0, <2>1 DEF Select, Goto, TypeOK, Inv
  <2>2. CASE Insert(r)
    BY <1>0, <2>2 DEF Insert, Goto, TypeOK, Inv
  <2>3. CASE Fallback(r)
    BY <1>0, <2>3 DEF Fallback, Goto, TypeOK, Inv
  <2>4. CASE Commit(r)
    <3>1. key[r] \notin rows /\ tasks[key[r]] = 0
      BY <2>4 DEF Commit, TypeOK, Inv
    <3> QED BY <1>0, <2>4, <3>1 DEF Commit, Goto, TypeOK, Inv
  <2>5. CASE Enqueue(r)
    BY <1>0, <2>5 DEF Enqueue, Goto, TypeOK, Inv
  <2>6. CASE Fail(r)
    BY <1>0, <2>6 DEF Fail, Goto, TypeOK, Inv, Answered
  <2> QED BY <1>1, <2>1, <2>2, <2>3, <2>4, <2>5, <2>6 DEF Step
<1>2. CASE UNCHANGED vars
  BY <1>0, <1>2 DEF vars, Inv
<1> QED BY <1>1, <1>2 DEF Next

\* However many requests race on a key, at most one dispatcher task is pushed.
THEOREM OneTask == Spec => []AtMostOneTask
  BY InvInit, InvNext, PTL DEF Spec, Inv

\* No task and no successful answer precedes the commit of its event.
THEOREM Durable == Spec => []AnswersAreDurable
  BY InvInit, InvNext, PTL DEF Spec, Inv

\* The loser of an insert race never fails to find the winner's row.
THEOREM WinnerFound == Spec => []FallbackFindsWinner
  BY InvInit, InvNext, PTL DEF Spec, Inv

(***************************************************************************)
(* Refinement. Commit is Ingest of the abstract store, Enqueue is Enqueue,   *)
(* a failure between the two is ApiFails, and every other step stutters.     *)
(***************************************************************************)

Owing == {key[r] : r \in {s \in Request : pc[s] = "enqueue"}}

LEMMA StepRefines == Inv /\ Inv' /\ [Next]_vars => [Store!Next]_(Store!vars)
<1> SUFFICES ASSUME Inv, Inv', [Next]_vars PROVE [Store!Next]_(Store!vars)
  OBVIOUS
<1>a. key' = key
  BY DEF Next, Step, Select, Insert, Fallback, Commit, Enqueue, Fail, vars
<1>1. ASSUME NEW r \in Request, Select(r) \/ Insert(r) \/ Fallback(r)
      PROVE  UNCHANGED <<rows, Owing, tasks>>
  <2>1. UNCHANGED <<rows, tasks>>
    BY <1>1 DEF Select, Insert, Fallback
  <2>2. \A s \in Request : pc'[s] = "enqueue" <=> pc[s] = "enqueue"
    BY <1>1 DEF Select, Insert, Fallback, Goto, Inv, TypeOK
  <2> QED BY <1>a, <2>1, <2>2 DEF Owing
<1>2. ASSUME NEW r \in Request, NEW k \in Key, k = key[r], Commit(r) PROVE Store!Ingest(k)
  <2>1. k \notin rows /\ rows' = rows \cup {k} /\ tasks' = tasks
    <3>1. lock[k] = r
      BY <1>2 DEF Commit, Inv, HolderCommits
    <3>2. k \notin rows
      BY <3>1, NoRequestAssumption DEF Inv, HeldIsUncommitted
    <3> QED BY <1>2, <3>2 DEF Commit
  <2>2. \A s \in Request : pc'[s] = "enqueue" <=> pc[s] = "enqueue" \/ s = r
    BY <1>2 DEF Commit, Goto, Inv, TypeOK
  <2>3. Owing' = Owing \cup {k}
    BY <1>a, <1>2, <2>2 DEF Owing
  <2> QED BY <2>1, <2>3 DEF Store!Ingest, Owing
<1>3. ASSUME NEW r \in Request, NEW k \in Key, k = key[r], pc[r] = "enqueue",
             pc'[r] \in Answered, \A s \in Request \ {r} : pc'[s] = pc[s]
      PROVE  k \in Owing /\ Owing' = Owing \ {k}
  <2>1. \A s \in Request : pc[s] = "enqueue" /\ key[s] = k => s = r
    BY <1>3 DEF Inv, OwesFirstTask
  <2>2. \A x : x \in Owing' <=> x \in Owing \ {k}
    BY <1>a, <1>3, <2>1 DEF Owing, Answered
  <2> QED BY <1>3, <2>2 DEF Owing
<1>4. ASSUME NEW r \in Request, NEW k \in Key, k = key[r], Enqueue(r) PROVE Store!Enqueue(k)
  <2>1. pc[r] = "enqueue" /\ pc'[r] \in Answered /\ \A s \in Request \ {r} : pc'[s] = pc[s]
    BY <1>4 DEF Enqueue, Goto, Answered, Inv, TypeOK
  <2> QED BY <1>3, <1>4, <2>1 DEF Enqueue, Store!Enqueue, Owing
<1>5. ASSUME NEW r \in Request, NEW k \in Key, k = key[r], Fail(r)
      PROVE  Store!ApiFails(k) \/ UNCHANGED <<rows, Owing, tasks>>
  <2>1. pc'[r] = "failed" /\ \A s \in Request \ {r} : pc'[s] = pc[s]
    BY <1>5 DEF Fail, Goto, Inv, TypeOK
  <2>2. CASE pc[r] = "enqueue"
    BY <1>3, <1>5, <2>1, <2>2 DEF Fail, Store!ApiFails, Owing, Answered
  <2>3. CASE pc[r] # "enqueue"
    <3>1. \A s \in Request : pc'[s] = "enqueue" <=> pc[s] = "enqueue"
      BY <2>1, <2>3
    <3> QED BY <1>a, <1>5, <3>1 DEF Fail, Owing
  <2> QED BY <2>2, <2>3
<1>6. CASE UNCHANGED vars
  BY <1>6 DEF vars, Store!vars
<1>7. ASSUME UNCHANGED <<rows, Owing, tasks>> PROVE UNCHANGED Store!vars
  BY <1>7 DEF Store!vars, Owing
<1>8. ASSUME NEW r \in Request, Step(r) \/ Fail(r) PROVE [Store!Next]_(Store!vars)
  <2>1. CASE Select(r) \/ Insert(r) \/ Fallback(r)
    BY <1>1, <1>7, <2>1
  <2>2. PICK k \in Key : k = key[r]
    BY DEF Inv, TypeOK
  <2>3. CASE Commit(r)
    BY <1>2, <2>2, <2>3 DEF Store!Next
  <2>4. CASE Enqueue(r)
    BY <1>4, <2>2, <2>4 DEF Store!Next
  <2>5. CASE Fail(r)
    <3>1. Store!ApiFails(k) => Store!Next
      BY <2>2 DEF Store!Next
    <3> QED BY <1>5, <1>7, <2>2, <2>5, <3>1
  <2> QED BY <1>8, <2>1, <2>3, <2>4, <2>5 DEF Step
<1> QED BY <1>6, <1>8 DEF Next

\* Whatever the interleaving of handlers and failures, from the outside the
\* route is one atomic store that owes each event one task.
THEOREM RefinesIntake == Spec => ImplementsIntake
<1>1. Init => Store!Init
  BY DEF Init, Store!Init
<1> QED BY <1>1, InvInit, InvNext, StepRefines, PTL DEF Spec, ImplementsIntake, Store!Spec
=============================================================================
