-------------------------- MODULE DlqListingProofs --------------------------
(* Proofs about DlqListing, for every value of the constants.               *)
EXTENDS DlqListing, DeliveryProofs, FiniteSetTheorems

(***************************************************************************)
(* The listing only reads: what is proved of Delivery holds beside it.      *)
(***************************************************************************)

LEMMA ListStepReads == ListStep => UNCHANGED vars
  BY DEF ListStep, ScanBegins, ListCount, ListPage, ListTally, ListLast, NextPage, ScanEnds

LEMMA ListingStep == [ListingNext]_listVars => [Next]_vars
  BY ListStepReads DEF ListingNext, PipelineStep, listVars

\* A client that scans the dead-letter queue disturbs no delivery.
THEOREM ListingIsDelivery == ListingSpec => Spec
<1>1. Init /\ ListingInit => Init
  OBVIOUS
<1> QED BY <1>1, ListingStep, PTL DEF ListingSpec, Spec

(***************************************************************************)
(* What is on the page was dead-lettered when the page was read, and the    *)
(* row of its last retry stays, whatever is recorded or replayed before its *)
(* item is made.                                                            *)
(***************************************************************************)

HasFinalRow(e) ==
  \E a \in Attempt : a.ev = e /\ a.number = MaxRetries + 1 /\ attempts[a] > 0

ListedInv ==
  /\ \A e \in rest : HasFinalRow(e)
  /\ \A i \in items : i.last.number = MaxRetries + 1

\* Rows are never deleted.
LEMMA FinalRowKept ==
  ASSUME TypeOK, [Next]_vars, NEW e, HasFinalRow(e)
  PROVE  HasFinalRow(e)'
<1>1. \A a \in Attempt : attempts[a] > 0 => attempts'[a] > 0
  BY AttemptsStep
<1> QED BY <1>1 DEF HasFinalRow

\* No row has a higher number, so the one found last has that number too.
LEMMA LastIsFinal ==
  ASSUME NEW e, HasFinalRow(e)
  PROVE  LastRows(e) # {} /\ \A a \in LastRows(e) : a.number = MaxRetries + 1
<1>1. PICK f \in Rows(e) : f.number = MaxRetries + 1
  BY DEF HasFinalRow, Rows
<1>2. \A a \in Rows(e) : a.number \in 1 .. MaxRetries + 1
  BY DEF Rows, Attempt
<1>3. f \in LastRows(e)
  BY <1>1, <1>2, RetriesAssumption DEF LastRows
<1>4. ASSUME NEW a \in LastRows(e) PROVE a.number = MaxRetries + 1
  <2>1. a \in Rows(e) /\ a.number >= f.number
    BY <1>1 DEF LastRows
  <2> QED BY <1>1, <1>2, <2>1, RetriesAssumption
<1> QED BY <1>3, <1>4

LEMMA ListedNext ==
  TypeOK /\ StatusHasEvidence /\ ListedInv /\ [ListingNext]_listVars => ListedInv'
<1> SUFFICES ASSUME TypeOK, StatusHasEvidence, ListedInv, [ListingNext]_listVars
             PROVE  ListedInv'
  OBVIOUS
<1>1. \A e : HasFinalRow(e) => HasFinalRow(e)'
  BY ListingStep, FinalRowKept
<1>2. CASE PipelineStep
  BY <1>1, <1>2 DEF PipelineStep, request, ListedInv
<1>3. CASE ScanBegins \/ ListCount
  BY <1>1, <1>3 DEF ScanBegins, ListCount, ListedInv
<1>4. CASE ListPage
  <2>1. \A e \in Dead : HasFinalRow(e)
    BY DEF Dead, StatusHasEvidence, HasFinalRow
  <2>2. \A e \in rest' : HasFinalRow(e)
    BY <1>4, <2>1 DEF ListPage, PagesOfDead, Newest
  <2> QED BY <1>1, <1>4, <2>2 DEF ListPage, ListedInv
<1>5. ASSUME NEW e \in rest, ListTally(e) PROVE ListedInv'
  BY <1>1, <1>5 DEF ListTally, ListedInv
<1>6. ASSUME NEW e \in rest, NEW a \in LastRows(e), ListLast(e, a) PROVE ListedInv'
  <2>1. a.number = MaxRetries + 1
    BY LastIsFinal DEF ListedInv
  <2>2. items' = items \cup {[ev |-> e, total |-> tally, last |-> a]} /\ rest' \subseteq rest
    BY <1>6 DEF ListLast
  <2> QED BY <1>1, <2>1, <2>2 DEF ListedInv
<1>7. CASE NextPage \/ ScanEnds
  BY <1>1, <1>7 DEF NextPage, ScanEnds, ListedInv
<1>8. CASE UNCHANGED listVars
  BY <1>1, <1>8 DEF listVars, listing, request, ListedInv
<1> QED BY <1>2, <1>3, <1>4, <1>5, <1>6, <1>7, <1>8 DEF ListingNext, ListStep

\* Every item of the dead-letter listing shows an attempt made with the last
\* retry, and each event of a page has one, although status and rows are read
\* by different statements.
THEOREM Listed == ListingSpec => []ListedHasFinalAttempt
<1>1. Init /\ ListingInit => TypeOK /\ StatusHasEvidence /\ ListedInv
  <2>1. Init => StatusHasEvidence
    BY DEF Init, StatusHasEvidence
  <2>2. ListingInit => ListedInv
    BY DEF ListingInit, ListedInv
  <2> QED BY <2>1, <2>2, TypeInit
<1>2. ListedInv => ListedHasFinalAttempt
  BY LastIsFinal DEF ListedInv, ListedHasFinalAttempt
<1> QED BY <1>1, <1>2, ListingStep, TypeNext, EvidenceNext, ListedNext, PTL DEF ListingSpec

(***************************************************************************)
(* A scan misses only what was shifted. An event has a position in the      *)
(* queue if no other one of the queue was created at the same time, and     *)
(* then each statement puts it there. As long as no newer event entered or  *)
(* left the queue, the position stays what it was when the scan began: the  *)
(* pages read so far hold every position below their end, and each count    *)
(* since is higher than the position.                                       *)
(***************************************************************************)

Ahead(e) == {f \in Dead : Newer(f, e)}

Position(e) == Cardinality(Ahead(e))

Unshifted(e) ==
  /\ \A f \in moved : ~Newer(f, e)
  /\ \A f \in Listable : ~Twins(f, e)

PagesRead == IF reading \in {"count", "page"} THEN page - 1 ELSE page

ScanInv ==
  /\ created \in [Event -> Nat]
  /\ total \in Nat
  /\ stayed \subseteq Dead
  /\ reading = "idle" => stayed = {}
  /\ reading # "idle" => page \in Nat \ {0} /\ Dead \subseteq Listable
  /\ \A e \in stayed : Unshifted(e) =>
       /\ reading # "count" => Position(e) < total
       /\ e \notin scanned => PagesRead * PageSize <= Position(e)

LEMMA DeadCounted == IsFiniteSet(Dead) /\ Cardinality(Dead) \in Nat
<1>1. IsFiniteSet(Dead)
  BY EventAssumption, FS_Subset DEF Dead
<1> QED BY <1>1, FS_CardinalityType

\* A dead-lettered event is behind those that are newer.
LEMMA AheadCounted ==
  ASSUME ScanInv, NEW e \in Dead
  PROVE  /\ IsFiniteSet(Ahead(e)) /\ Position(e) \in Nat
         /\ IsFiniteSet(Ahead(e) \cup {e}) /\ Cardinality(Ahead(e) \cup {e}) = Position(e) + 1
<1>1. IsFiniteSet(Ahead(e))
  BY DeadCounted, FS_Subset DEF Ahead
<1>2. e \notin Ahead(e)
  BY DEF Ahead, Newer, ScanInv, Dead
<1>3. Cardinality(Ahead(e) \cup {e}) = Cardinality(Ahead(e)) + 1 /\ IsFiniteSet(Ahead(e) \cup {e})
  BY <1>1, <1>2, FS_AddElement
<1> QED BY <1>1, <1>3, FS_CardinalityType DEF Position

\* It has a position, and it is below the count.
LEMMA PositionBelowCount ==
  ASSUME ScanInv, NEW e \in Dead
  PROVE  Position(e) \in Nat /\ Position(e) < Cardinality(Dead)
<1>1. Cardinality(Ahead(e) \cup {e}) <= Cardinality(Dead)
  <2>1. Ahead(e) \cup {e} \subseteq Dead
    BY DEF Ahead
  <2> QED BY <2>1, DeadCounted, FS_Subset
<1> QED BY <1>1, AheadCounted, DeadCounted

\* Without a twin, the event is among the newest n if its position is below n,
\* and only then, in every order that the database may choose.
LEMMA NewestByPosition ==
  ASSUME ScanInv, NEW n \in Nat, NEW first \in Newest(n), NEW e \in Dead,
         \A f \in Dead : ~Twins(f, e)
  PROVE  e \in first <=> Position(e) < n
<1>1. /\ first \subseteq Dead
      /\ IF n < Cardinality(Dead) THEN Cardinality(first) = n ELSE first = Dead
      /\ \A d \in first : \A f \in Dead \ first : ~Newer(f, d)
  BY DEF Newest
<1>2. IsFiniteSet(first) /\ Position(e) \in Nat /\ Cardinality(Dead) \in Nat
  BY <1>1, DeadCounted, AheadCounted, FS_Subset
<1>3. CASE e \in first
  <2>1. Ahead(e) \cup {e} \subseteq first
    BY <1>1, <1>3 DEF Ahead
  <2>2. Position(e) + 1 <= Cardinality(first)
    BY <1>2, <2>1, AheadCounted, FS_Subset
  <2>3. Cardinality(first) <= n /\ Cardinality(first) \in Nat
    BY <1>1, <1>2
  <2> QED BY <1>2, <1>3, <2>2, <2>3
<1>4. CASE e \notin first
  <2>1. Cardinality(first) = n
    BY <1>1, <1>4
  <2>2. ASSUME NEW f \in first PROVE f \in Ahead(e)
    <3>1. f \in Dead /\ f # e /\ ~Newer(e, f)
      BY <1>1, <1>4
    <3>2. created[f] # created[e]
      BY <3>1 DEF Twins
    <3>3. created[f] \in Nat /\ created[e] \in Nat
      BY <3>1 DEF ScanInv, Dead
    <3> QED BY <3>1, <3>2, <3>3 DEF Ahead, Newer
  <2>3. first \subseteq Ahead(e)
    BY <2>2
  <2>4. Cardinality(first) <= Position(e)
    BY <2>3, AheadCounted, FS_Subset DEF Position
  <2> QED BY <1>2, <1>4, <2>1, <2>4
<1> QED BY <1>3, <1>4

\* A step of the pipeline shifts only what it puts into moved.
LEMMA PipelineKeepsScan == TypeOK /\ ScanInv /\ PipelineStep => ScanInv'
<1> SUFFICES ASSUME TypeOK, ScanInv, PipelineStep PROVE ScanInv'
  OBVIOUS
<1>1. UNCHANGED <<created, reading, page, total, scanned>>
  BY DEF PipelineStep, request
<1>2. CASE reading = "idle"
  BY <1>1, <1>2 DEF PipelineStep, Observe, ScanInv
<1>3. CASE reading # "idle"
  <2>1. /\ stayed' = {e \in stayed : status'[e] = "DEAD_LETTER"}
        /\ moved' = moved \cup {e \in Event : (e \in Dead) # (status'[e] = "DEAD_LETTER")}
    BY <1>3 DEF PipelineStep, Observe
  <2>2. stayed' \subseteq Dead' /\ stayed' \subseteq stayed
    BY <2>1 DEF Dead, ScanInv
  <2>3. Listable \subseteq Listable' /\ Dead' \subseteq Listable'
    BY <1>3, <2>1 DEF Listable, Dead, ScanInv
  <2>4. ASSUME NEW e \in stayed', Unshifted(e)' PROVE Unshifted(e) /\ Position(e)' = Position(e)
    <3>1. Unshifted(e)
      BY <1>1, <2>1, <2>3, <2>4 DEF Unshifted, Newer, Twins
    <3>2. \A f \in Event : Newer(f, e) => (f \in Dead <=> f \in Dead')
      BY <1>1, <2>1, <2>4 DEF Unshifted, Newer, Dead
    <3>3. Ahead(e)' = Ahead(e)
      BY <1>1, <3>2 DEF Ahead, Newer, Dead
    <3> QED BY <3>1, <3>3 DEF Position
  <2> QED BY <1>1, <1>3, <2>2, <2>3, <2>4 DEF ScanInv, PagesRead
<1> QED BY <1>2, <1>3

LEMMA ScanNext == TypeOK /\ ScanInv /\ [ListingNext]_listVars => ScanInv'
<1> SUFFICES ASSUME TypeOK, ScanInv, [ListingNext]_listVars PROVE ScanInv'
  OBVIOUS
<1>1. CASE PipelineStep
  BY <1>1, PipelineKeepsScan
<1>2. ASSUME ListStep PROVE ScanInv'
  <2>0. UNCHANGED <<created, status>> /\ Dead' = Dead /\ \A e : Position(e)' = Position(e)
    BY <1>2 DEF ListStep, ScanBegins, ListCount, ListPage, ListTally, ListLast, NextPage, ScanEnds,
                vars, db, Dead, Position, Ahead, Newer
  <2>1. CASE ScanBegins
    <3>1. \A e \in Dead : Position(e) < Cardinality(Dead) /\ Position(e) \in Nat
      BY PositionBelowCount
    <3>2. /\ reading' = "page" /\ page' = 1 /\ total' = Cardinality(Dead) /\ stayed' = Dead
      BY <2>1 DEF ScanBegins
    <3>3. PagesRead' * PageSize = 0
      BY <3>2, PageAssumption DEF PagesRead
    <3> QED BY <2>0, <3>1, <3>2, <3>3, DeadCounted DEF ScanInv, Listable
  <2>2. CASE ListCount
    <3>1. \A e \in stayed : Position(e) < Cardinality(Dead)
      BY PositionBelowCount DEF ScanInv
    <3> QED BY <2>0, <2>2, <3>1, DeadCounted DEF ListCount, scanning, ScanInv, Unshifted, Newer, Twins, Listable, PagesRead
  <2>3. CASE ListPage
    <3>1. /\ reading = "page" /\ reading' \in {"sent", "tally"}
          /\ UNCHANGED <<page, total, stayed, moved>> /\ scanned' = scanned \cup rest'
          /\ rest' \in PagesOfDead
      BY <2>3 DEF ListPage
    <3>2. page \in Nat \ {0} /\ Dead \subseteq Listable
      BY <3>1 DEF ScanInv
    <3>3. ASSUME NEW e \in stayed, Unshifted(e), e \notin scanned'
          PROVE  page * PageSize <= Position(e)
      <4>1. (page - 1) * PageSize <= Position(e)
        BY <3>1, <3>3 DEF ScanInv, PagesRead
      <4>2. PICK skipped \in Newest(Offset), upTo \in Newest(Offset + PageSize) : rest' = upTo \ skipped
        BY <3>1 DEF PagesOfDead
      <4>3. Offset \in Nat /\ Offset + PageSize = page * PageSize /\ page * PageSize \in Nat
        BY <3>2, PageAssumption DEF Offset
      <4>4. e \in Dead /\ \A f \in Dead : ~Twins(f, e)
        BY <3>2, <3>3 DEF ScanInv, Unshifted
      <4>5. Position(e) \in Nat
        BY <4>4, PositionBelowCount
      <4>6. e \notin skipped
        BY <4>1, <4>3, <4>4, <4>5, NewestByPosition DEF Offset
      <4>7. e \notin upTo
        BY <3>1, <3>3, <4>2, <4>6
      <4>8. ~(Position(e) < page * PageSize)
        BY <4>3, <4>4, <4>7, NewestByPosition
      <4> QED BY <4>3, <4>5, <4>8
    <3> QED BY <2>0, <3>1, <3>3 DEF ScanInv, Unshifted, Newer, Twins, Listable, PagesRead
  <2>4. ASSUME NEW e \in rest, ListTally(e) PROVE ScanInv'
    BY <2>0, <2>4 DEF ListTally, scanning, ScanInv, Unshifted, Newer, Twins, Listable, PagesRead
  <2>5. ASSUME NEW e \in rest, NEW a \in LastRows(e), ListLast(e, a) PROVE ScanInv'
    BY <2>0, <2>5 DEF ListLast, scanning, ScanInv, Unshifted, Newer, Twins, Listable, PagesRead
  <2>6. CASE NextPage
    <3>1. page \in Nat \ {0} /\ page' \in Nat \ {0} /\ PagesRead' = PagesRead
      BY <2>6 DEF NextPage, ScanInv, PagesRead
    <3> QED BY <2>0, <2>6, <3>1 DEF NextPage, scanning, ScanInv, Unshifted, Newer, Twins, Listable
  <2>7. CASE ScanEnds
    BY <2>0, <2>7 DEF ScanEnds, ScanInv
  <2> QED BY <1>2, <2>1, <2>2, <2>3, <2>4, <2>5, <2>6, <2>7 DEF ListStep
<1>3. CASE UNCHANGED listVars
  BY <1>3 DEF listVars, listing, request, scanning, vars, db, ScanInv, Unshifted, Newer, Twins, Listable, PagesRead,
              Position, Ahead, Dead
<1> QED BY <1>1, <1>2, <1>3 DEF ListingNext

\* An event that is dead-lettered from the first count of a scan to its last
\* page is on one of the pages, unless a newer event entered or left the queue
\* meanwhile, or another one of the queue was created at the same time: the
\* offsets of the pages lose nothing by themselves.
THEOREM Scanned == ListingSpec => []ScanMissesOnlyShifted
<1>1. Init /\ ListingInit => TypeOK /\ ScanInv
  <2> SUFFICES ASSUME Init, ListingInit PROVE TypeOK /\ ScanInv
    OBVIOUS
  <2>1. Cardinality(Event) \in Nat
    BY EventAssumption, FS_CardinalityType
  <2>2. created \in [Event -> Nat]
    BY <2>1 DEF ListingInit
  <2> QED BY <2>2, TypeInit DEF ListingInit, ScanInv
<1>2. ScanInv => ScanMissesOnlyShifted
  <2> SUFFICES ASSUME ScanInv, reading = "sent", ~MorePages, NEW e \in stayed \ scanned, Unshifted(e)
               PROVE  FALSE
    BY DEF ScanMissesOnlyShifted, Unshifted
  <2>1. Position(e) < total /\ page * PageSize <= Position(e)
    BY DEF ScanInv, PagesRead
  <2>2. Position(e) \in Nat /\ total \in Nat /\ page * PageSize \in Nat
    BY PositionBelowCount, PageAssumption DEF ScanInv
  <2> QED BY <2>1, <2>2 DEF MorePages
<1> QED BY <1>1, <1>2, ListingStep, TypeNext, ScanNext, PTL DEF ListingSpec

(***************************************************************************)
(* The answer is well formed: in particular the count of the rows of an     *)
(* event is a number, since each record adds one row to finitely many.      *)
(***************************************************************************)

\* The rows of an event, each once for each time it was written.
Written(e) == UNION {{a} \X (1 .. attempts[a]) : a \in Rows(e)}

ListingTypeInv ==
  /\ ListingTypeOK
  /\ \A e \in Event : IsFiniteSet(Written(e))

LEMMA WrittenType == ASSUME NEW e, IsFiniteSet(Written(e)) PROVE NumberOfRows(e) \in Nat
  BY FS_CardinalityType DEF NumberOfRows, Written

LEMMA WrittenNext ==
  ASSUME TypeOK, [Next]_vars, NEW e \in Event, IsFiniteSet(Written(e))
  PROVE  IsFiniteSet(Written(e)')
<1>1. CASE UNCHANGED attempts
  BY <1>1 DEF Written, Rows
<1>2. ASSUME NEW w \in Worker, Record(w) PROVE IsFiniteSet(Written(e)')
  <2> DEFINE r == Row(w)  y == <<r, attempts[r] + 1>>
  <2>1. r \in Attempt
    BY <1>2, RowType DEF Record, TypeOK
  <2>2. attempts' = [attempts EXCEPT ![r] = @ + 1] /\ attempts \in [Attempt -> Nat]
    BY <1>2 DEF Record, TypeOK
  <2> HIDE DEF r
  <2>3. Written(e)' \subseteq Written(e) \cup {y}
    <3> SUFFICES ASSUME NEW x \in Written(e)', x # y PROVE x \in Written(e)
      OBVIOUS
    <3>1. PICK a \in Attempt : a.ev = e /\ attempts'[a] > 0 /\ x \in {a} \X (1 .. attempts'[a])
      BY DEF Written, Rows
    <3>2. PICK n \in 1 .. attempts'[a] : x = <<a, n>>
      BY <3>1
    <3>3. attempts[a] \in Nat /\ attempts'[a] \in Nat /\ n \in Nat /\ n >= 1 /\ n <= attempts'[a]
      BY <2>1, <2>2, <3>1, <3>2
    <3>4. n <= attempts[a]
      <4>1. CASE a = r
        <5>1. attempts'[a] = attempts[a] + 1
          BY <2>1, <2>2, <4>1
        <5>2. n # attempts[a] + 1
          BY <3>2, <4>1
        <5> QED BY <3>3, <5>1, <5>2
      <4>2. CASE a # r
        <5>1. attempts'[a] = attempts[a]
          BY <2>2, <3>1, <4>2
        <5> QED BY <3>3, <5>1
      <4> QED BY <4>1, <4>2
    <3>5. n \in 1 .. attempts[a] /\ a \in Rows(e)
      BY <3>1, <3>3, <3>4 DEF Rows
    <3>6. x \in {a} \X (1 .. attempts[a])
      BY <3>2, <3>5
    <3> QED BY <3>5, <3>6 DEF Written
  <2>4. IsFiniteSet(Written(e) \cup {y})
    BY FS_AddElement
  <2> QED BY <2>3, <2>4, FS_Subset
<1> QED BY <1>1, <1>2, AttemptsStep

LEMMA ListingTypeNext ==
  ASSUME TypeOK, ListingTypeInv, [ListingNext]_listVars
  PROVE  ListingTypeInv'
<1>1. \A e \in Event : IsFiniteSet(Written(e)')
  BY ListingStep, WrittenNext DEF ListingTypeInv
<1>2. ListingTypeOK
  BY DEF ListingTypeInv
<1>3. Dead \in SUBSET Event /\ Cardinality(Dead) \in Nat
  BY DeadCounted DEF Dead
<1>4. CASE PipelineStep
  <2>1. UNCHANGED <<created, reading, page, total, rest, event, tally, items, scanned>>
    BY <1>4 DEF PipelineStep, request
  <2>2. latest' \in [Event -> SUBSET Attempt]
    <3>1. \A e \in Event : {a \in Attempt : a.ev = e /\ attempts'[a] > attempts[a]} \in SUBSET Attempt
      OBVIOUS
    <3> QED BY <1>2, <1>4, <3>1 DEF PipelineStep, Observe, ListingTypeOK
  <2>3. stayed' \in SUBSET Event /\ moved' \in SUBSET Event
    BY <1>2, <1>4 DEF PipelineStep, Observe, ListingTypeOK
  <2> QED BY <1>1, <1>2, <2>1, <2>2, <2>3 DEF ListingTypeOK, ListingTypeInv
<1>5. CASE ScanBegins
  BY <1>1, <1>2, <1>3, <1>5 DEF ScanBegins, ListingTypeOK, ListingTypeInv
<1>6. CASE ListCount
  BY <1>1, <1>2, <1>3, <1>6 DEF ListCount, scanning, ListingTypeOK, ListingTypeInv
<1>7. CASE ListPage
  <2>1. \A p \in PagesOfDead : p \in SUBSET Event
    BY <1>3 DEF PagesOfDead, Newest
  <2> QED BY <1>1, <1>2, <1>7, <2>1 DEF ListPage, ListingTypeOK, ListingTypeInv
<1>8. ASSUME NEW e \in rest, ListTally(e) PROVE ListingTypeInv'
  <2>1. NumberOfRows(e) \in Nat
    BY <1>2, WrittenType DEF ListingTypeOK, ListingTypeInv
  <2> QED BY <1>1, <1>2, <1>8, <2>1 DEF ListTally, scanning, ListingTypeOK, ListingTypeInv
<1>9. ASSUME NEW e \in rest, NEW a \in LastRows(e), ListLast(e, a) PROVE ListingTypeInv'
  <2>1. a \in Attempt /\ e \in Event /\ tally \in Nat
    BY <1>2 DEF LastRows, Rows, ListingTypeOK
  <2>2. [ev |-> e, total |-> tally, last |-> a] \in Item
    BY <2>1 DEF Item
  <2> QED BY <1>1, <1>2, <1>9, <2>2 DEF ListLast, scanning, ListingTypeOK, ListingTypeInv
<1>10. CASE NextPage
  BY <1>1, <1>2, <1>10 DEF NextPage, scanning, ListingTypeOK, ListingTypeInv
<1>11. CASE ScanEnds
  BY <1>1, <1>2, <1>11 DEF ScanEnds, ListingTypeOK, ListingTypeInv
<1>12. CASE UNCHANGED listVars
  BY <1>1, <1>2, <1>12 DEF listVars, listing, request, scanning, ListingTypeOK, ListingTypeInv
<1> QED BY <1>4, <1>5, <1>6, <1>7, <1>8, <1>9, <1>10, <1>11, <1>12 DEF ListingNext, ListStep

LEMMA ListingTypeInit == Init /\ ListingInit => ListingTypeInv
<1> SUFFICES ASSUME Init, ListingInit PROVE ListingTypeInv
  OBVIOUS
<1>1. Cardinality(Event) \in Nat
  BY EventAssumption, FS_CardinalityType
<1>2. created \in [Event -> Nat]
  BY <1>1 DEF ListingInit
<1>3. \A e \in Event : Rows(e) = {}
  BY DEF Init, Rows
<1>4. \A e \in Event : Written(e) = {}
  BY <1>3 DEF Written
<1>5. \A e \in Event : IsFiniteSet(Written(e))
  BY <1>4, FS_EmptySet
<1>6. ListingTypeOK
  BY <1>2 DEF ListingInit, ListingTypeOK
<1> QED BY <1>5, <1>6 DEF ListingTypeInv

\* The request and its answer have the types of the listing: every count is a
\* number, however often the rows of an event are written.
THEOREM ListingTypes == ListingSpec => []ListingTypeOK
<1>1. ListingTypeInv => ListingTypeOK
  BY DEF ListingTypeInv
<1> QED BY <1>1, ListingTypeInit, TypeInit, ListingStep, TypeNext, ListingTypeNext, PTL DEF ListingSpec

(***************************************************************************)
(* What the item of an event shows. As long as one chain of retries ran for *)
(* the event, its rows number the attempts of that chain (RowsInv): the row *)
(* recorded last is the one with the highest number, and the number of the  *)
(* rows is that of the attempts. What the two statements read was true when *)
(* they were read, and stays so as long as the event has one chain.         *)
(***************************************************************************)

Undeferred(e) == \A t \in deferred : t.ev # e

TellsInv ==
  /\ \A e \in Event : OneChain(e) => latest[e] = LastRows(e)
  /\ reading = "last" =>
       \A e \in event : OneChain(e) /\ Undeferred(e) => tally = MaxRetries + 1

\* A chain that was disturbed stays disturbed.
LEMMA OneChainBefore ==
  ASSUME TypeOK, [Next]_vars, NEW e \in Event, OneChain(e)'
  PROVE  OneChain(e)
<1>1. Undisturbed(e)' => Undisturbed(e)
  BY CountsGrow
<1>2. Rows(e) \subseteq Rows(e)'
  <2>1. \A a \in Attempt : attempts[a] > 0 => attempts'[a] > 0
    BY AttemptsStep
  <2> QED BY <2>1 DEF Rows
<1> QED BY <1>1, <1>2 DEF OneChain, Undisturbed

\* Of one chain there is at most one row for each number.
LEMMA RowsOfOneChain ==
  ASSUME RowsInv, NEW e \in Event, OneChain(e), NEW a \in Rows(e)
  PROVE  /\ a \in Attempt /\ a.ev = e /\ a.ep \in Endpoint /\ attempts[a] > 0 /\ attempts[a] <= 1
         /\ RowsOf(e, a.ep)
         /\ \A b \in Rows(e) : b.ep = a.ep /\ (b.number = a.number => b = a)
<1>1. a \in Attempt /\ a.ev = e /\ a.ep \in Endpoint /\ attempts[a] > 0
  BY DEF Rows, Attempt
<1>2. RowsOf(e, a.ep)
  BY <1>1 DEF RowsInv, OneChain, Undisturbed
<1>3. \A b \in Rows(e) : b.ep = a.ep
  BY DEF OneChain
<1>4. \A b \in Rows(e) : b.number = a.number => b = a
  BY <1>1, <1>2, <1>3 DEF RowsOf, Rows
<1>5. attempts[a] <= 1
  BY <1>1, <1>2 DEF RowsOf
<1> QED BY <1>1, <1>2, <1>3, <1>4, <1>5

\* The row that is recorded is the last one of its chain.
LEMMA RecordedIsLast ==
  ASSUME TypeOK, RowsInv, NEW w \in Worker, Record(w), NEW e \in Event, task[w].ev = e,
         OneChain(e), OneChain(e)'
  PROVE  LastRows(e)' = {Row(w)}
<1> DEFINE r == Row(w)
<1>1. pc[w] = "write" /\ task[w] \in DeliverTask
  BY DEF Record, TypeOK
<1>2. task[w].ep \in Endpoint /\ task[w].retries \in Nat
  BY <1>1, TaskFields, RetriesAssumption
<1>3. r \in Attempt
  BY <1>1, RowType
<1>4. r.ev = e /\ r.ep = task[w].ep /\ r.number = task[w].retries + 1
  BY DEF Row
<1>5. /\ attempts' = [attempts EXCEPT ![r] = @ + 1] /\ attempts \in [Attempt -> Nat]
  BY DEF Record, TypeOK
<1> HIDE DEF r
<1>6. r \in Rows(e)'
  <2>1. attempts'[r] = attempts[r] + 1 /\ attempts[r] \in Nat
    BY <1>3, <1>5
  <2> QED BY <1>3, <1>4, <2>1 DEF Rows
<1>7. ASSUME NEW b \in Rows(e)', b # r PROVE b.number \in Nat /\ b.number < r.number
  <2>1. b \in Attempt /\ b.ev = e /\ attempts[b] > 0
    BY <1>5, <1>7 DEF Rows
  <2>2. b.ep = task[w].ep
    BY <1>4, <1>6, <1>7 DEF OneChain
  <2>3. Serves(w, e, task[w].ep) /\ Before(w) = task[w].retries
    BY <1>1 DEF Serves, Working, Before
  <2>4. RowsOf(e, task[w].ep)
    BY <1>2 DEF RowsInv, OneChain, Undisturbed
  <2>5. b.number <= task[w].retries
    BY <2>1, <2>2, <2>3, <2>4 DEF RowsOf, UpTo
  <2>6. b.number \in Nat
    BY <2>1, RetriesAssumption DEF Attempt
  <2> QED BY <1>2, <1>4, <2>5, <2>6
<1>8. r.number \in Nat
  BY <1>2, <1>4
<1>9. r \in LastRows(e)'
  <2>1. \A b \in Rows(e)' : b.number <= r.number
    BY <1>7, <1>8
  <2> QED BY <1>6, <2>1 DEF LastRows
<1>10. ASSUME NEW b \in LastRows(e)' PROVE b = r
  <2>1. b \in Rows(e)' /\ r.number <= b.number
    BY <1>6, <1>10 DEF LastRows
  <2> QED BY <1>7, <1>8, <2>1
<1> QED BY <1>9, <1>10 DEF r

LEMMA LatestNext ==
  ASSUME TypeOK, RowsInv, TellsInv, PipelineStep, NEW e \in Event, OneChain(e)'
  PROVE  latest'[e] = LastRows(e)'
<1> DEFINE new == {a \in Attempt : a.ev = e /\ attempts'[a] > attempts[a]}
<1>1. latest'[e] = IF new = {} THEN latest[e] ELSE new
  BY DEF PipelineStep, Observe
<1>2. [Next]_vars /\ OneChain(e)
  BY OneChainBefore DEF PipelineStep
<1>3. latest[e] = LastRows(e)
  BY <1>2 DEF TellsInv
<1>4. attempts \in [Attempt -> Nat]
  BY DEF TypeOK
<1>5. ASSUME \A a \in Attempt : a.ev = e => attempts'[a] = attempts[a]
      PROVE  latest'[e] = LastRows(e)'
  <2>1. new = {}
    BY <1>4, <1>5
  <2>2. Rows(e)' = Rows(e)
    BY <1>5 DEF Rows
  <2>3. LastRows(e)' = LastRows(e)
    BY <2>2 DEF LastRows
  <2> QED BY <1>1, <1>3, <2>1, <2>3
<1>6. CASE UNCHANGED attempts
  BY <1>5, <1>6
<1>7. ASSUME NEW w \in Worker, Record(w) PROVE latest'[e] = LastRows(e)'
  <2> DEFINE r == Row(w)
  <2>1. r \in Attempt /\ r.ev = task[w].ev
    BY <1>7, RowType DEF Record, TypeOK, Row
  <2>2. attempts' = [attempts EXCEPT ![r] = @ + 1]
    BY <1>7 DEF Record
  <2>3. CASE task[w].ev = e
    <3>1. LastRows(e)' = {r}
      BY <1>2, <1>7, <2>3, RecordedIsLast
    <3> HIDE DEF r
    <3>2. new = {r}
      BY <1>4, <2>1, <2>2, <2>3
    <3> QED BY <1>1, <3>1, <3>2
  <2>4. CASE task[w].ev # e
    <3> HIDE DEF r
    <3>1. \A a \in Attempt : a.ev = e => attempts'[a] = attempts[a]
      BY <1>4, <2>1, <2>2, <2>4
    <3> QED BY <1>5, <3>1
  <2> QED BY <2>3, <2>4
<1> QED BY <1>2, <1>6, <1>7, AttemptsStep

\* The rows of an exhausted chain that was never deferred: one for each
\* attempt of the budget.
LEMMA WholeBudget ==
  ASSUME TypeOK, RowsInv, NoGapInAttempts, NEW e \in Event, OneChain(e), Undeferred(e), HasFinalRow(e),
         IsFiniteSet(Written(e))
  PROVE  NumberOfRows(e) = MaxRetries + 1
<1> DEFINE N == 1 .. MaxRetries + 1
           f == [x \in Written(e) |-> x[1].number]
<1>1. PICK z \in Attempt : z.ev = e /\ z.number = MaxRetries + 1 /\ attempts[z] > 0
  BY DEF HasFinalRow
<1>2. z \in Rows(e)
  BY <1>1 DEF Rows
<1>3. attempts \in [Attempt -> Nat]
  BY DEF TypeOK
<1>4. \A a \in Rows(e) : a \in Attempt /\ a.number \in N /\ 1 .. attempts[a] = {1}
  <2> SUFFICES ASSUME NEW a \in Rows(e) PROVE a \in Attempt /\ a.number \in N /\ 1 .. attempts[a] = {1}
    OBVIOUS
  <2>1. a \in Attempt /\ attempts[a] > 0 /\ attempts[a] <= 1
    BY RowsOfOneChain
  <2>2. attempts[a] = 1
    BY <1>3, <2>1
  <2>3. a.number \in N
    BY <2>1 DEF Attempt
  <2> QED BY <2>1, <2>2, <2>3
<1>5. Written(e) = {<<a, 1>> : a \in Rows(e)}
  BY <1>4 DEF Written
<1>6. \A a, b \in Rows(e) : b.number = a.number => b = a
  BY RowsOfOneChain
<1>7. \A n \in N : \E a \in Rows(e) : a.number = n
  <2> SUFFICES ASSUME NEW n \in N PROVE \E a \in Rows(e) : a.number = n
    OBVIOUS
  <2>1. CASE n = MaxRetries + 1
    BY <1>1, <1>2, <2>1
  <2>2. CASE n # MaxRetries + 1
    <3>1. n \in 1 .. z.number - 1
      BY <1>1, <2>2, RetriesAssumption
    <3>2. Tried(z.ev, z.ep, n)
      BY <1>1, <3>1 DEF NoGapInAttempts
    <3> QED BY <1>1, <3>2 DEF Tried, Undeferred, Rows
  <2> QED BY <2>1, <2>2
<1> HIDE DEF N
<1>8. f \in Bijection(Written(e), N)
  <2>1. f \in [Written(e) -> N]
    BY <1>4, <1>5
  <2>2. \A x, y \in Written(e) : f[x] = f[y] => x = y
    BY <1>5, <1>6
  <2>3. \A n \in N : \E x \in Written(e) : f[x] = n
    <3> SUFFICES ASSUME NEW n \in N PROVE \E x \in Written(e) : f[x] = n
      OBVIOUS
    <3>1. PICK a \in Rows(e) : a.number = n
      BY <1>7
    <3>2. <<a, 1>> \in Written(e) /\ f[<<a, 1>>] = n
      BY <1>5, <3>1
    <3> QED BY <3>2
  <2> HIDE DEF f
  <2> QED BY <2>1, <2>2, <2>3 DEF Bijection, Injection, Surjection, IsInjective
<1> HIDE DEF f
<1>9. IsFiniteSet(N) /\ Cardinality(N) = MaxRetries + 1
  <2>1. 1 \in Int /\ MaxRetries + 1 \in Int /\ ~(1 > MaxRetries + 1) /\ MaxRetries + 1 - 1 + 1 = MaxRetries + 1
    BY RetriesAssumption
  <2> QED BY <2>1, FS_Interval DEF N
<1>10. Cardinality(N) = Cardinality(Written(e))
  <2>1. ExistsBijection(Written(e), N)
    BY <1>8 DEF ExistsBijection
  <2> QED BY <2>1, FS_Bijection
<1> QED BY <1>9, <1>10 DEF NumberOfRows, Written

LEMMA TellsNext ==
  ASSUME TypeOK, RowsInv, NoGapInAttempts, ListingTypeInv, ListedInv, TellsInv,
         [ListingNext]_listVars
  PROVE  TellsInv'
<1>1. CASE PipelineStep
  <2>1. UNCHANGED <<reading, event, tally>> /\ [Next]_vars
    BY <1>1 DEF PipelineStep, request
  <2>2. \A e \in Event : OneChain(e)' => latest'[e] = LastRows(e)'
    BY <1>1, LatestNext
  <2>3. ASSUME reading' = "last", NEW e \in event', OneChain(e)', Undeferred(e)'
        PROVE  tally' = MaxRetries + 1
    <3>1. e \in Event /\ e \in event /\ reading = "last"
      BY <2>1, <2>3 DEF ListingTypeInv, ListingTypeOK
    <3>2. OneChain(e)
      BY <2>1, <2>3, <3>1, OneChainBefore
    <3>3. Undeferred(e)
      <4>1. deferred \subseteq deferred'
        BY <2>1, DeferredKept
      <4> QED BY <2>3, <4>1 DEF Undeferred
    <3> QED BY <2>1, <3>1, <3>2, <3>3 DEF TellsInv
  <2> QED BY <2>2, <2>3 DEF TellsInv
<1>2. ASSUME ListStep PROVE TellsInv'
  <2>1. UNCHANGED vars /\ latest' = latest
    BY <1>2, ListStepReads DEF ListStep, ScanBegins, ListCount, ListPage, ListTally, ListLast, NextPage, ScanEnds
  <2>2. \A e : /\ OneChain(e)' <=> OneChain(e)
               /\ Undeferred(e)' <=> Undeferred(e)
               /\ LastRows(e)' = LastRows(e) /\ NumberOfRows(e)' = NumberOfRows(e)
    BY <2>1 DEF vars, db, history, bounds, OneChain, Undeferred, LastRows, NumberOfRows, Rows
  <2>3. \A e \in Event : OneChain(e)' => latest'[e] = LastRows(e)'
    BY <2>1, <2>2 DEF TellsInv
  <2>4. ASSUME NEW x \in rest, ListTally(x), NEW e \in event', OneChain(e)', Undeferred(e)'
        PROVE  tally' = MaxRetries + 1
    <3>1. e = x /\ e \in rest /\ tally' = NumberOfRows(e)
      BY <2>4 DEF ListTally
    <3>2. OneChain(e) /\ Undeferred(e) /\ HasFinalRow(e) /\ e \in Event /\ IsFiniteSet(Written(e))
      BY <2>2, <2>4, <3>1 DEF ListedInv, ListingTypeInv, ListingTypeOK
    <3> QED BY <3>1, <3>2, WholeBudget
  <2>5. ASSUME reading' = "last" PROVE \E x \in rest : ListTally(x)
    BY <1>2, <2>5 DEF ListStep, ScanBegins, ListCount, ListPage, ListLast, NextPage, ScanEnds
  <2> QED BY <2>3, <2>4, <2>5 DEF TellsInv
<1>3. CASE UNCHANGED listVars
  BY <1>3 DEF listVars, listing, request, vars, db, history, bounds, TellsInv, OneChain, Undeferred,
              LastRows, Rows
<1> QED BY <1>1, <1>2, <1>3 DEF ListingNext

LEMMA TellsInit == Init /\ ListingInit => TellsInv
<1> SUFFICES ASSUME Init, ListingInit PROVE TellsInv
  OBVIOUS
<1>1. \A e \in Event : latest[e] = {} /\ Rows(e) = {}
  BY DEF Init, ListingInit, Rows
<1>2. \A e \in Event : LastRows(e) = {}
  BY <1>1 DEF LastRows
<1> QED BY <1>1, <1>2 DEF ListingInit, TellsInv

\* The item of an event for which one chain of retries ran shows the row that
\* was recorded last, and counts the whole budget of attempts unless the rate
\* limiter took some, although rows, replays and other events' chains may be
\* committed between the statements of the request.
THEOREM ItemTells == ListingSpec => ItemTellsTheChain
<1> DEFINE Inv == /\ TypeOK /\ ChainInv /\ SpentInv
                  /\ ListingTypeInv /\ StatusHasEvidence /\ ListedInv /\ TellsInv
           Tells == \A i \in items' \ items : OneChain(i.ev) =>
                      /\ {i.last} = latest[i.ev]
                      /\ (\A t \in deferred : t.ev # i.ev) => i.total = MaxRetries + 1
<1>1. Init /\ ListingInit => Inv
  <2>1. Init => SpentInv /\ StatusHasEvidence
    BY SpentInit DEF Init, StatusHasEvidence
  <2>2. ListingInit => ListedInv
    BY DEF ListingInit, ListedInv
  <2> QED BY <2>1, <2>2, TypeInit, ChainInit, ListingTypeInit, TellsInit
<1>2. Inv /\ [ListingNext]_listVars => Inv'
  <2> SUFFICES ASSUME Inv, [ListingNext]_listVars PROVE Inv'
    OBVIOUS
  <2>1. [Next]_vars
    BY ListingStep
  <2>2. TypeOK' /\ ChainInv' /\ SpentInv'
    BY <2>1, TypeNext, ChainNext, SpentNext
  <2>3. ListingTypeInv' /\ StatusHasEvidence' /\ ListedInv'
    BY <2>1, ListingTypeNext, EvidenceNext, ListedNext
  <2>4. TellsInv'
    BY TellsNext DEF ChainInv, SpentInv
  <2> QED BY <2>2, <2>3, <2>4
<1>3. Inv /\ [ListingNext]_listVars => Tells
  <2> SUFFICES ASSUME Inv, [ListingNext]_listVars, NEW i \in items' \ items, OneChain(i.ev)
               PROVE  /\ {i.last} = latest[i.ev]
                      /\ (\A t \in deferred : t.ev # i.ev) => i.total = MaxRetries + 1
    OBVIOUS
  <2>1. PICK e \in rest : \E a \in LastRows(e) : ListLast(e, a)
    BY DEF ListingNext, PipelineStep, request, ListStep, ScanBegins, ListCount, ListPage, ListTally,
           NextPage, ScanEnds, listVars, listing
  <2>2. PICK a \in LastRows(e) : ListLast(e, a)
    BY <2>1
  <2>3. i = [ev |-> e, total |-> tally, last |-> a] /\ reading = "last" /\ e \in event
    BY <2>2 DEF ListLast
  <2>4. e \in Event /\ OneChain(e)
    BY <2>3 DEF ListingTypeInv, ListingTypeOK
  <2>5. latest[e] = LastRows(e)
    BY <2>4 DEF TellsInv
  <2>6. ASSUME NEW b \in LastRows(e) PROVE b = a
    <3>1. a \in Rows(e) /\ b \in Rows(e) /\ a.number <= b.number /\ b.number <= a.number
      BY DEF LastRows
    <3>2. a.number \in Nat /\ b.number \in Nat
      BY <3>1, RetriesAssumption DEF Rows, Attempt
    <3>3. b.number = a.number
      BY <3>1, <3>2
    <3> QED BY <2>4, <3>1, <3>3, RowsOfOneChain DEF ChainInv
  <2>7. {i.last} = latest[i.ev]
    BY <2>2, <2>3, <2>5, <2>6
  <2>8. ASSUME \A t \in deferred : t.ev # i.ev PROVE i.total = MaxRetries + 1
    BY <2>3, <2>4, <2>8 DEF TellsInv, Undeferred
  <2> QED BY <2>7, <2>8
<1> HIDE DEF Inv
<1>4. ListingSpec => [][Tells]_listVars
  BY <1>1, <1>2, <1>3, PTL DEF ListingSpec
<1> QED BY <1>4 DEF ItemTellsTheChain
=============================================================================
