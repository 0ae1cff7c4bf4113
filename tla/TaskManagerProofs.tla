-------------------------- MODULE TaskManagerProofs --------------------------
(***************************************************************************)
(* The task manager, for every order, every table, every retry budget,     *)
(* every push cap and every number of rounds: its types, the order book    *)
(* (what is skipped and what a verification round still asks for), and     *)
(* what a cycle delivers.  It delivers never more than was ordered, and all*)
(* of it when a verified cycle reports success (both when a detection sees *)
(* every nut, Blind = 0), and it deducts that from stock when no write to  *)
(* the database is lost.                                                   *)
(***************************************************************************)
EXTENDS TaskManagerRefinement, TaskManagerTrail, FiniteSetTheorems, TLAPS

-----------------------------------------------------------------------------
(* The operations of the order book, and the arithmetic of a round.        *)

(* A new book is a book.                                                   *)
LEMMA NewBookType ==
  ASSUME NEW counts \in [Classes -> Int]
  PROVE  NewBook(counts) \in Book
BY DEF NewBook, Book

LEMMA EmptyBookType == EmptyBook \in Book
BY NewBookType DEF EmptyBook

(* The operations lead from books to books.                                *)
LEMMA ConsumeType ==
  ASSUME NEW b \in Book, NEW c \in Classes
  PROVE  ConsumeOne(b, c) \in Book
<1> DEFINE n == IF b.counts[c] > 0 THEN b.counts[c] - 1 ELSE b.counts[c]
           d == [ b EXCEPT !.counts[c] = n, !.detectMisses[c] = 0,
                           !.graspFailures[c] = 0 ]
<1>1. n \in Int
  BY DEF Book
<1> HIDE DEF n
<1>2. d \in Book
  BY <1>1 DEF Book
<1> QED BY <1>2 DEF ConsumeOne, n

LEMMA DetectMissType ==
  ASSUME NEW b \in Book, NEW c \in Classes
  PROVE  AfterDetectMiss(b, c) \in Book
<1>1. RecordDetectMiss(b, c) \in Book
  BY DEF RecordDetectMiss, Book
<1>2. ASSUME NEW d \in Book PROVE MarkSkipped(d, c) \in Book
  BY <1>2 DEF MarkSkipped, Book
<1> QED BY <1>1, <1>2 DEF AfterDetectMiss

LEMMA PickFailureType ==
  ASSUME NEW b \in Book, NEW c \in Classes, NEW code
  PROVE  AfterPickFailure(b, c, code) \in Book
<1>1. RecordGraspFailure(b, c) \in Book
  BY DEF RecordGraspFailure, Book
<1>2. ASSUME NEW d \in Book PROVE MarkSkipped(d, c) \in Book
  BY <1>2 DEF MarkSkipped, Book
<1> QED BY <1>1, <1>2 DEF AfterPickFailure

(* What each operation changes, field by field.                            *)
LEMMA ConsumeEffect ==
  ASSUME NEW b \in Book, NEW c \in Classes, NEW d \in Classes
  PROVE  LET r == ConsumeOne(b, c)
         IN  /\ r.counts[d] = IF d = c /\ b.counts[d] > 0 THEN b.counts[d] - 1
                                                          ELSE b.counts[d]
             /\ r.detectMisses[d] = IF d = c THEN 0 ELSE b.detectMisses[d]
             /\ r.graspFailures[d] = IF d = c THEN 0 ELSE b.graspFailures[d]
             /\ r.skipped = b.skipped
BY DEF ConsumeOne, Book

LEMMA DetectMissEffect ==
  ASSUME NEW b \in Book, NEW c \in Classes
  PROVE  LET r == AfterDetectMiss(b, c)
             n == b.detectMisses[c] + 1
         IN  /\ r.counts = b.counts
             /\ r.graspFailures = b.graspFailures
             /\ r.detectMisses = [b.detectMisses EXCEPT ![c] = n]
             /\ r.skipped = IF n >= MaxDetectMisses THEN b.skipped \cup {c}
                                                    ELSE b.skipped
BY DEF AfterDetectMiss, RecordDetectMiss, MarkSkipped, OnDetectMiss, Book

LEMMA PickFailureEffect ==
  ASSUME NEW b \in Book, NEW c \in Classes, NEW code
  PROVE  LET r == AfterPickFailure(b, c, code)
             n == b.graspFailures[c] + 1
         IN  /\ r.counts = b.counts
             /\ r.detectMisses = b.detectMisses
             /\ r.graspFailures = [b.graspFailures EXCEPT ![c] = n]
             /\ r.skipped = IF code = GraspNotDetected /\ n >= MaxGraspFailures
                              THEN b.skipped \cup {c} ELSE b.skipped
BY DEF AfterPickFailure, RecordGraspFailure, MarkSkipped, OnActionFailure, Book

(* Skipping exactly when a budget is used up survives every operation the  *)
(* loop performs and then carries on.                                      *)
LEMMA NewBookSkips ==
  ASSUME NEW counts PROVE SkipsAreExhausted(NewBook(counts))
BY OrderBookAssumption DEF SkipsAreExhausted, NewBook

LEMMA ConsumeSkips ==
  ASSUME NEW b \in Book, NEW c \in Classes, SkipsAreExhausted(b), Open(b, c)
  PROVE  SkipsAreExhausted(ConsumeOne(b, c))
<1> SUFFICES ASSUME NEW d \in Classes
             PROVE  LET r == ConsumeOne(b, c)
                    IN  d \in r.skipped <=> \/ r.detectMisses[d] >= MaxDetectMisses
                                            \/ r.graspFailures[d] >= MaxGraspFailures
  BY DEF SkipsAreExhausted
<1> QED BY ConsumeEffect, OrderBookAssumption DEF SkipsAreExhausted, Open

LEMMA DetectMissSkips ==
  ASSUME NEW b \in Book, NEW c \in Classes, SkipsAreExhausted(b)
  PROVE  SkipsAreExhausted(AfterDetectMiss(b, c))
<1> DEFINE r == AfterDetectMiss(b, c)
           n == b.detectMisses[c] + 1
<1>1. /\ r.graspFailures = b.graspFailures
      /\ r.detectMisses = [b.detectMisses EXCEPT ![c] = n]
      /\ r.skipped = IF n >= MaxDetectMisses THEN b.skipped \cup {c} ELSE b.skipped
  BY DetectMissEffect
<1>2. /\ b.detectMisses \in [Classes -> Nat] /\ b.skipped \subseteq Classes
      /\ MaxDetectMisses \in Nat
  BY OrderBookAssumption DEF Book
<1>3. b.detectMisses[c] \in Nat
  BY <1>2
<1> SUFFICES ASSUME NEW d \in Classes
             PROVE  d \in r.skipped <=> \/ r.detectMisses[d] >= MaxDetectMisses
                                        \/ r.graspFailures[d] >= MaxGraspFailures
  BY DEF SkipsAreExhausted
<1> HIDE DEF r, n
<1>4. d \in b.skipped <=> \/ b.detectMisses[d] >= MaxDetectMisses
                          \/ b.graspFailures[d] >= MaxGraspFailures
  BY DEF SkipsAreExhausted
<1>5. CASE d # c
  <2>1. r.detectMisses[d] = b.detectMisses[d]
    BY <1>1, <1>2, <1>5
  <2>2. d \in r.skipped <=> d \in b.skipped
    BY <1>1, <1>5
  <2> QED BY <2>1, <2>2, <1>1, <1>4
<1>6. CASE d = c
  <2>1. r.detectMisses[d] = n
    BY <1>1, <1>2, <1>6
  <2>2. CASE n >= MaxDetectMisses
    BY <2>1, <2>2, <1>1, <1>6
  <2>3. CASE ~(n >= MaxDetectMisses)
    <3>1. r.skipped = b.skipped
      BY <2>3, <1>1
    <3>2. ~(b.detectMisses[d] >= MaxDetectMisses)
      BY <2>3, <1>2, <1>3, <1>6 DEF n
    <3> QED BY <3>1, <3>2, <2>1, <2>3, <1>1, <1>4
  <2> QED BY <2>2, <2>3
<1> QED BY <1>5, <1>6

LEMMA GraspMissSkips ==
  ASSUME NEW b \in Book, NEW c \in Classes, SkipsAreExhausted(b)
  PROVE  SkipsAreExhausted(AfterPickFailure(b, c, GraspNotDetected))
<1> DEFINE r == AfterPickFailure(b, c, GraspNotDetected)
           n == b.graspFailures[c] + 1
<1>1. /\ r.detectMisses = b.detectMisses
      /\ r.graspFailures = [b.graspFailures EXCEPT ![c] = n]
      /\ r.skipped = IF n >= MaxGraspFailures THEN b.skipped \cup {c} ELSE b.skipped
  BY PickFailureEffect
<1>2. /\ b.graspFailures \in [Classes -> Nat] /\ b.skipped \subseteq Classes
      /\ MaxGraspFailures \in Nat
  BY OrderBookAssumption DEF Book
<1>3. b.graspFailures[c] \in Nat
  BY <1>2
<1> SUFFICES ASSUME NEW d \in Classes
             PROVE  d \in r.skipped <=> \/ r.detectMisses[d] >= MaxDetectMisses
                                        \/ r.graspFailures[d] >= MaxGraspFailures
  BY DEF SkipsAreExhausted
<1> HIDE DEF r, n
<1>4. d \in b.skipped <=> \/ b.detectMisses[d] >= MaxDetectMisses
                          \/ b.graspFailures[d] >= MaxGraspFailures
  BY DEF SkipsAreExhausted
<1>5. CASE d # c
  <2>1. r.graspFailures[d] = b.graspFailures[d]
    BY <1>1, <1>2, <1>5
  <2>2. d \in r.skipped <=> d \in b.skipped
    BY <1>1, <1>5
  <2> QED BY <2>1, <2>2, <1>1, <1>4
<1>6. CASE d = c
  <2>1. r.graspFailures[d] = n
    BY <1>1, <1>2, <1>6
  <2>2. CASE n >= MaxGraspFailures
    BY <2>1, <2>2, <1>1, <1>6
  <2>3. CASE ~(n >= MaxGraspFailures)
    <3>1. r.skipped = b.skipped
      BY <2>3, <1>1
    <3>2. ~(b.graspFailures[d] >= MaxGraspFailures)
      BY <2>3, <1>2, <1>3, <1>6 DEF n
    <3> QED BY <3>1, <3>2, <2>1, <2>3, <1>1, <1>4
  <2> QED BY <2>2, <2>3
<1> QED BY <1>5, <1>6

(* Whatever class the priority list or the dict order yields next, it is   *)
(* an open class of the order.                                             *)
LEMMA NextClassesOpen ==
  ASSUME NEW b \in Book, NEW c \in NextClasses(b)
  PROVE  c \in Classes /\ Open(b, c)
BY OrderBookAssumption DEF NextClasses

(* The correction of a round never exceeds the order, is never negative,   *)
(* and together with what has left the table it does not exceed the order  *)
(* unless more than the order has left already.                            *)
LEMMA RemainingBounds ==
  ASSUME NEW o \in Int, NEW i \in Int, NEW f \in Int
  PROVE  /\ RemainingOf(o, i, f) \in Nat
         /\ RemainingOf(o, i, f) <= Clamp0(o)
         /\ \/ RemainingOf(o, i, f) = 0
            \/ RemainingOf(o, i, f) + (Clamp0(i) - Clamp0(f)) <= Clamp0(o)
BY DEF RemainingOf, Clamp0, Lesser

(* The shortage a round logs and the correction it orders are computed by  *)
(* two different formulas; they agree on every count.                      *)
THEOREM ShortageIsCorrection ==
  ASSUME NEW o \in Int, NEW i \in Nat, NEW f \in Nat
  PROVE  MissingOf(o, i, f) = RemainingOf(o, i, f)
BY DEF MissingOf, RemainingOf, Clamp0, Lesser

-----------------------------------------------------------------------------
(* Small facts.                                                            *)

LEMMA CurrentType == TypeOK => Current \in Book
BY DEF TypeOK, Current

LEMMA SetCurrentType ==
  ASSUME TypeOK, NEW b \in Book, SetCurrent(b)
  PROVE  order' \in Book /\ correction' \in Book
BY DEF TypeOK, SetCurrent

LEMMA SetCurrentEffect ==
  ASSUME NEW b, SetCurrent(b), round' = round
  PROVE  Current' = b
BY DEF SetCurrent, Current

LEMMA SameCurrent ==
  ASSUME UNCHANGED << order, correction, round >>
  PROVE  Current' = Current
BY DEF Current

(* What may happen to the nuts while the arm moves.                        *)
Moved == Undisturbed \/ \E c \in Classes : Deliver(c) \/ Lose(c)

LEMMA MovedType ==
  ASSUME TypeOK, Moved
  PROVE  /\ table' \in [Classes -> Nat]
         /\ tray'  \in [Classes -> Nat]
         /\ lost'  \in [Classes -> Nat]
<1>1. CASE Undisturbed
  BY <1>1 DEF Undisturbed, world, TypeOK
<1>2. ASSUME NEW c \in Classes, Deliver(c)
      PROVE  /\ table' \in [Classes -> Nat]
             /\ tray'  \in [Classes -> Nat]
             /\ lost'  \in [Classes -> Nat]
  BY <1>2 DEF Deliver, TypeOK
<1>3. ASSUME NEW c \in Classes, Lose(c)
      PROVE  /\ table' \in [Classes -> Nat]
             /\ tray'  \in [Classes -> Nat]
             /\ lost'  \in [Classes -> Nat]
  BY <1>3 DEF Lose, TypeOK
<1> QED BY <1>1, <1>2, <1>3 DEF Moved

(* No nut appears or vanishes while the arm moves.                         *)
LEMMA MovedConserves ==
  ASSUME TypeOK, Moved, NEW c \in Classes
  PROVE  /\ table'[c] + tray'[c] + lost'[c] = table[c] + tray[c] + lost[c]
         /\ tray[c] + lost[c] <= tray'[c] + lost'[c]
<1>1. CASE Undisturbed
  BY <1>1 DEF Undisturbed, world, TypeOK
<1>2. ASSUME NEW d \in Classes, Deliver(d)
      PROVE  /\ table'[c] + tray'[c] + lost'[c] = table[c] + tray[c] + lost[c]
             /\ tray[c] + lost[c] <= tray'[c] + lost'[c]
  BY <1>2 DEF Deliver, TypeOK
<1>3. ASSUME NEW d \in Classes, Lose(d)
      PROVE  /\ table'[c] + tray'[c] + lost'[c] = table[c] + tray[c] + lost[c]
             /\ tray[c] + lost[c] <= tray'[c] + lost'[c]
  BY <1>3 DEF Lose, TypeOK
<1> QED BY <1>1, <1>2, <1>3 DEF Moved

LEMMA CountType ==
  ASSUME TypeOK, NEW hidden \in Hidden
  PROVE  Count(hidden) \in [Classes -> Nat]
<1>1. ASSUME NEW c \in Classes
      PROVE  Clamp0(table[c] - hidden[c]) \in Nat
  BY TaskManagerAssumption DEF Clamp0, Hidden, TypeOK
<1> QED BY <1>1 DEF Count

LEMMA CorrectionType ==
  ASSUME TypeOK, NEW final \in [Classes -> Nat]
  PROVE  /\ Missing(ordered, initial, final) \in [Classes -> Nat]
         /\ Remaining(ordered, initial, final) \in [Classes -> Int]
<1>1. ASSUME NEW c \in Classes
      PROVE  /\ MissingOf(ordered[c], initial[c], final[c]) \in Nat
             /\ RemainingOf(ordered[c], initial[c], final[c]) \in Nat
  <2>1. ordered[c] \in Int /\ initial[c] \in Int /\ final[c] \in Int
    BY DEF TypeOK
  <2>2. RemainingOf(ordered[c], initial[c], final[c]) \in Nat
    BY <2>1, RemainingBounds
  <2>3. MissingOf(ordered[c], initial[c], final[c]) \in Nat
    BY <2>1 DEF MissingOf, Clamp0
  <2> QED BY <2>2, <2>3
<1> QED BY <1>1 DEF Missing, Remaining

-----------------------------------------------------------------------------
(* Type correctness.                                                       *)

LEMMA InitType == Init => TypeOK
<1> SUFFICES ASSUME Init PROVE TypeOK
  OBVIOUS
<1>1. NoCounts \in [Classes -> Nat] /\ NoCounts \in [Classes -> Int]
  BY DEF NoCounts
<1> QED BY <1>1, EmptyBookType, TaskManagerAssumption DEF Init, TypeOK, Statuses

LEMMA PrepareType == TypeOK /\ (Start \/ Stop \/ Prepare) => TypeOK'
<1> SUFFICES ASSUME TypeOK, Start \/ Stop \/ Prepare PROVE TypeOK'
  OBVIOUS
<1>1. CASE Start
  <2>1. NoCounts \in [Classes -> Nat] /\ NoCounts \in [Classes -> Int]
    BY DEF NoCounts
  <2> QED BY <1>1, <2>1, EmptyBookType, TaskManagerAssumption
          DEF Start, TypeOK, Statuses, Running
<1>2. CASE Stop
  BY <1>2 DEF Stop, TypeOK, world
<1>3. CASE FetchOrder
  <2>1. PICK counts \in Orders : order' = NewBook(counts) /\ ordered' = counts
    BY <1>3 DEF FetchOrder, Fetch
  <2>2. counts \in [Classes -> Int] /\ NewBook(counts) \in Book
    BY TaskManagerAssumption, NewBookType
  <2> QED BY <1>3, <2>1, <2>2 DEF FetchOrder, Fetch, Goto, cycle, world, TypeOK, Running
<1>4. CASE GoHome
  BY <1>4 DEF GoHome, Goto, cycle, world, TypeOK, Running
<1>5. CASE InitialCount
  <2>1. initial' \in [Classes -> Nat]
    BY <1>5, CountType DEF InitialCount
  <2> QED BY <1>5, <2>1 DEF InitialCount, Goto, cycle, world, TypeOK, Running
<1>6. CASE PrepareFails
  BY <1>6 DEF PrepareFails, Abort, End, cycle, world, TypeOK, Statuses, Finished
<1> QED BY <1>1, <1>2, <1>3, <1>4, <1>5, <1>6 DEF Prepare

LEMMA ObserveType == TypeOK /\ Observe => TypeOK'
<1> SUFFICES ASSUME TypeOK, Observe PROVE TypeOK'
  OBVIOUS
<1> USE DEF loopConst, world
<1>1. CASE BeginIteration
  <2>1. target' \in Classes
    BY <1>1, CurrentType, NextClassesOpen DEF BeginIteration
  <2> QED BY <1>1, <2>1 DEF BeginIteration, Enter, TypeOK, Running, Statuses
<1>2. CASE DetectFails \/ NoCandidate
  <2>1. order' \in Book /\ correction' \in Book
    <3>1. AfterDetectMiss(Current, target) \in Book
      BY CurrentType, DetectMissType DEF TypeOK
    <3> QED BY <1>2, <3>1, SetCurrentType DEF DetectFails, NoCandidate
  <2> QED BY <1>2, <2>1 DEF DetectFails, NoCandidate, Goto, TypeOK, Running
<1>3. CASE Detected
  BY <1>3 DEF Detected, Enter, TypeOK, Running, Statuses
<1> QED BY <1>1, <1>2, <1>3 DEF Observe

LEMMA PushType == TypeOK /\ Push => TypeOK'
<1> SUFFICES ASSUME TypeOK, Push PROVE TypeOK'
  OBVIOUS
<1> USE DEF loopConst
<1>1. CASE SendPush
  BY <1>1 DEF SendPush, Enter, world, TypeOK, Running, Statuses
<1>2. CASE PushSucceeds \/ PushFails \/ PushUnavailable
  <2>1. Moved
    BY <1>2 DEF PushSucceeds, PushFails, PushUnavailable, PushEffect, Moved
  <2>2. /\ table' \in [Classes -> Nat]
        /\ tray'  \in [Classes -> Nat]
        /\ lost'  \in [Classes -> Nat]
    BY <2>1, MovedType
  <2> QED BY <1>2, <2>2 DEF PushSucceeds, PushFails, PushUnavailable, Goto, Enter,
             Abort, End, TypeOK, Running, Statuses, Finished
<1> QED BY <1>1, <1>2 DEF Push

LEMMA PickType == TypeOK /\ Pick => TypeOK'
<1> SUFFICES ASSUME TypeOK, Pick PROVE TypeOK'
  OBVIOUS
<1> USE DEF loopConst
<1>1. CASE SendPick
  BY <1>1 DEF SendPick, Enter, world, TypeOK, Running, Statuses
<1>2. CASE PickSucceeds
  <2>1. /\ table' \in [Classes -> Nat]
        /\ tray'  \in [Classes -> Nat]
        /\ lost'  \in [Classes -> Nat]
    BY <1>2, MovedType DEF PickSucceeds, DbUpdateInventory, UpdateInventory, Moved, TypeOK
  <2>2. order' \in Book /\ correction' \in Book
    <3>1. ConsumeOne(Current, target) \in Book
      BY CurrentType, ConsumeType DEF TypeOK
    <3> QED BY <1>2, <3>1, SetCurrentType DEF PickSucceeds, DbUpdateInventory, UpdateInventory
  <2>3. deducted' \in [Classes -> Nat]
    BY <1>2 DEF PickSucceeds, DbUpdateInventory, UpdateInventory, TypeOK
  <2> QED BY <1>2, <2>1, <2>2, <2>3 DEF PickSucceeds, DbUpdateInventory, UpdateInventory, Goto, TypeOK, Running
<1>3. CASE GraspMissed
  <2>1. order' \in Book /\ correction' \in Book
    <3>1. AfterPickFailure(Current, target, GraspNotDetected) \in Book
      BY CurrentType, PickFailureType DEF TypeOK
    <3> QED BY <1>3, <3>1, SetCurrentType DEF GraspMissed
  <2> QED BY <1>3, <2>1 DEF GraspMissed, Goto, world, TypeOK, Running
<1>4. ASSUME NEW c \in HardCodes, PickFails(c)
      PROVE  TypeOK'
  <2>1. /\ table' \in [Classes -> Nat]
        /\ tray'  \in [Classes -> Nat]
        /\ lost'  \in [Classes -> Nat]
    BY <1>4, MovedType DEF PickFails, Moved, TypeOK
  <2>2. order' \in Book /\ correction' \in Book
    <3>1. AfterPickFailure(Current, target, c) \in Book
      BY CurrentType, PickFailureType DEF TypeOK
    <3> QED BY <1>4, <3>1, SetCurrentType DEF PickFails
  <2> QED BY <1>4, <2>1, <2>2 DEF PickFails, Abort, End, TypeOK, Statuses, Finished
<1>5. CASE PickUnavailable
  <2>1. /\ table' \in [Classes -> Nat]
        /\ tray'  \in [Classes -> Nat]
        /\ lost'  \in [Classes -> Nat]
    BY <1>5, MovedType DEF PickUnavailable, Moved, TypeOK
  <2> QED BY <1>5, <2>1 DEF PickUnavailable, Abort, End, TypeOK, Statuses, Finished
<1> QED BY <1>1, <1>2, <1>3, <1>4, <1>5 DEF Pick

LEMMA ConcludeType == TypeOK /\ Conclude => TypeOK'
<1> SUFFICES ASSUME TypeOK, Conclude PROVE TypeOK'
  OBVIOUS
<1> USE DEF loopConst, world
<1>1. CASE Stopped \/ RecountFails \/ Finish
  BY <1>1 DEF Stopped, RecountFails, Finish, Abort, End, TypeOK, Statuses, Finished
<1>2. CASE BookDone
  BY <1>2 DEF BookDone, Goto, TypeOK, Running
<1>3. CASE EnterRound
  BY <1>3 DEF EnterRound, Enter, TypeOK, Running, Statuses
<1>4. CASE Recount
  <2>1. PICK hidden \in Hidden :
          LET final == Count(hidden)
          IN  /\ shortage' = Missing(ordered, initial, final)
              /\ correction' = NewBook(Remaining(ordered, initial, final))
    BY <1>4 DEF Recount
  <2>2. shortage' \in [Classes -> Nat] /\ correction' \in Book
    <3>1. Count(hidden) \in [Classes -> Nat]
      BY CountType
    <3> QED BY <2>1, <3>1, CorrectionType, NewBookType
  <2> QED BY <1>4, <2>2 DEF Recount, Goto, TypeOK, Running
<1> QED BY <1>1, <1>2, <1>3, <1>4 DEF Conclude

LEMMA NextType == TypeOK /\ [Next]_vars => TypeOK'
<1> SUFFICES ASSUME TypeOK, [Next]_vars PROVE TypeOK'
  OBVIOUS
<1>1. CASE UNCHANGED vars
  BY <1>1 DEF vars, codeVars, world, TypeOK
<1> QED BY <1>1, PrepareType, ObserveType, PushType, PickType, ConcludeType
        DEF Next, Work

(* The variables of the task manager keep their types, in particular the   *)
(* budgets and stock counters never go below zero.                         *)
THEOREM TypeCorrect == Spec => []TypeOK
BY InitType, NextType, PTL DEF Spec

-----------------------------------------------------------------------------
(* Skipped classes.                                                        *)

AtTarget == { "detect", "select", "push", "pick" }

(* From the choice of a target until the pick has been answered, the       *)
(* target stays an open class of the book being worked on.                 *)
TargetOpen == pc \in AtTarget => Open(Current, target)

(* The step to the first correction changes the current book, so the claim *)
(* must hold of both books.                                                *)
BooksAreExhausted ==
  pc # "idle" => SkipsAreExhausted(order) /\ SkipsAreExhausted(correction)

SkipInv == TypeOK /\ TargetOpen /\ BooksAreExhausted

LEMMA SetCurrentSkips ==
  ASSUME TypeOK, BooksAreExhausted, pc # "idle",
         NEW b, SkipsAreExhausted(b), SetCurrent(b)
  PROVE  SkipsAreExhausted(order') /\ SkipsAreExhausted(correction')
BY DEF BooksAreExhausted, SetCurrent

LEMMA CurrentSkips ==
  ASSUME TypeOK, BooksAreExhausted, pc # "idle"
  PROVE  SkipsAreExhausted(Current)
BY DEF BooksAreExhausted, Current

LEMMA TargetOpenNext ==
  ASSUME TypeOK, TargetOpen, [Next]_vars
  PROVE  TargetOpen'
<1> USE DEF AtTarget, loopConst
<1>1. CASE BeginIteration
  <2>1. target' \in NextClasses(Current) /\ Current' = Current
    BY <1>1, SameCurrent DEF BeginIteration
  <2>2. Open(Current, target')
    BY <2>1, CurrentType, NextClassesOpen
  <2> QED BY <2>1, <2>2 DEF TargetOpen
<1>2. CASE Detected \/ SendPush \/ PushFails \/ SendPick
  <2>1. pc \in AtTarget /\ target' = target
    BY <1>2 DEF Detected, SendPush, PushFails, SendPick
  <2>2. Current' = Current
    BY <1>2, SameCurrent DEF Detected, SendPush, PushFails, SendPick
  <2> QED BY <2>1, <2>2 DEF TargetOpen
<1>3. CASE Stop \/ UNCHANGED vars
  <2>1. Current' = Current /\ pc' = pc /\ target' = target
    BY <1>3, SameCurrent DEF Stop, vars, codeVars
  <2> QED BY <2>1 DEF TargetOpen
<1>4. CASE Start \/ Prepare \/ Conclude
  <2>1. pc' \notin AtTarget
    BY <1>4 DEF Start, Prepare, FetchOrder, Fetch, GoHome, InitialCount, PrepareFails,
       Conclude, Stopped, BookDone, EnterRound, Recount, RecountFails, Finish,
       Goto, Enter, Abort, End
  <2> QED BY <2>1 DEF TargetOpen
<1>5. CASE DetectFails \/ NoCandidate \/ PushSucceeds \/ PushUnavailable
  BY <1>5 DEF DetectFails, NoCandidate, PushSucceeds, PushUnavailable, Goto,
     Abort, End, TargetOpen
<1>6. CASE PickSucceeds \/ GraspMissed \/ (\E c \in HardCodes : PickFails(c))
             \/ PickUnavailable
  BY <1>6 DEF PickSucceeds, DbUpdateInventory, UpdateInventory, GraspMissed, PickFails, PickUnavailable, Goto,
     Abort, End, TargetOpen
<1> QED BY <1>1, <1>2, <1>3, <1>4, <1>5, <1>6
        DEF Next, Work, Observe, Push, Pick

LEMMA InitSkips == Init => SkipInv
<1> SUFFICES ASSUME Init PROVE SkipInv
  OBVIOUS
<1>1. TypeOK
  BY InitType
<1> QED BY <1>1 DEF Init, SkipInv, TargetOpen, AtTarget, BooksAreExhausted

LEMMA NextSkips == SkipInv /\ [Next]_vars => SkipInv'
<1> SUFFICES ASSUME SkipInv, [Next]_vars PROVE BooksAreExhausted'
  BY NextType, TargetOpenNext DEF SkipInv
<1> USE DEF SkipInv
<1>1. CASE Start
  BY <1>1, NewBookSkips DEF Start, EmptyBook, BooksAreExhausted
<1>2. CASE FetchOrder
  <2>1. PICK counts \in Orders : order' = NewBook(counts)
    BY <1>2 DEF FetchOrder, Fetch
  <2>2. correction' = correction /\ SkipsAreExhausted(correction)
    BY <1>2 DEF FetchOrder, Fetch, cycle, BooksAreExhausted
  <2> QED BY <2>1, <2>2, NewBookSkips DEF BooksAreExhausted
<1>3. CASE Recount
  <2>1. PICK counts : correction' = NewBook(counts)
    BY <1>3 DEF Recount
  <2>2. order' = order /\ SkipsAreExhausted(order)
    BY <1>3 DEF Recount, BooksAreExhausted
  <2> QED BY <2>1, <2>2, NewBookSkips DEF BooksAreExhausted
<1>4. CASE DetectFails \/ NoCandidate
  <2>1. pc # "idle" /\ SetCurrent(AfterDetectMiss(Current, target))
    BY <1>4 DEF DetectFails, NoCandidate
  <2>2. SkipsAreExhausted(AfterDetectMiss(Current, target))
    BY <2>1, CurrentType, CurrentSkips, DetectMissSkips DEF TypeOK
  <2> QED BY <2>1, <2>2, SetCurrentSkips DEF BooksAreExhausted
<1>5. CASE GraspMissed
  <2>1. /\ pc # "idle"
        /\ SetCurrent(AfterPickFailure(Current, target, GraspNotDetected))
    BY <1>5 DEF GraspMissed
  <2>2. SkipsAreExhausted(AfterPickFailure(Current, target, GraspNotDetected))
    BY <2>1, CurrentType, CurrentSkips, GraspMissSkips DEF TypeOK
  <2> QED BY <2>1, <2>2, SetCurrentSkips DEF BooksAreExhausted
<1>6. CASE PickSucceeds
  <2>1. pc = "pick" /\ SetCurrent(ConsumeOne(Current, target))
    BY <1>6 DEF PickSucceeds, DbUpdateInventory, UpdateInventory
  <2>2. SkipsAreExhausted(ConsumeOne(Current, target))
    BY <2>1, CurrentType, CurrentSkips, ConsumeSkips
       DEF TypeOK, TargetOpen, AtTarget
  <2> QED BY <2>1, <2>2, SetCurrentSkips DEF BooksAreExhausted
<1>7. CASE \E c \in HardCodes : PickFails(c)
  BY <1>7 DEF PickFails, Abort, End, BooksAreExhausted
<1>8. CASE pc # "idle" /\ UNCHANGED << order, correction >>
  BY <1>8 DEF BooksAreExhausted
<1>9. CASE Stop \/ UNCHANGED vars
  BY <1>9 DEF Stop, vars, codeVars, BooksAreExhausted
<1>10. CASE GoHome \/ InitialCount \/ PrepareFails
  BY <1>8, <1>10 DEF GoHome, InitialCount, PrepareFails, cycle
<1>11. CASE BeginIteration \/ Detected \/ SendPush \/ SendPick
  BY <1>8, <1>11 DEF BeginIteration, Detected, SendPush, SendPick
<1>12. CASE PushSucceeds \/ PushFails \/ PushUnavailable \/ PickUnavailable
  BY <1>8, <1>12 DEF PushSucceeds, PushFails, PushUnavailable, PickUnavailable
<1>13. CASE Stopped \/ BookDone \/ EnterRound \/ RecountFails \/ Finish
  BY <1>8, <1>13 DEF Stopped, BookDone, EnterRound, RecountFails, Finish
<1> QED BY <1>1, <1>2, <1>3, <1>4, <1>5, <1>6, <1>7, <1>9, <1>10, <1>11,
           <1>12, <1>13
        DEF Next, Work, Prepare, Observe, Push, Pick, Conclude

Outcomes == {"unseen", "pushed", "empty"}

TrailType == trail \in [Classes -> Seq(Outcomes)]

(* What the trail of a class tells, the counters of the book at hand say.  *)
Told(b) ==
  \A c \in Classes :
    /\ Tally(trail[c], "unseen") = b.detectMisses[c] /\ b.detectMisses[c] <= MaxDetectMisses
    /\ Tally(trail[c], "empty") = b.graspFailures[c] /\ b.graspFailures[c] <= MaxGraspFailures

RoundSane == (pc = "fetch" => round = 0) /\ (pc = "recount" => round # 0)

TrailInv == SkipInv /\ TrailType /\ RoundSane /\ (HasBook => Told(Current))

LEMMA TallyEmpty == \A o : Tally(<< >>, o) = 0
BY FS_EmptySet DEF Tally

LEMMA TallyAppend ==
  ASSUME NEW s \in Seq(Outcomes), NEW e \in Outcomes, NEW o
  PROVE  Tally(Append(s, e), o) = IF o = e THEN Tally(s, o) + 1 ELSE Tally(s, o)
<1> DEFINE S == { i \in DOMAIN s : s[i] = o }
           T == { i \in DOMAIN Append(s, e) : Append(s, e)[i] = o }
<1>1. IsFiniteSet(S)
  <2>1. S \subseteq 1 .. Len(s) /\ Len(s) \in Nat
    OBVIOUS
  <2> QED BY <2>1, FS_Interval, FS_Subset
<1>2. Len(s) + 1 \notin S
  OBVIOUS
<1>3. T = IF o = e THEN S \cup {Len(s) + 1} ELSE S
  OBVIOUS
<1> HIDE DEF S, T
<1>4. Cardinality(S \cup {Len(s) + 1}) = Cardinality(S) + 1
  BY <1>1, <1>2, FS_AddElement
<1> QED BY <1>3, <1>4 DEF Tally, S, T

LEMMA TrailCases ==
  ASSUME [TrailNext]_trailVars
  PROVE  [Next]_vars
<1>1. Noted => Next
  BY DEF Noted, Next, Work, Prepare, Observe, Push, Pick, Conclude
<1>2. Unnoted => Next
  BY DEF Unnoted, Next, Work, Prepare, Observe, Push, Pick, Conclude
<1> QED BY <1>1, <1>2 DEF TrailNext, trailVars

(* One more attempt at the target.                                         *)
LEMMA NoteEffect ==
  ASSUME TrailType, target \in Classes, NEW e \in Outcomes, Note(e)
  PROVE  /\ TrailType'
         /\ \A c \in Classes : c # target => trail'[c] = trail[c]
         /\ \A o : Tally(trail'[target], o) = IF o = e THEN Tally(trail[target], o) + 1
                                                       ELSE Tally(trail[target], o)
<1>1. trail'[target] = Append(trail[target], e) /\ \A c \in Classes : c # target => trail'[c] = trail[c]
  BY DEF TrailType, Note
<1>2. trail[target] \in Seq(Outcomes)
  BY DEF TrailType
<1>3. TrailType'
  BY <1>2 DEF TrailType, Note
<1> QED BY <1>1, <1>2, <1>3, TallyAppend

LEMMA NewTold ==
  ASSUME NEW counts, trail' = [c \in Classes |-> << >>], Current' = NewBook(counts)
  PROVE  TrailType' /\ Told(Current)'
<1>1. \A c \in Classes : Current'.detectMisses[c] = 0 /\ Current'.graspFailures[c] = 0
  BY DEF NewBook
<1>2. \A c \in Classes : trail'[c] = << >>
  OBVIOUS
<1> QED BY <1>1, <1>2, TallyEmpty, OrderBookAssumption DEF TrailType, Told

LEMMA RoundStep ==
  ASSUME TypeOK, RoundSane, [Next]_vars
  PROVE  RoundSane'
<1> USE DEF RoundSane
<1>1. CASE Start \/ Stop \/ UNCHANGED vars
  BY <1>1 DEF Start, Stop, vars, codeVars
<1>2. CASE Prepare
  BY <1>2 DEF Prepare, FetchOrder, GoHome, InitialCount, PrepareFails, Goto, Abort, End
<1>3. CASE Observe
  BY <1>3 DEF Observe, BeginIteration, DetectFails, Detected, NoCandidate, Goto, Enter
<1>4. CASE Push
  BY <1>4 DEF Push, SendPush, PushSucceeds, PushFails, PushUnavailable, Goto, Enter, Abort, End
<1>5. CASE Pick
  BY <1>5 DEF Pick, SendPick, PickSucceeds, GraspMissed, PickFails, PickUnavailable, Goto, Enter, Abort, End
<1>6. CASE EnterRound
  <2>1. round' = round + 1 /\ round \in Nat /\ pc' = "recount"
    BY <1>6 DEF EnterRound, Enter, TypeOK
  <2> QED BY <2>1
<1>7. CASE Stopped \/ BookDone \/ Recount \/ RecountFails \/ Finish
  BY <1>7 DEF Stopped, BookDone, Recount, RecountFails, Finish, Goto, Abort, End
<1> QED BY <1>1, <1>2, <1>3, <1>4, <1>5, <1>6, <1>7 DEF Next, Work, Conclude

LEMMA GraspMissEffect ==
  ASSUME NEW b \in Book, NEW c \in Classes
  PROVE  LET r == AfterPickFailure(b, c, GraspNotDetected)
         IN  /\ r.detectMisses = b.detectMisses
             /\ r.graspFailures = [b.graspFailures EXCEPT ![c] = b.graspFailures[c] + 1]
BY DEF AfterPickFailure, RecordGraspFailure, MarkSkipped, OnActionFailure, Book

LEMMA NotedStep ==
  ASSUME TrailInv, Noted
  PROVE  TrailType' /\ (HasBook => Told(Current))'
<1>1. /\ SkipInv /\ TypeOK /\ TrailType /\ RoundSane /\ Current \in Book /\ target \in Classes
      /\ MaxDetectMisses \in Nat /\ MaxGraspFailures \in Nat
      /\ MaxDetectMisses # 0 /\ MaxGraspFailures # 0
  BY CurrentType, OrderBookAssumption DEF TrailInv, SkipInv, TypeOK
<1>2. ASSUME pc \in AtTarget
      PROVE  /\ Told(Current)
             /\ Current.detectMisses[target] < MaxDetectMisses
             /\ Current.graspFailures[target] < MaxGraspFailures
  <2>1. Told(Current)
    BY <1>2 DEF TrailInv, HasBook, AtTarget
  <2>2. SkipsAreExhausted(Current) /\ target \notin Current.skipped
    BY <1>1, <1>2, CurrentSkips DEF SkipInv, TargetOpen, Open, AtTarget
  <2>3. Current.detectMisses[target] \in Nat /\ Current.graspFailures[target] \in Nat
    BY <1>1 DEF Book
  <2> QED BY <1>1, <2>1, <2>2, <2>3 DEF SkipsAreExhausted
<1>3. CASE (DetectFails \/ NoCandidate) /\ Note("unseen")
  <2>1. /\ pc \in AtTarget /\ SetCurrent(AfterDetectMiss(Current, target)) /\ round' = round
    BY <1>3 DEF DetectFails, NoCandidate, AtTarget, loopConst
  <2>2. Current' = AfterDetectMiss(Current, target)
    BY <2>1, SetCurrentEffect
  <2>3. /\ Current'.graspFailures = Current.graspFailures
        /\ Current'.detectMisses = [Current.detectMisses EXCEPT ![target] = Current.detectMisses[target] + 1]
    BY <1>1, <2>2, DetectMissEffect
  <2>4. /\ TrailType'
        /\ \A c \in Classes : c # target => trail'[c] = trail[c]
        /\ \A o : Tally(trail'[target], o) = IF o = "unseen" THEN Tally(trail[target], o) + 1
                                                             ELSE Tally(trail[target], o)
    BY <1>1, <1>3, NoteEffect DEF Outcomes
  <2>5. Current.detectMisses \in [Classes -> Nat]
    BY <1>1 DEF Book
  <2>6. Tally(trail'[target], "unseen") = Tally(trail[target], "unseen") + 1
        /\ Tally(trail'[target], "empty") = Tally(trail[target], "empty")
    BY <2>4
  <2>7. /\ Current'.detectMisses[target] = Current.detectMisses[target] + 1
        /\ Current.detectMisses[target] + 1 <= MaxDetectMisses
        /\ \A c \in Classes : c # target => Current'.detectMisses[c] = Current.detectMisses[c]
    BY <1>1, <1>2, <2>1, <2>3, <2>5
  <2> QED BY <1>1, <1>2, <2>1, <2>3, <2>4, <2>6, <2>7 DEF Told
<1>4. CASE SendPush /\ Note("pushed")
  <2>1. pc \in AtTarget /\ Current' = Current
    BY <1>4, SameCurrent DEF SendPush, AtTarget, loopConst
  <2>2. /\ TrailType'
        /\ \A c \in Classes : c # target => trail'[c] = trail[c]
        /\ \A o : Tally(trail'[target], o) = IF o = "pushed" THEN Tally(trail[target], o) + 1
                                                             ELSE Tally(trail[target], o)
    BY <1>1, <1>4, NoteEffect DEF Outcomes
  <2>3. Tally(trail'[target], "unseen") = Tally(trail[target], "unseen")
        /\ Tally(trail'[target], "empty") = Tally(trail[target], "empty")
    BY <2>2
  <2> QED BY <1>2, <2>1, <2>2, <2>3 DEF Told
<1>5. CASE GraspMissed /\ Note("empty")
  <2>1. /\ pc \in AtTarget /\ SetCurrent(AfterPickFailure(Current, target, GraspNotDetected))
        /\ round' = round
    BY <1>5 DEF GraspMissed, AtTarget, loopConst
  <2>2. Current' = AfterPickFailure(Current, target, GraspNotDetected)
    BY <2>1, SetCurrentEffect
  <2>3. /\ Current'.detectMisses = Current.detectMisses
        /\ Current'.graspFailures = [Current.graspFailures EXCEPT ![target] = Current.graspFailures[target] + 1]
    BY <1>1, <2>2, GraspMissEffect
  <2>4. /\ TrailType'
        /\ \A c \in Classes : c # target => trail'[c] = trail[c]
        /\ \A o : Tally(trail'[target], o) = IF o = "empty" THEN Tally(trail[target], o) + 1
                                                            ELSE Tally(trail[target], o)
    BY <1>1, <1>5, NoteEffect DEF Outcomes
  <2>5. Current.graspFailures \in [Classes -> Nat]
    BY <1>1 DEF Book
  <2>6. Tally(trail'[target], "empty") = Tally(trail[target], "empty") + 1
        /\ Tally(trail'[target], "unseen") = Tally(trail[target], "unseen")
    BY <2>4
  <2>7. /\ Current'.graspFailures[target] = Current.graspFailures[target] + 1
        /\ Current.graspFailures[target] + 1 <= MaxGraspFailures
        /\ \A c \in Classes : c # target => Current'.graspFailures[c] = Current.graspFailures[c]
    BY <1>1, <1>2, <2>1, <2>3, <2>5
  <2> QED BY <1>1, <1>2, <2>1, <2>3, <2>4, <2>6, <2>7 DEF Told
<1>6. CASE PickSucceeds /\ trail' = [trail EXCEPT ![target] = << >>]
  <2>1. pc \in AtTarget /\ SetCurrent(ConsumeOne(Current, target)) /\ round' = round
    BY <1>6 DEF PickSucceeds, AtTarget, loopConst
  <2>2. Current' = ConsumeOne(Current, target)
    BY <2>1, SetCurrentEffect
  <2>3. \A d \in Classes : /\ Current'.detectMisses[d] = IF d = target THEN 0 ELSE Current.detectMisses[d]
                           /\ Current'.graspFailures[d] = IF d = target THEN 0 ELSE Current.graspFailures[d]
    BY <1>1, <2>2, ConsumeEffect
  <2>4. trail'[target] = << >> /\ \A c \in Classes : c # target => trail'[c] = trail[c]
    BY <1>1, <1>6 DEF TrailType
  <2>5. TrailType'
    <3>1. << >> \in Seq(Outcomes)
      OBVIOUS
    <3> QED BY <1>1, <1>6, <3>1 DEF TrailType
  <2> QED BY <1>1, <1>2, <2>1, <2>3, <2>4, <2>5, TallyEmpty DEF Told
<1>7. CASE (Start \/ FetchOrder \/ Recount) /\ trail' = [c \in Classes |-> << >>]
  <2>1. \E counts : Current' = NewBook(counts)
    <3>1. CASE Start
      BY <3>1 DEF Start, Current, EmptyBook
    <3>2. CASE FetchOrder
      <4>1. round' = 0
        BY <1>1, <3>2 DEF FetchOrder, RoundSane, cycle
      <4> QED BY <3>2, <4>1 DEF FetchOrder, Fetch, Current
    <3>3. CASE Recount
      <4>1. round' # 0
        BY <1>1, <3>3 DEF Recount, RoundSane
      <4> QED BY <3>3, <4>1 DEF Recount, Current
    <3> QED BY <1>7, <3>1, <3>2, <3>3
  <2> QED BY <1>7, <2>1, NewTold
<1> QED BY <1>3, <1>4, <1>5, <1>6, <1>7 DEF Noted

LEMMA UnnotedStep ==
  ASSUME TrailInv, Unnoted \/ UNCHANGED vars, trail' = trail
  PROVE  TrailType' /\ (HasBook => Told(Current))'
<1>1. CASE pc' \in {"idle", "recount"}
  BY <1>1 DEF TrailInv, TrailType, HasBook
<1>2. CASE HasBook /\ UNCHANGED << order, correction, round >>
  BY <1>2, SameCurrent DEF TrailInv, TrailType, Told
<1>3. CASE Stop \/ UNCHANGED vars
  BY <1>3, SameCurrent DEF Stop, vars, codeVars, TrailInv, TrailType, Told, HasBook
<1>4. CASE GoHome \/ InitialCount
  BY <1>2, <1>4 DEF GoHome, InitialCount, HasBook, cycle
<1>5. CASE BeginIteration \/ Detected \/ SendPick
  BY <1>2, <1>5 DEF BeginIteration, Detected, SendPick, HasBook, loopConst
<1>6. CASE PushSucceeds \/ PushFails \/ BookDone
  BY <1>2, <1>6 DEF PushSucceeds, PushFails, BookDone, HasBook, loopConst
<1>7. CASE PrepareFails \/ PushUnavailable \/ PickUnavailable \/ Stopped \/ RecountFails \/ Finish
  BY <1>1, <1>7 DEF PrepareFails, PushUnavailable, PickUnavailable, Stopped, RecountFails, Finish,
                    Abort, End
<1>8. CASE \E c \in HardCodes : PickFails(c)
  BY <1>1, <1>8 DEF PickFails, Abort, End
<1>9. CASE EnterRound
  BY <1>1, <1>9 DEF EnterRound, Enter
<1> QED BY <1>3, <1>4, <1>5, <1>6, <1>7, <1>8, <1>9 DEF Unnoted

LEMMA InitTrail == TrailInit => TrailInv
<1> SUFFICES ASSUME TrailInit PROVE TrailInv
  OBVIOUS
<1>1. << >> \in Seq(Outcomes)
  OBVIOUS
<1>2. SkipInv /\ pc = "idle" /\ trail = [c \in Classes |-> << >>]
  BY InitSkips DEF TrailInit, Init
<1> QED BY <1>1, <1>2 DEF TrailInv, TrailType, RoundSane, HasBook

LEMMA NextTrail == TrailInv /\ [TrailNext]_trailVars => TrailInv'
<1> SUFFICES ASSUME TrailInv, [TrailNext]_trailVars PROVE TrailInv'
  OBVIOUS
<1>1. [Next]_vars /\ SkipInv /\ TypeOK /\ RoundSane
  BY TrailCases DEF TrailInv, SkipInv
<1>2. SkipInv' /\ RoundSane'
  BY <1>1, NextSkips, RoundStep
<1>3. Noted \/ ((Unnoted \/ UNCHANGED vars) /\ trail' = trail)
  BY DEF TrailNext, trailVars
<1> QED BY <1>2, <1>3, NotedStep, UnnotedStep DEF TrailInv

(* A class is given up exactly when one of its two budgets is used up, as  *)
(* the answers of the detector and of the gripper since its last nut count *)
(* them, whatever the detector and the robot answer.                       *)
THEOREM SkipsAreCorrect == TrailSpec => []SkippedForCause
<1>1. TrailInv => SkippedForCause
  <2> SUFFICES ASSUME TrailInv, HasBook PROVE SkippedForCause
    BY DEF SkippedForCause
  <2>1. TypeOK /\ Told(Current) /\ SkipsAreExhausted(Current)
    BY CurrentSkips DEF TrailInv, SkipInv, HasBook
  <2>2. Current \in Book /\ MaxDetectMisses \in Nat /\ MaxGraspFailures \in Nat
    BY <2>1, CurrentType, OrderBookAssumption
  <2>3. ASSUME NEW c \in Classes
        PROVE  LET unseen == Tally(trail[c], "unseen")
                   empty  == Tally(trail[c], "empty")
               IN  /\ unseen <= MaxDetectMisses /\ empty <= MaxGraspFailures
                   /\ c \in Current.skipped <=> unseen = MaxDetectMisses \/ empty = MaxGraspFailures
    <3>1. /\ Current.detectMisses[c] \in Nat /\ Current.graspFailures[c] \in Nat
          /\ Current.detectMisses[c] <= MaxDetectMisses /\ Current.graspFailures[c] <= MaxGraspFailures
          /\ Tally(trail[c], "unseen") = Current.detectMisses[c]
          /\ Tally(trail[c], "empty") = Current.graspFailures[c]
      BY <2>1, <2>2 DEF Told, Book
    <3>2. c \in Current.skipped <=> \/ Current.detectMisses[c] >= MaxDetectMisses
                                    \/ Current.graspFailures[c] >= MaxGraspFailures
      BY <2>1 DEF SkipsAreExhausted
    <3> QED BY <2>2, <3>1, <3>2
  <2> QED BY <2>3 DEF SkippedForCause
<1> QED BY <1>1, InitTrail, NextTrail, PTL DEF TrailSpec

-----------------------------------------------------------------------------
(* What a cycle delivers.                                                  *)

BeforeCount == { "fetch", "home", "initial" }

(* Nothing has moved before the first pick.                                *)
Untouched ==
  pc \in BeforeCount =>
    round = 0 /\ \A c \in Classes : tray[c] = 0 /\ lost[c] = 0

(* A recount belongs to a correction round.                                *)
RecountSane ==
  /\ pc \in {"verify", "recount"} => VerificationEnabled
  /\ pc = "recount" => round > 0

(* The count taken from home accounts for every nut from then on.          *)
Accounted ==
  (VerificationEnabled /\ pc \in Running \ BeforeCount) =>
    \A c \in Ranked : initial[c] = table[c] + tray[c] + lost[c]

(* What is delivered and what the current book still asks for stay         *)
(* together within the order.                                              *)
Within ==
  pc \notin {"idle", "recount"} =>
    \A c \in Classes : tray[c] + Clamp0(Current.counts[c]) <= Clamp0(ordered[c])

(* A round that found nothing missing was right, and stays right.          *)
Settled ==
  ( /\ round > 0 /\ pc # "recount"
    /\ pc # "idle" \/ result = "success"
    /\ shortage = NoCounts ) =>
      \A c \in Ranked : ordered[c] <= tray[c] + lost[c]

DeliveryInv ==
  /\ TypeOK /\ TargetOpen
  /\ Untouched /\ RecountSane /\ Accounted
  /\ Within /\ NoOverPick /\ Settled

-----------------------------------------------------------------------------
LEMMA RankedClasses == Ranked \subseteq Classes
BY OrderBookAssumption DEF Ranked

LEMMA ClampNat ==
  ASSUME NEW n \in Int
  PROVE  Clamp0(n) \in Nat /\ n <= Clamp0(n)
BY DEF Clamp0

(* With Blind = 0 a count shows the ranked classes as they are.            *)
LEMMA SeesAll ==
  ASSUME TypeOK, Blind = 0, NEW hidden \in Hidden, NEW c \in Classes
  PROVE  Count(hidden)[c] = IF c \in Ranked THEN table[c] ELSE 0
<1>1. hidden[c] = 0
  BY DEF Hidden
<1>2. table[c] \in Nat
  BY DEF TypeOK
<1>3. Clamp0(table[c] - 0) = table[c]
  BY <1>2 DEF Clamp0
<1> QED BY <1>1, <1>3 DEF Count

LEMMA DeliveryInit == Init => DeliveryInv
<1> SUFFICES ASSUME Init PROVE DeliveryInv
  OBVIOUS
<1>1. TypeOK
  BY InitType
<1>2. NoOverPick
  <2>1. \A c \in Classes : tray[c] = 0 /\ ordered[c] = 0
    BY DEF Init, NoCounts
  <2>2. 0 <= Clamp0(0)
    BY DEF Clamp0
  <2> QED BY <2>1, <2>2 DEF NoOverPick
<1>3. TargetOpen /\ Untouched /\ RecountSane /\ Accounted /\ Within /\ Settled
  BY DEF Init, TargetOpen, AtTarget, Untouched, BeforeCount, RecountSane,
     Accounted, Running, Within, Settled
<1> QED BY <1>1, <1>2, <1>3 DEF DeliveryInv

LEMMA UntouchedNext ==
  ASSUME DeliveryInv, [Next]_vars
  PROVE  Untouched' /\ RecountSane'
<1> USE DEF DeliveryInv, Untouched, RecountSane, BeforeCount
<1>1. CASE Start
  BY <1>1 DEF Start, NoCounts
<1>2. CASE Stop \/ UNCHANGED vars
  BY <1>2 DEF Stop, vars, codeVars, world
<1>3. CASE Prepare
  BY <1>3 DEF Prepare, FetchOrder, Fetch, GoHome, InitialCount, PrepareFails, Goto,
     Abort, End, cycle, world
<1>4. CASE Observe
  BY <1>4 DEF Observe, BeginIteration, DetectFails, Detected, NoCandidate, Goto,
     Enter
<1>5. CASE Push
  BY <1>5 DEF Push, SendPush, PushSucceeds, PushFails, PushUnavailable, Goto,
     Enter, Abort, End
<1>6. CASE Pick
  BY <1>6 DEF Pick, SendPick, PickSucceeds, DbUpdateInventory, UpdateInventory, GraspMissed, PickFails,
     PickUnavailable, Goto, Enter, Abort, End
<1>7. CASE Conclude
  <2>1. CASE EnterRound
    BY <2>1 DEF EnterRound, Enter, TypeOK
  <2> QED BY <1>7, <2>1 DEF Conclude, Stopped, BookDone, Recount, RecountFails,
             Finish, Goto, Abort, End
<1> QED BY <1>1, <1>2, <1>3, <1>4, <1>5, <1>6, <1>7 DEF Next, Work

(* Every step of the loop leaves the initial count alone and moves nuts    *)
(* without creating or destroying any.                                     *)
LEMMA AccountedNext ==
  ASSUME Blind = 0, DeliveryInv, [Next]_vars
  PROVE  Accounted'
<1> USE DEF DeliveryInv
<1>1. CASE Start \/ FetchOrder \/ PrepareFails
  BY <1>1 DEF Start, FetchOrder, Fetch, PrepareFails, Goto, Abort, End, Accounted,
     BeforeCount, Running
<1>2. CASE GoHome
  BY <1>2 DEF GoHome, Goto, Accounted, BeforeCount
<1>3. CASE InitialCount
  <2>1. PICK hidden \in Hidden : initial' = Count(hidden)
    BY <1>3 DEF InitialCount
  <2>2. ASSUME NEW c \in Ranked
        PROVE  initial'[c] = table'[c] + tray'[c] + lost'[c]
    <3>1. c \in Classes
      BY RankedClasses
    <3>2. initial'[c] = table[c]
      BY <2>1, <3>1, SeesAll
    <3>3. table[c] \in Nat /\ tray[c] = 0 /\ lost[c] = 0
      BY <1>3, <3>1 DEF InitialCount, Untouched, BeforeCount, TypeOK
    <3> QED BY <1>3, <3>2, <3>3 DEF InitialCount, world
  <2> QED BY <2>2 DEF Accounted
<1>4. CASE Moved /\ initial' = initial /\ pc \in Running \ BeforeCount
  <2>1. ASSUME VerificationEnabled, NEW c \in Ranked
        PROVE  initial'[c] = table'[c] + tray'[c] + lost'[c]
    BY <1>4, <2>1, RankedClasses, MovedConserves DEF Accounted
  <2> QED BY <2>1 DEF Accounted
<1>5. CASE Stop \/ UNCHANGED vars
  BY <1>5 DEF Stop, vars, codeVars, world, Accounted
<1>6. CASE Observe \/ Push
  <2>1. Moved /\ initial' = initial /\ pc \in Running \ BeforeCount
    BY <1>6 DEF Observe, BeginIteration, DetectFails, Detected, NoCandidate,
       Push, SendPush, PushSucceeds, PushFails, PushUnavailable, PushEffect,
       Moved, Undisturbed, loopConst, Running, BeforeCount
  <2> QED BY <2>1, <1>4
<1>7. CASE Pick
  <2>1. Moved
    BY <1>7 DEF Pick, SendPick, PickSucceeds, DbUpdateInventory, UpdateInventory, GraspMissed, PickFails,
       PickUnavailable, Moved, Undisturbed, TypeOK
  <2>2. initial' = initial /\ pc \in Running \ BeforeCount
    BY <1>7 DEF Pick, SendPick, PickSucceeds, DbUpdateInventory, UpdateInventory, GraspMissed, PickFails,
       PickUnavailable, loopConst, Running, BeforeCount
  <2> QED BY <2>1, <2>2, <1>4
<1>8. CASE Conclude
  <2>1. Moved /\ initial' = initial /\ pc \in Running \ BeforeCount
    BY <1>8 DEF Conclude, Stopped, BookDone, EnterRound, Recount, RecountFails,
       Finish, Moved, Undisturbed, loopConst, Running, BeforeCount
  <2> QED BY <2>1, <1>4
<1> QED BY <1>1, <1>2, <1>3, <1>5, <1>6, <1>7, <1>8 DEF Next, Work, Prepare

(* A delivery uses up one unit the current book still asked for.           *)
LEMMA OneDelivered ==
  ASSUME DeliveryInv, pc = "pick", NEW c \in Classes,
         Deliver(target) \/ Lose(target) \/ Undisturbed
  PROVE  tray'[c] <= tray[c] + (IF c = target /\ Current.counts[c] > 0 THEN 1 ELSE 0)
<1> USE DEF DeliveryInv
<1>1. Current.counts[target] > 0 /\ Current.counts[c] \in Int
  BY CurrentType DEF TargetOpen, AtTarget, Open, Book
<1> QED BY <1>1 DEF Deliver, Lose, Undisturbed, world, TypeOK

LEMMA NoOverPickNext ==
  ASSUME DeliveryInv, [Next]_vars
  PROVE  NoOverPick'
<1> USE DEF DeliveryInv
<1>1. CASE Start
  <2>1. \A c \in Classes : tray'[c] = 0 /\ ordered'[c] = 0
    BY <1>1 DEF Start, NoCounts
  <2> QED BY <2>1 DEF NoOverPick, Clamp0
<1>2. CASE FetchOrder
  <2>1. \A c \in Classes : tray'[c] = 0
    BY <1>2 DEF FetchOrder, Fetch, Untouched, BeforeCount, world
  <2>2. ordered' \in [Classes -> Int]
    BY <1>2, TaskManagerAssumption DEF FetchOrder, Fetch
  <2> QED BY <2>1, <2>2, ClampNat DEF NoOverPick
<1>3. CASE PickSucceeds \/ (\E c \in HardCodes : PickFails(c)) \/ PickUnavailable
  <2>1. /\ pc = "pick" /\ ordered' = ordered
        /\ Deliver(target) \/ Lose(target) \/ Undisturbed
    BY <1>3 DEF PickSucceeds, DbUpdateInventory, UpdateInventory, PickFails, PickUnavailable, loopConst
  <2> SUFFICES ASSUME NEW c \in Classes PROVE tray'[c] <= Clamp0(ordered[c])
    BY <2>1 DEF NoOverPick
  <2>2. tray'[c] <= tray[c] + (IF c = target /\ Current.counts[c] > 0 THEN 1 ELSE 0)
    BY <2>1, OneDelivered
  <2>3. tray[c] + Clamp0(Current.counts[c]) <= Clamp0(ordered[c])
    BY <2>1 DEF Within
  <2>4. /\ Current.counts[c] \in Int /\ ordered[c] \in Int
        /\ tray[c] \in Nat /\ tray'[c] \in Nat
    <3>1. tray' \in [Classes -> Nat]
      BY <2>1, MovedType DEF Moved, TypeOK
    <3> QED BY <3>1, CurrentType DEF Book, TypeOK
  <2> QED BY <2>2, <2>3, <2>4 DEF Clamp0
<1>4. CASE tray' = tray /\ ordered' = ordered
  BY <1>4 DEF NoOverPick
<1>5. CASE Stop \/ UNCHANGED vars
  BY <1>4, <1>5 DEF Stop, vars, codeVars, world
<1>6. CASE GoHome \/ InitialCount \/ PrepareFails
  BY <1>4, <1>6 DEF GoHome, InitialCount, PrepareFails, world
<1>7. CASE Observe
  BY <1>4, <1>7 DEF Observe, BeginIteration, DetectFails, Detected, NoCandidate,
     loopConst, world
<1>8. CASE Push
  BY <1>4, <1>8 DEF Push, SendPush, PushSucceeds, PushFails, PushUnavailable,
     PushEffect, Undisturbed, Lose, loopConst, world
<1>9. CASE SendPick \/ GraspMissed
  BY <1>4, <1>9 DEF SendPick, GraspMissed, loopConst, world
<1>10. CASE Conclude
  BY <1>4, <1>10 DEF Conclude, Stopped, BookDone, EnterRound, Recount,
     RecountFails, Finish, loopConst, world
<1> QED BY <1>1, <1>2, <1>3, <1>5, <1>6, <1>7, <1>8, <1>9, <1>10
        DEF Next, Work, Prepare, Pick

(* What a recount asks for again fits into what is left of the order.      *)
LEMMA RecountWithin ==
  ASSUME Blind = 0, DeliveryInv, Recount
  PROVE  \A c \in Classes :
           tray'[c] + Clamp0(Current'.counts[c]) <= Clamp0(ordered'[c])
<1> USE DEF DeliveryInv
<1>1. PICK hidden \in Hidden :
        correction' = NewBook(Remaining(ordered, initial, Count(hidden)))
  BY DEF Recount
<1>2. /\ pc = "recount" /\ VerificationEnabled
      /\ Current' = correction'
      /\ ordered' = ordered /\ tray' = tray
  BY DEF Recount, RecountSane, Current, world, TypeOK
<1> SUFFICES ASSUME NEW c \in Classes
             PROVE  tray[c] + Clamp0(Current'.counts[c]) <= Clamp0(ordered[c])
  BY <1>2
<1>3. /\ table[c] \in Nat /\ tray[c] \in Nat /\ lost[c] \in Nat
      /\ ordered[c] \in Int /\ initial[c] \in Nat
  BY DEF TypeOK
<1>4. tray[c] <= Clamp0(ordered[c])
  BY DEF NoOverPick
<1>5. CASE c \in Ranked
  <2>1. Count(hidden)[c] = table[c]
    BY <1>5, SeesAll
  <2>2. initial[c] = table[c] + tray[c] + lost[c]
    BY <1>2, <1>5 DEF Accounted, Running, BeforeCount
  <2>3. Current'.counts[c] = RemainingOf(ordered[c], initial[c], table[c])
    BY <1>1, <1>2, <1>5, <2>1 DEF NewBook, Remaining
  <2> DEFINE r == RemainingOf(ordered[c], initial[c], table[c])
  <2>4. /\ r \in Nat
        /\ \/ r = 0
           \/ r + (Clamp0(initial[c]) - Clamp0(table[c])) <= Clamp0(ordered[c])
    <3>1. ordered[c] \in Int /\ initial[c] \in Int /\ table[c] \in Int
      BY <1>3
    <3> QED BY <3>1, RemainingBounds, Zenon
  <2>5. Clamp0(initial[c]) - Clamp0(table[c]) = tray[c] + lost[c]
    BY <1>3, <2>2 DEF Clamp0
  <2>6. Clamp0(r) = r /\ Clamp0(ordered[c]) \in Nat
    BY <1>3, <2>4, ClampNat DEF Clamp0
  <2> HIDE DEF r
  <2>7. tray[c] + r <= Clamp0(ordered[c])
    BY <1>3, <1>4, <2>4, <2>5, <2>6
  <2> QED BY <2>3, <2>6, <2>7 DEF r
<1>6. CASE c \notin Ranked
  <2>1. Current'.counts[c] = 0
    BY <1>1, <1>2, <1>6 DEF NewBook, Remaining
  <2> QED BY <1>3, <1>4, <2>1 DEF Clamp0
<1> QED BY <1>5, <1>6

LEMMA WithinNext ==
  ASSUME Blind = 0, DeliveryInv, [Next]_vars
  PROVE  Within'
<1> USE DEF DeliveryInv
<1>1. CASE Start
  <2>1. ASSUME NEW c \in Classes
        PROVE  tray'[c] = 0 /\ Current'.counts[c] = 0 /\ ordered'[c] = 0
    BY <1>1 DEF Start, NoCounts, Current, EmptyBook, NewBook
  <2>2. 0 + Clamp0(0) <= Clamp0(0)
    BY DEF Clamp0
  <2> QED BY <2>1, <2>2 DEF Within
<1>2. CASE FetchOrder
  <2>1. PICK counts \in Orders : order' = NewBook(counts) /\ ordered' = counts
    BY <1>2 DEF FetchOrder, Fetch
  <2>2. /\ Current' = order' /\ \A c \in Classes : tray'[c] = 0
        /\ counts \in [Classes -> Int]
    BY <1>2, TaskManagerAssumption
       DEF FetchOrder, Fetch, cycle, world, Current, Untouched, BeforeCount
  <2>3. ASSUME NEW c \in Classes
        PROVE  tray'[c] + Clamp0(Current'.counts[c]) <= Clamp0(ordered'[c])
    <3>1. Current'.counts[c] = ordered'[c] /\ ordered'[c] \in Int
      BY <2>1, <2>2 DEF NewBook
    <3>2. Clamp0(ordered'[c]) \in Nat
      BY <3>1, ClampNat
    <3> QED BY <2>2, <3>1, <3>2
  <2> QED BY <2>3 DEF Within
<1>3. CASE Recount
  BY <1>3, RecountWithin DEF Within
<1>4. CASE PickSucceeds
  <2>1. /\ pc = "pick" /\ ordered' = ordered /\ round' = round
        /\ Deliver(target) \/ Lose(target) \/ Undisturbed
        /\ SetCurrent(ConsumeOne(Current, target))
    BY <1>4 DEF PickSucceeds, DbUpdateInventory, UpdateInventory, loopConst
  <2>2. Current' = ConsumeOne(Current, target)
    BY <2>1, SetCurrentEffect
  <2>3. ASSUME NEW c \in Classes
        PROVE  tray'[c] + Clamp0(Current'.counts[c]) <= Clamp0(ordered[c])
    <3>1. Current'.counts[c] = IF c = target /\ Current.counts[c] > 0
                                 THEN Current.counts[c] - 1 ELSE Current.counts[c]
      BY <2>2, CurrentType, ConsumeEffect DEF TypeOK
    <3>2. tray'[c] <= tray[c] + (IF c = target /\ Current.counts[c] > 0
                                   THEN 1 ELSE 0)
      BY <2>1, OneDelivered
    <3>3. tray[c] + Clamp0(Current.counts[c]) <= Clamp0(ordered[c])
      BY <2>1 DEF Within
    <3>4. /\ Current.counts[c] \in Int /\ ordered[c] \in Int
          /\ tray[c] \in Nat /\ tray'[c] \in Nat
      <4>1. tray' \in [Classes -> Nat]
        BY <2>1, MovedType DEF Moved, TypeOK
      <4> QED BY <4>1, CurrentType DEF Book, TypeOK
    <3> QED BY <3>1, <3>2, <3>3, <3>4 DEF Clamp0
  <2> QED BY <2>1, <2>3 DEF Within
<1>5. CASE /\ pc \notin {"idle", "recount"}
           /\ tray' = tray /\ ordered' = ordered
           /\ Current'.counts = Current.counts
  BY <1>5 DEF Within
<1>6. CASE DetectFails \/ NoCandidate
  <2>1. Current' = AfterDetectMiss(Current, target)
    BY <1>6, SetCurrentEffect DEF DetectFails, NoCandidate, loopConst
  <2>2. Current'.counts = Current.counts
    BY <2>1, CurrentType, DetectMissEffect DEF TypeOK
  <2> QED BY <1>5, <1>6, <2>2 DEF DetectFails, NoCandidate, loopConst, world
<1>7. CASE GraspMissed
  <2>1. Current' = AfterPickFailure(Current, target, GraspNotDetected)
    BY <1>7, SetCurrentEffect DEF GraspMissed, loopConst
  <2>2. Current'.counts = Current.counts
    <3>1. Current \in Book /\ target \in Classes
      BY CurrentType DEF TypeOK
    <3>2. AfterPickFailure(Current, target, GraspNotDetected).counts = Current.counts
      BY <3>1, PickFailureEffect, Zenon
    <3> QED BY <2>1, <3>2
  <2> QED BY <1>5, <1>7, <2>2 DEF GraspMissed, loopConst, world
<1>8. CASE GoHome \/ InitialCount
  <2>1. Current' = Current
    BY <1>8, SameCurrent DEF GoHome, InitialCount, cycle
  <2> QED BY <1>5, <1>8, <2>1 DEF GoHome, InitialCount, world
<1>9. CASE BeginIteration \/ Detected \/ SendPush \/ SendPick
  <2>1. Current' = Current
    BY <1>9, SameCurrent DEF BeginIteration, Detected, SendPush, SendPick, loopConst
  <2> QED BY <1>5, <1>9, <2>1
          DEF BeginIteration, Detected, SendPush, SendPick, loopConst, world
<1>10. CASE PushSucceeds \/ PushFails \/ BookDone
  <2>1. Current' = Current
    BY <1>10, SameCurrent DEF PushSucceeds, PushFails, BookDone, loopConst
  <2> QED BY <1>5, <1>10, <2>1 DEF PushSucceeds, PushFails, BookDone, PushEffect,
             Undisturbed, Lose, loopConst, world
<1>11. CASE Stop \/ UNCHANGED vars
  <2>1. Current' = Current
    BY <1>11, SameCurrent DEF Stop, vars, codeVars
  <2> QED BY <1>11, <2>1 DEF Stop, vars, codeVars, world, Within
<1>12. CASE PrepareFails \/ PushUnavailable \/ PickUnavailable
              \/ (\E c \in HardCodes : PickFails(c)) \/ Stopped \/ EnterRound
              \/ RecountFails \/ Finish
  BY <1>12 DEF PrepareFails, PushUnavailable, PickUnavailable, PickFails, Stopped,
     EnterRound, RecountFails, Finish, Enter, Abort, End, Within
<1> QED BY <1>1, <1>2, <1>3, <1>4, <1>6, <1>7, <1>8, <1>9, <1>10, <1>11, <1>12
        DEF Next, Work, Prepare, Observe, Push, Pick, Conclude

LEMMA SettledNext ==
  ASSUME Blind = 0, DeliveryInv, [Next]_vars
  PROVE  Settled'
<1> USE DEF DeliveryInv
<1>1. CASE Start
  BY <1>1 DEF Start, Settled
<1>2. CASE Prepare
  <2>1. CASE PrepareFails
    BY <2>1 DEF PrepareFails, Abort, End, Settled
  <2>2. CASE FetchOrder \/ GoHome \/ InitialCount
    <3>1. round' = 0
      BY <2>2 DEF FetchOrder, Fetch, GoHome, InitialCount, cycle, Untouched, BeforeCount
    <3> QED BY <3>1 DEF Settled
  <2> QED BY <1>2, <2>1, <2>2 DEF Prepare
<1>3. CASE Recount
  <2>1. PICK hidden \in Hidden :
          shortage' = Missing(ordered, initial, Count(hidden))
    BY <1>3 DEF Recount
  <2>2. /\ pc = "recount" /\ VerificationEnabled
        /\ ordered' = ordered /\ tray' = tray /\ lost' = lost
    BY <1>3 DEF Recount, RecountSane, world
  <2>3. ASSUME shortage' = NoCounts, NEW c \in Ranked
        PROVE  ordered[c] <= tray[c] + lost[c]
    <3>1. /\ c \in Classes
          /\ table[c] \in Nat /\ tray[c] \in Nat /\ lost[c] \in Nat
          /\ ordered[c] \in Int /\ initial[c] \in Nat
      BY RankedClasses DEF TypeOK
    <3>2. Count(hidden)[c] = table[c]
      BY <3>1, SeesAll
    <3>3. initial[c] = table[c] + tray[c] + lost[c]
      BY <2>2 DEF Accounted, Running, BeforeCount
    <3>4. MissingOf(ordered[c], initial[c], table[c]) = 0
      BY <2>1, <2>3, <3>1, <3>2 DEF Missing, NoCounts
    <3> QED BY <3>1, <3>3, <3>4 DEF MissingOf, Clamp0
  <2> QED BY <2>2, <2>3 DEF Settled
<1>4. CASE EnterRound
  BY <1>4 DEF EnterRound, Enter, Settled
<1>5. CASE /\ pc \notin {"idle", "recount"} /\ Moved
           /\ UNCHANGED << round, shortage, ordered >>
  <2>1. ASSUME round > 0, shortage = NoCounts, NEW c \in Ranked
        PROVE  ordered[c] <= tray'[c] + lost'[c]
    <3>1. /\ c \in Classes
          /\ tray'[c] \in Nat /\ lost'[c] \in Nat
          /\ tray[c] \in Nat /\ lost[c] \in Nat /\ ordered[c] \in Int
      BY <1>5, MovedType, RankedClasses DEF TypeOK
    <3>2. ordered[c] <= tray[c] + lost[c]
      BY <1>5, <2>1 DEF Settled
    <3>3. tray[c] + lost[c] <= tray'[c] + lost'[c]
      BY <1>5, <3>1, MovedConserves
    <3> QED BY <3>1, <3>2, <3>3
  <2> QED BY <1>5, <2>1 DEF Settled
<1>6. CASE Observe \/ Push
  <2>1. /\ pc \notin {"idle", "recount"} /\ Moved
        /\ UNCHANGED << round, shortage, ordered >>
    BY <1>6 DEF Observe, BeginIteration, DetectFails, Detected, NoCandidate,
       Push, SendPush, PushSucceeds, PushFails, PushUnavailable, PushEffect,
       Moved, Undisturbed, loopConst
  <2> QED BY <1>5, <2>1
<1>7. CASE Pick
  <2>1. Moved
    BY <1>7 DEF Pick, SendPick, PickSucceeds, DbUpdateInventory, UpdateInventory, GraspMissed, PickFails,
       PickUnavailable, Moved, Undisturbed, TypeOK
  <2>2. /\ pc \notin {"idle", "recount"}
        /\ UNCHANGED << round, shortage, ordered >>
    BY <1>7 DEF Pick, SendPick, PickSucceeds, DbUpdateInventory, UpdateInventory, GraspMissed, PickFails,
       PickUnavailable, loopConst
  <2> QED BY <1>5, <2>1, <2>2
<1>8. CASE RecountFails
  BY <1>8 DEF RecountFails, Abort, End, Settled
<1>9. CASE Stopped \/ BookDone \/ Finish
  <2>1. /\ pc \notin {"idle", "recount"} /\ Moved
        /\ UNCHANGED << round, shortage, ordered >>
    BY <1>9 DEF Stopped, BookDone, Finish, Moved, Undisturbed, loopConst
  <2> QED BY <1>5, <2>1
<1>10. CASE Stop \/ UNCHANGED vars
  BY <1>10 DEF Stop, vars, codeVars, world, Settled
<1> QED BY <1>1, <1>2, <1>3, <1>4, <1>6, <1>7, <1>8, <1>9, <1>10
        DEF Next, Work, Conclude

LEMMA DeliveryNext == Blind = 0 /\ DeliveryInv /\ [Next]_vars => DeliveryInv'
<1> SUFFICES ASSUME Blind = 0, DeliveryInv, [Next]_vars PROVE DeliveryInv'
  OBVIOUS
<1>1. TypeOK' /\ TargetOpen'
  BY NextType, TargetOpenNext DEF DeliveryInv
<1> QED BY <1>1, UntouchedNext, AccountedNext, WithinNext, NoOverPickNext,
           SettledNext DEF DeliveryInv

(* Whatever drops, retries, pushes and correction rounds a cycle goes      *)
(* through, it delivers no more of a class than was ordered, as long as a  *)
(* detection sees every nut.                                               *)
THEOREM NeverOverPicks ==
  ASSUME Blind = 0
  PROVE  Spec => []NoOverPick
<1>1. DeliveryInv => NoOverPick
  BY DEF DeliveryInv
<1>2. DeliveryInv /\ [Next]_vars => DeliveryInv'
  BY DeliveryNext
<1> QED BY <1>1, <1>2, DeliveryInit, PTL DEF Spec

(* A cycle whose last recount missed nothing and that reports success has  *)
(* moved everything that was ordered off the table.                        *)
THEOREM SuccessIsVerified ==
  ASSUME Blind = 0
  PROVE  Spec => []VerifiedSuccess
<1>1. DeliveryInv => VerifiedSuccess \/ pc = "recount"
  BY DEF DeliveryInv, Settled, VerifiedSuccess
<1>2. DeliveryInv /\ [Next]_vars => DeliveryInv'
  BY DeliveryNext
<1> DEFINE ResultOpen == pc # "idle" => result = "none"
<1>3. Init => ResultOpen
  BY DEF Init
<1>4. ResultOpen /\ [Next]_vars => ResultOpen'
  BY DEF Next, Work, Prepare, Observe, Push, Pick, Conclude, Start, Stop,
     FetchOrder, Fetch, GoHome, InitialCount, PrepareFails, BeginIteration,
     DetectFails, Detected, NoCandidate, SendPush, PushSucceeds, PushFails,
     PushUnavailable, SendPick, PickSucceeds, DbUpdateInventory, UpdateInventory, GraspMissed, PickFails,
     PickUnavailable, Stopped, BookDone, EnterRound, Recount, RecountFails,
     Finish, Goto, Enter, Abort, End, vars, codeVars
<1>5. DeliveryInv /\ ResultOpen => VerifiedSuccess
  BY <1>1 DEF VerifiedSuccess
<1> HIDE DEF ResultOpen
<1> QED BY <1>2, <1>3, <1>4, <1>5, DeliveryInit, PTL DEF Spec

-----------------------------------------------------------------------------
(* Stock.                                                                  *)

(* While a cycle runs, and after it ended in DONE, every delivered nut has *)
(* been deducted; only an aborted or a stopped cycle may be behind.        *)
DeductInv ==
  /\ TypeOK
  /\ (pc # "idle" \/ status = "done") => \A c \in Classes : tray[c] <= deducted[c]

LEMMA DeductNext == ~DbMayFail /\ DeductInv /\ [Next]_vars => DeductInv'
<1> SUFFICES ASSUME ~DbMayFail, DeductInv, [Next]_vars,
                    (pc # "idle" \/ status = "done")'
             PROVE  \A c \in Classes : tray'[c] <= deducted'[c]
  BY NextType DEF DeductInv
<1> USE DEF DeductInv
<1>1. CASE Start
  BY <1>1 DEF Start, NoCounts
<1>2. CASE PickSucceeds
  <2>1. /\ \A c \in Classes : tray[c] <= deducted[c]
        /\ deducted' = [deducted EXCEPT ![target] = @ + 1]
        /\ Deliver(target) \/ Lose(target) \/ Undisturbed
    BY <1>2 DEF PickSucceeds, DbUpdateInventory, UpdateInventory
  <2> QED BY <2>1 DEF Deliver, Lose, Undisturbed, world, TypeOK
<1>3. CASE pc # "idle" /\ tray' = tray /\ deducted' = deducted
  BY <1>3
<1>4. CASE Stop \/ UNCHANGED vars
  BY <1>4 DEF Stop, vars, codeVars, world
<1>5. CASE Prepare
  BY <1>3, <1>5 DEF Prepare, FetchOrder, Fetch, GoHome, InitialCount, PrepareFails,
     cycle, world
<1>6. CASE Observe
  BY <1>3, <1>6 DEF Observe, BeginIteration, DetectFails, Detected, NoCandidate,
     world
<1>7. CASE Push
  BY <1>3, <1>7 DEF Push, SendPush, PushSucceeds, PushFails, PushUnavailable,
     PushEffect, Undisturbed, Lose, world
<1>8. CASE SendPick \/ GraspMissed
  BY <1>3, <1>8 DEF SendPick, GraspMissed, world
<1>9. CASE PickUnavailable \/ \E c \in HardCodes : PickFails(c)
  BY <1>9 DEF PickUnavailable, PickFails, Abort, End
<1>10. CASE Conclude
  BY <1>3, <1>10 DEF Conclude, Stopped, BookDone, EnterRound, Recount,
     RecountFails, Finish, loopConst, world
<1> QED BY <1>1, <1>2, <1>4, <1>5, <1>6, <1>7, <1>8, <1>9, <1>10
        DEF Next, Work, Pick

(* When no database write is lost, a cycle that ended in DONE has deducted *)
(* every nut it delivered from stock.                                      *)
THEOREM StockIsDeducted ==
  ASSUME ~DbMayFail
  PROVE  Spec => []DeliveredIsDeducted
<1>1. Init => DeductInv
  BY InitType DEF Init, DeductInv
<1>2. DeductInv => DeliveredIsDeducted
  BY DEF DeductInv, DeliveredIsDeducted
<1>3. DeductInv /\ [Next]_vars => DeductInv'
  BY DeductNext
<1> QED BY <1>1, <1>2, <1>3, PTL DEF Spec

-----------------------------------------------------------------------------
(* The worker keeps the promise of Fulfilment, step by step.               *)

(* Nothing is ordered before the order is fetched.                         *)
Unlearned == pc = "fetch" => ordered = NoCounts

LEMMA UnlearnedNext ==
  ASSUME Unlearned, [Next]_vars
  PROVE  Unlearned'
<1> USE DEF Unlearned
<1>1. CASE Start \/ Stop \/ UNCHANGED vars
  BY <1>1 DEF Start, Stop, vars, codeVars
<1>2. CASE Work
  <2>1. pc' # "fetch"
    BY <1>2 DEF Work, Prepare, Observe, Push, Pick, Conclude,
       FetchOrder, Fetch, GoHome, InitialCount, PrepareFails, BeginIteration,
       DetectFails, Detected, NoCandidate, SendPush, PushSucceeds, PushFails,
       PushUnavailable, SendPick, PickSucceeds, GraspMissed, PickFails,
       PickUnavailable, Stopped, BookDone, EnterRound, Recount, RecountFails,
       Finish, Goto, Enter, Abort, End
  <2> QED BY <2>1
<1> QED BY <1>1, <1>2 DEF Next

LEMMA WantNothing ==
  ASSUME ordered = NoCounts
  PROVE  [c \in Classes |-> Clamp0(ordered[c])] = F!None
<1>1. Clamp0(0) = 0
  BY DEF Clamp0
<1> QED BY <1>1 DEF NoCounts, F!None

(* A step of the worker that keeps the order maps to Serve.                *)
LEMMA ServeStep ==
  ASSUME TypeOK, pc # "idle", ordered' = ordered,
         \/ tray' = tray
         \/ \E c \in Classes : tray[c] < Clamp0(ordered[c])
                               /\ tray' = [tray EXCEPT ![c] = @ + 1],
         \/ pc' = "idle" /\ result' \in {"success", "failure"}
         \/ pc' # "idle" /\ result' = result
  PROVE  F!Serve
BY DEF F!Serve, F!DeliverOne, F!Close

LEMMA PickServes ==
  ASSUME DeliveryInv, pc = "pick", Deliver(target) \/ Lose(target) \/ Undisturbed
  PROVE  \/ tray' = tray
         \/ \E c \in Classes : tray[c] < Clamp0(ordered[c])
                               /\ tray' = [tray EXCEPT ![c] = @ + 1]
<1> USE DEF DeliveryInv
<1>1. CASE Deliver(target)
  <2>1. target \in Classes /\ Current.counts[target] > 0 /\ Current.counts[target] \in Int
    BY CurrentType DEF TargetOpen, AtTarget, Open, Book, TypeOK
  <2>2. tray[target] + Clamp0(Current.counts[target]) <= Clamp0(ordered[target])
    BY <2>1 DEF Within
  <2>3. tray[target] \in Nat /\ ordered[target] \in Int
    BY <2>1 DEF TypeOK
  <2>4. tray[target] < Clamp0(ordered[target])
    BY <2>1, <2>2, <2>3 DEF Clamp0
  <2> QED BY <1>1, <2>1, <2>4 DEF Deliver
<1> QED BY <1>1 DEF Lose, Undisturbed, world

LEMMA StepRefines ==
  ASSUME DeliveryInv, Unlearned, [Next]_vars
  PROVE  [F!Next]_(F!vars)
<1> USE DEF DeliveryInv
<1>1. CASE Start
  <2>1. [c \in Classes |-> Clamp0(ordered'[c])] = F!None
    BY <1>1, ClampNat DEF Start, NoCounts, F!None, Clamp0
  <2>2. tray' = F!None
    BY <1>1 DEF Start, NoCounts, F!None
  <2>3. F!Accept
    BY <1>1, <2>1, <2>2 DEF Start, F!Accept
  <2> QED BY <2>3 DEF F!Next
<1>2. CASE FetchOrder
  <2>1. pc = "fetch" /\ pc' = "home" /\ result' = result /\ tray' = tray
    BY <1>2 DEF FetchOrder, Goto, world
  <2>2. tray = F!None
    <3>1. \A c \in Classes : tray[c] = 0
      BY <2>1 DEF Untouched, BeforeCount
    <3> QED BY <3>1 DEF TypeOK, F!None
  <2>3. [c \in Classes |-> Clamp0(ordered[c])] = F!None
    BY <2>1, WantNothing DEF Unlearned
  <2>4. ordered' \in [Classes -> Int]
    BY <1>2, TaskManagerAssumption DEF FetchOrder, Fetch
  <2>5. [c \in Classes |-> Clamp0(ordered'[c])] \in [Classes -> Nat]
    BY <2>4, ClampNat
  <2>6. F!LearnOrder
    BY <2>1, <2>2, <2>3, <2>5 DEF F!LearnOrder
  <2> QED BY <2>6 DEF F!Next
<1>3. CASE Stop \/ UNCHANGED vars
  BY <1>3 DEF Stop, vars, codeVars, world, F!vars
<1>4. CASE GoHome \/ InitialCount \/ PrepareFails
  <2>1. F!Serve
    BY <1>4, ServeStep DEF GoHome, InitialCount, PrepareFails, Goto, Abort, End, world
  <2> QED BY <2>1 DEF F!Next
<1>5. CASE Observe
  <2>1. F!Serve
    BY <1>5, ServeStep DEF Observe, BeginIteration, DetectFails, Detected, NoCandidate,
       Goto, Enter, loopConst, world
  <2> QED BY <2>1 DEF F!Next
<1>6. CASE Push
  <2>1. F!Serve
    BY <1>6, ServeStep DEF Push, SendPush, PushSucceeds, PushFails, PushUnavailable,
       PushEffect, Undisturbed, Lose, Goto, Enter, Abort, End, loopConst, world
  <2> QED BY <2>1 DEF F!Next
<1>7. CASE SendPick \/ GraspMissed
  <2>1. F!Serve
    BY <1>7, ServeStep DEF SendPick, GraspMissed, Goto, Enter, loopConst, world
  <2> QED BY <2>1 DEF F!Next
<1>8. CASE PickSucceeds \/ (\E c \in HardCodes : PickFails(c)) \/ PickUnavailable
  <2>1. /\ pc = "pick" /\ ordered' = ordered
        /\ Deliver(target) \/ Lose(target) \/ Undisturbed
        /\ \/ pc' = "idle" /\ result' = "failure"
           \/ pc' = "loop" /\ result' = result
    BY <1>8 DEF PickSucceeds, PickFails, PickUnavailable, Goto, Abort, End, loopConst
  <2>2. F!Serve
    BY <2>1, PickServes, ServeStep
  <2> QED BY <2>2 DEF F!Next
<1>9. CASE Conclude
  <2>1. /\ pc # "idle" /\ ordered' = ordered /\ tray' = tray
    BY <1>9 DEF Conclude, Stopped, BookDone, EnterRound, Recount, RecountFails, Finish,
       loopConst, world
  <2>2. \/ pc' = "idle" /\ result' \in {"success", "failure"}
        \/ pc' # "idle" /\ result' = result
    BY <1>9 DEF Conclude, Stopped, BookDone, EnterRound, Recount, RecountFails, Finish,
       Goto, Enter, Abort, End
  <2>3. F!Serve
    BY <2>1, <2>2, ServeStep
  <2> QED BY <2>3 DEF F!Next
<1> QED BY <1>1, <1>2, <1>3, <1>4, <1>5, <1>6, <1>7, <1>8, <1>9
        DEF Next, Work, Prepare, Pick

(* Seen from outside, a cycle is one order accepted, filled within its     *)
(* bounds and closed with one verdict: every step of the worker is a step  *)
(* of Fulfilment or leaves its state alone, as long as a detection sees    *)
(* every nut.  That a cycle ends is the part of FulfilsOrders not proved.  *)
THEOREM WorkerImplementsFulfilment ==
  ASSUME Blind = 0
  PROVE  Spec => F!Init /\ [][F!Next]_(F!vars)
<1>1. Init => F!Init
  BY WantNothing DEF Init, NoCounts, F!Init, F!None
<1>2. Init => Unlearned
  BY DEF Init, Unlearned
<1>3. Unlearned /\ [Next]_vars => Unlearned'
  BY UnlearnedNext
<1>4. DeliveryInv /\ [Next]_vars => DeliveryInv'
  BY DeliveryNext
<1>5. DeliveryInv /\ Unlearned /\ [Next]_vars => [F!Next]_(F!vars)
  BY StepRefines
<1> QED BY <1>1, <1>2, <1>3, <1>4, <1>5, DeliveryInit, PTL DEF Spec

(* With the one thing the run shows and no proof does, that every cycle    *)
(* ends, this is the whole of the abstract specification.                  *)
THEOREM EndingCyclesFulfil ==
  ASSUME Blind = 0
  PROVE  Spec /\ CycleEnds => FulfilsOrders
<1>1. (pc # "idle") <=> ~(pc = "idle")
  OBVIOUS
<1> QED BY <1>1, WorkerImplementsFulfilment, PTL DEF CycleEnds, FulfilsOrders, F!Spec
=============================================================================
