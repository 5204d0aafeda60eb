--------------------------- MODULE ReceiptNumber ---------------------------
(***************************************************************************)
(* The receipt of a checkout: the last two statements of its transaction   *)
(* before COMMIT.  GenerateReceiptNumber counts the committed receipts of  *)
(* CURRENT_DATE, which is the day the transaction began by the database's  *)
(* clock, and prefixes the next serial with the day of time.Now(), by the  *)
(* server's clock.  InsertReceipt meets the unique index on                *)
(* receipt_number: it waits for an uncommitted receipt with the same       *)
(* number and fails on a committed one, and then the checkout rolls back.  *)
(***************************************************************************)
EXTENDS Integers, FiniteSets

CONSTANTS
  Checkouts,     \* the checkouts, each run once
  LastDay,       \* the days are 0..LastDay
  MaxApart       \* how many days apart the two calendars may be

ASSUME DaysAssumption == LastDay \in Nat /\ MaxApart \in Nat \ {0}

Days == 0..LastDay
Number == [day : Days, serial : Nat \ {0}]
NoNumber == [day |-> 0, serial |-> 0]
Receipt == [checkout : Checkouts, day : Days, number : Number]

VARIABLES
  dbDay,         \* today by the database's clock
  appDay,        \* today by the server's clock
  pc,            \* the statement each checkout runs next, or how it ended
  began,         \* the database's day when its transaction began
  number,        \* the number it generated
  tallied,       \* history: the receipts it counted for that
  receipts       \* the committed rows of receipts

vars == <<dbDay, appDay, pc, began, number, tallied, receipts>>

InFlight == {"begun", "numbered", "inserted"}
Ended == {"committed", "collided", "failed"}

Issued == {x.number : x \in receipts}
ReceiptsOf(d) == {x \in receipts : x.day = d}
CountOf(d) == Cardinality(ReceiptsOf(d))
-----------------------------------------------------------------------------
Init ==
  /\ dbDay = 0
  /\ appDay = 0
  /\ pc = [c \in Checkouts |-> "idle"]
  /\ began = [c \in Checkouts |-> 0]
  /\ number = [c \in Checkouts |-> NoNumber]
  /\ tallied = [c \in Checkouts |-> {}]
  /\ receipts = {}

Begin(c) ==
  /\ pc[c] = "idle"
  /\ pc' = [pc EXCEPT ![c] = "begun"]
  /\ began' = [began EXCEPT ![c] = dbDay]
  /\ UNCHANGED <<dbDay, appDay, number, tallied, receipts>>

\* Mutant: the serial leaves room for the checkouts that are under way.
GenerateAhead(c) ==
  /\ pc[c] = "begun"
  /\ pc' = [pc EXCEPT ![c] = "numbered"]
  /\ number' = [number EXCEPT ![c] =
        [day |-> appDay,
         serial |-> CountOf(began[c]) + Cardinality({b \in Checkouts : pc[b] \in InFlight})]]
  /\ tallied' = [tallied EXCEPT ![c] = ReceiptsOf(began[c])]
  /\ UNCHANGED <<dbDay, appDay, began, receipts>>

\* SELECT COUNT(*) sees what is committed when it runs.
GenerateReceiptNumber(c) ==
  /\ pc[c] = "begun"
  /\ pc' = [pc EXCEPT ![c] = "numbered"]
  /\ number' = [number EXCEPT ![c] =
                   [day |-> appDay, serial |-> CountOf(began[c]) + 1]]
  /\ tallied' = [tallied EXCEPT ![c] = ReceiptsOf(began[c])]
  /\ UNCHANGED <<dbDay, appDay, began, receipts>>

\* Mutant: receipt_number is not unique.
InsertAny(c) ==
  /\ pc[c] = "numbered"
  /\ pc' = [pc EXCEPT ![c] = "inserted"]
  /\ UNCHANGED <<dbDay, appDay, began, number, tallied, receipts>>

\* Mutant: a checkout gives way to every other that has generated its number.
InsertYields(c) ==
  /\ pc[c] = "numbered"
  /\ \A b \in Checkouts \ {c} : pc[b] \in {"numbered", "inserted"} => number[b] # number[c]
  /\ pc' = [pc EXCEPT ![c] = IF number[c] \in Issued THEN "collided" ELSE "inserted"]
  /\ UNCHANGED <<dbDay, appDay, began, number, tallied, receipts>>

InsertReceipt(c) ==
  /\ pc[c] = "numbered"
  /\ \A b \in Checkouts : pc[b] = "inserted" => number[b] # number[c]
  /\ pc' = [pc EXCEPT ![c] = IF number[c] \in Issued THEN "collided" ELSE "inserted"]
  /\ UNCHANGED <<dbDay, appDay, began, number, tallied, receipts>>

\* Mutant: created_at is the time of the insertion.
CommitDatedNow(c) ==
  /\ pc[c] = "inserted"
  /\ pc' = [pc EXCEPT ![c] = "committed"]
  /\ receipts' = receipts \cup
                 {[checkout |-> c, day |-> dbDay, number |-> number[c]]}
  /\ UNCHANGED <<dbDay, appDay, began, number, tallied>>

\* created_at defaults to the time the transaction began.
Commit(c) ==
  /\ pc[c] = "inserted"
  /\ pc' = [pc EXCEPT ![c] = "committed"]
  /\ receipts' = receipts \cup
                 {[checkout |-> c, day |-> began[c], number |-> number[c]]}
  /\ UNCHANGED <<dbDay, appDay, began, number, tallied>>

\* The checkout fails for a reason of its own and rolls back.
Abort(c) ==
  /\ pc[c] \in InFlight
  /\ pc' = [pc EXCEPT ![c] = "failed"]
  /\ UNCHANGED <<dbDay, appDay, began, number, tallied, receipts>>

\* Midnight, for the server and for the database: whichever clock is ahead.
AppMidnight ==
  /\ appDay < LastDay /\ appDay < dbDay + MaxApart
  /\ appDay' = appDay + 1
  /\ UNCHANGED <<dbDay, pc, began, number, tallied, receipts>>

DbMidnight ==
  /\ dbDay < LastDay /\ dbDay < appDay + MaxApart
  /\ dbDay' = dbDay + 1
  /\ UNCHANGED <<appDay, pc, began, number, tallied, receipts>>

Finished ==
  /\ \A c \in Checkouts : pc[c] \in Ended
  /\ UNCHANGED vars
-----------------------------------------------------------------------------
Statement(c) == GenerateReceiptNumber(c) \/ InsertReceipt(c) \/ Commit(c)

Next ==
  \/ \E c \in Checkouts : Begin(c) \/ Statement(c) \/ Abort(c)
  \/ AppMidnight \/ DbMidnight
  \/ Finished

Spec == Init /\ [][Next]_vars

\* A goroutine runs on; nothing makes a checkout start or fail, or a day pass.
FairSpec == Spec /\ \A c \in Checkouts : WF_vars(Statement(c))
-----------------------------------------------------------------------------
(* Properties *)

\* The types of the state.
TypeOK ==
  /\ dbDay \in Days
  /\ appDay \in Days
  /\ pc \in [Checkouts -> {"idle"} \cup InFlight \cup Ended]
  /\ began \in [Checkouts -> Days]
  /\ number \in [Checkouts -> Number \cup {NoNumber}]
  /\ tallied \in [Checkouts -> SUBSET Receipt]
  /\ receipts \in SUBSET Receipt

\* Two receipts never have the same number, whatever the days the two clocks
\* show when they are generated.
NumbersUnique ==
  \A x, y \in receipts : x.number = y.number => x = y

\* No receipt is counted on day d and numbered on another, or the other way round:
\* no checkout of the day spanned midnight.
ClearDay(d) == \A x \in receipts : x.day = d <=> x.number.day = d

\* The serials of a clear day have no gap: its receipts are numbered 1, 2, ...
\* in the order of their commits, however many checkouts ran at once or rolled
\* back.
Consecutive ==
  \A d \in Days : ClearDay(d) =>
     {x.number.serial : x \in {y \in receipts : y.day = d}} = 1..CountOf(d)

\* A checkout fails on its number only when the receipt that has it was not among
\* those it counted: that one was committed since, or belongs to another day,
\* because one of the two spanned a midnight.  Who counted all the receipts that
\* are there gets a number that is free, whichever clock is ahead.
CollidesWithUncounted ==
  \A c \in Checkouts : pc[c] = "collided" =>
     \E x \in receipts \ tallied[c] : x.number = number[c]

\* A checkout that waits for another's receipt is let go.
EveryCheckoutEnds ==
  \A c \in Checkouts : pc[c] \in InFlight ~> pc[c] \in Ended
=============================================================================
