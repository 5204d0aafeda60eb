------------------------------- MODULE Sales -------------------------------
(***************************************************************************)
(* The money of a sale, of its returns and of a purchase order.  A         *)
(* checkout reads the prices of its products once, with a plain SELECT, so *)
(* that a product may change its price before the sale is written; it adds *)
(* up the lines, compares the payments with the total, and writes the      *)
(* header, the lines and the payments in one transaction.  A return reads  *)
(* the lines of a committed sale, refunds its items at the unit price of   *)
(* the line, and is written in one transaction.  The creation of a         *)
(* purchase order completes its items with today's prices where the client *)
(* named none, and writes header and items in one transaction.  Amounts    *)
(* are INTEGER columns: every addition is guarded against the largest      *)
(* value.  What the three do to the stock is in BranchStock and            *)
(* PurchaseOrder.                                                          *)
(***************************************************************************)
EXTENDS Integers, Sequences, SequencesExt

CONSTANTS
  Checkouts,     \* the checkouts, each served once
  Returns,       \* the return requests, each served once
  Orders,        \* the requests that create a purchase order, each served once
  Products,
  Prices,        \* the prices a product may have
  Carts,         \* the item lists of checkouts and returns
  OrderCarts,    \* the item lists of purchase orders
  Payments,      \* the payment lists of checkouts
  PaymentTypes,  \* the names in payment_types
  MaxAmount,     \* 1<<31 - 1
  NoSale         \* the sale of a return that has not come yet

Item == [product : Products, quantity : Int]
OrderItem == [product : Products, quantity : Int, unitPrice : Int]
Payment == [type : STRING, amount : Int]

ASSUME ListsAssumption ==
  /\ Carts \subseteq Seq(Item)
  /\ OrderCarts \subseteq Seq(OrderItem)
  /\ Payments \subseteq Seq(Payment)
\* A request is of one kind.
ASSUME KindsAssumption ==
  /\ Checkouts \cap Returns = {}
  /\ Checkouts \cap Orders = {}
  /\ Returns \cap Orders = {}
ASSUME AmountsAssumption == MaxAmount \in Nat /\ Prices \subseteq Nat

None == [total |-> -1]

VARIABLES
  price,         \* products.price, committed
  pc,            \* the statement each request runs next, or how it ended
  cart,          \* the items of each request
  tendered,      \* the payments of each checkout
  read,          \* the unit prices a request has read
  total,         \* the total it has added up
  of,            \* the sale a return is for
  sales,         \* the committed sale of each checkout
  refunds,       \* the committed refund of each return
  orders         \* the committed purchase order of each request for one

vars == <<price, pc, cart, tendered, read, total, of, sales, refunds, orders>>

Requests == Checkouts \cup Returns \cup Orders
-----------------------------------------------------------------------------
(* Adding up amounts, as the loops of both services do. *)

Overflow == -1

\* Mutant: the addition is not guarded.
PlusUnguarded(sum, x) == sum + x

Plus(sum, x) ==
  IF sum = Overflow \/ sum > MaxAmount - x THEN Overflow ELSE sum + x

Total(amounts) == FoldLeft(Plus, 0, amounts)

\* The lines written for items at given unit prices, with their subtotals.
Priced(items, prices) ==
  [k \in DOMAIN items |->
     [product |-> items[k].product, quantity |-> items[k].quantity,
      subtotal |-> prices[items[k].product] * items[k].quantity]]

Subtotals(lines) == [k \in DOMAIN lines |-> lines[k].subtotal]

\* The payments are all good and add up to the total, or there are none.
Settles(payments, due) ==
  payments # <<>> =>
     /\ \A k \in DOMAIN payments : payments[k].amount > 0 /\ payments[k].type \in PaymentTypes
     /\ Total([k \in DOMAIN payments |-> payments[k].amount]) = due

\* The unit price of each product of a sale, read off its lines: the last line of
\* a product decides, in an integer division.
UnitPrices(lines) ==
  [p \in ToSet([k \in DOMAIN lines |-> lines[k].product]) |->
     LET k == SelectLastInSeq(lines, LAMBDA l : l.product = p)
     IN lines[k].subtotal \div lines[k].quantity]
-----------------------------------------------------------------------------
Init ==
  /\ price \in [Products -> Prices]
  /\ pc = [r \in Requests |-> "idle"]
  /\ cart = [r \in Requests |-> <<>>]
  /\ tendered = [c \in Checkouts |-> <<>>]
  /\ read = [r \in Requests |-> <<>>]
  /\ total = [r \in Requests |-> 0]
  /\ of = [r \in Returns |-> NoSale]
  /\ sales = [c \in Checkouts |-> None]
  /\ refunds = [r \in Returns |-> None]
  /\ orders = [o \in Orders |-> None]

WellFormed(items) ==
  items # <<>> /\ \A k \in DOMAIN items : items[k].quantity > 0

\* PUT /products/{id}: a new price, committed at once.
SetPrice(p, v) ==
  /\ price' = [price EXCEPT ![p] = v]
  /\ UNCHANGED <<pc, cart, tendered, read, total, of, sales, refunds, orders>>

StartCheckout(c, items, payments) ==
  /\ pc[c] = "idle"
  /\ cart' = [cart EXCEPT ![c] = items]
  /\ tendered' = [tendered EXCEPT ![c] = payments]
  /\ pc' = [pc EXCEPT ![c] = IF WellFormed(items) THEN "price" ELSE "refused"]
  /\ UNCHANGED <<price, read, total, of, sales, refunds, orders>>

\* LockProductsForOrg, which despite its name locks nothing.
ReadPrices(r) ==
  /\ pc[r] = "price"
  /\ read' = [read EXCEPT ![r] = price]
  /\ pc' = [pc EXCEPT ![r] = "tally"]
  /\ UNCHANGED <<price, cart, tendered, total, of, sales, refunds, orders>>

CartTotal(r) == Total(Subtotals(Priced(cart[r], read[r])))

\* The loops over the items and the payments, and the comparison of their sums.
Tally(c) ==
  /\ pc[c] = "tally"
  /\ total' = [total EXCEPT ![c] = CartTotal(c)]
  /\ pc' = [pc EXCEPT ![c] =
       IF CartTotal(c) # Overflow /\ Settles(tendered[c], CartTotal(c))
       THEN "write" ELSE "failed"]
  /\ UNCHANGED <<price, cart, tendered, read, of, sales, refunds, orders>>

\* The header, the lines and the payments, written and committed.
WriteSale(c) ==
  /\ pc[c] = "write"
  /\ sales' = [sales EXCEPT ![c] =
       [total |-> total[c], lines |-> Priced(cart[c], read[c]), payments |-> tendered[c]]]
  /\ pc' = [pc EXCEPT ![c] = "committed"]
  /\ UNCHANGED <<price, cart, tendered, read, total, of, refunds, orders>>

\* A return is started for a sale that exists.
StartReturn(r, c, items) ==
  /\ pc[r] = "idle"
  /\ cart' = [cart EXCEPT ![r] = items]
  /\ of' = [of EXCEPT ![r] = c]
  /\ pc' = [pc EXCEPT ![r] =
       IF WellFormed(items) /\ sales[c] # None THEN "price" ELSE "refused"]
  /\ UNCHANGED <<price, tendered, read, total, sales, refunds, orders>>

\* Mutant: the refund is at the price of today.
ReadCurrentPrices(r, c) ==
  /\ pc[r] = "price"
  /\ of[r] = c
  /\ read' = [read EXCEPT ![r] = [p \in DOMAIN UnitPrices(sales[c].lines) |-> price[p]]]
  /\ pc' = [pc EXCEPT ![r] = "tally"]
  /\ UNCHANGED <<price, cart, tendered, total, of, sales, refunds, orders>>

\* FindTransactionDetailsForOrg and the map made of it.
ReadSale(r, c) ==
  /\ pc[r] = "price"
  /\ of[r] = c
  /\ read' = [read EXCEPT ![r] = UnitPrices(sales[c].lines)]
  /\ pc' = [pc EXCEPT ![r] = "tally"]
  /\ UNCHANGED <<price, cart, tendered, total, of, sales, refunds, orders>>

\* The loop over the items: each must be a product of the sale.  Nothing is
\* compared with the quantity sold, or with what was returned before.
TallyReturn(r) ==
  /\ pc[r] = "tally"
  /\ IF \A k \in DOMAIN cart[r] : cart[r][k].product \in DOMAIN read[r]
     THEN /\ total' = [total EXCEPT ![r] = CartTotal(r)]
          /\ pc' = [pc EXCEPT ![r] = IF CartTotal(r) # Overflow THEN "write" ELSE "failed"]
     ELSE pc' = [pc EXCEPT ![r] = "failed"] /\ UNCHANGED total
  /\ UNCHANGED <<price, cart, tendered, read, of, sales, refunds, orders>>

WriteReturn(r) ==
  /\ pc[r] = "write"
  /\ refunds' = [refunds EXCEPT ![r] =
       [total |-> total[r], lines |-> Priced(cart[r], read[r])]]
  /\ pc' = [pc EXCEPT ![r] = "committed"]
  /\ UNCHANGED <<price, cart, tendered, read, total, of, sales, orders>>

\* POST /purchase-orders.
StartOrder(o, items) ==
  /\ pc[o] = "idle"
  /\ cart' = [cart EXCEPT ![o] = items]
  /\ pc' = [pc EXCEPT ![o] = IF WellFormed(items) THEN "price" ELSE "refused"]
  /\ UNCHANGED <<price, tendered, read, total, of, sales, refunds, orders>>

\* An item without a price of its own costs what the product does.
Resolved(items, prices) ==
  [k \in DOMAIN items |->
     [items[k] EXCEPT !.unitPrice = IF @ <= 0 THEN prices[items[k].product] ELSE @]]

OrderLines(items) ==
  [k \in DOMAIN items |->
     [product |-> items[k].product, quantity |-> items[k].quantity,
      subtotal |-> items[k].unitPrice * items[k].quantity]]

OrderTotal(items) == Total(Subtotals(OrderLines(items)))

\* Mutant: the loop completes copies of the items.
TallyOrderCopies(o) ==
  LET items == Resolved(cart[o], read[o])
  IN /\ pc[o] = "tally"
     /\ total' = [total EXCEPT ![o] = OrderTotal(items)]
     /\ pc' = [pc EXCEPT ![o] = IF OrderTotal(items) # Overflow THEN "write" ELSE "failed"]
     /\ UNCHANGED <<price, cart, tendered, read, of, sales, refunds, orders>>

\* The loop over the items completes them in place and adds them up.
TallyOrder(o) ==
  LET items == Resolved(cart[o], read[o])
  IN /\ pc[o] = "tally"
     /\ cart' = [cart EXCEPT ![o] = items]
     /\ total' = [total EXCEPT ![o] = OrderTotal(items)]
     /\ pc' = [pc EXCEPT ![o] = IF OrderTotal(items) # Overflow THEN "write" ELSE "failed"]
     /\ UNCHANGED <<price, tendered, read, of, sales, refunds, orders>>

\* The header and the items, whose subtotals are computed again.
WriteOrder(o) ==
  /\ pc[o] = "write"
  /\ orders' = [orders EXCEPT ![o] = [total |-> total[o], lines |-> OrderLines(cart[o])]]
  /\ pc' = [pc EXCEPT ![o] = "committed"]
  /\ UNCHANGED <<price, cart, tendered, read, total, of, sales, refunds>>

\* A statement fails, or the server dies: the transaction is rolled back.
Abort(r) ==
  /\ pc[r] \in {"price", "tally", "write"}
  /\ pc' = [pc EXCEPT ![r] = "failed"]
  /\ UNCHANGED <<price, cart, tendered, read, total, of, sales, refunds, orders>>
-----------------------------------------------------------------------------
Next ==
  \/ \E p \in Products, v \in Prices : SetPrice(p, v)
  \/ \E c \in Checkouts :
        \/ \E items \in Carts, payments \in Payments : StartCheckout(c, items, payments)
        \/ Tally(c) \/ WriteSale(c)
  \/ \E r \in Returns :
        \/ \E c \in Checkouts : (\E items \in Carts : StartReturn(r, c, items)) \/ ReadSale(r, c)
        \/ TallyReturn(r) \/ WriteReturn(r)
  \/ \E o \in Orders :
        (\E items \in OrderCarts : StartOrder(o, items)) \/ TallyOrder(o) \/ WriteOrder(o)
  \/ \E r \in Checkouts \cup Orders : ReadPrices(r)
  \/ \E r \in Requests : Abort(r)

Spec == Init /\ [][Next]_vars
-----------------------------------------------------------------------------
(* Properties *)

Sold == {c \in Checkouts : sales[c] # None}
Refunded == {r \in Returns : refunds[r] # None}
Ordered == {o \in Orders : orders[o] # None}

SumOf(amounts) == FoldLeft(+, 0, amounts)

\* The units of product p in some lines.
UnitsOf(lines, p) ==
  SumOf([k \in DOMAIN lines |-> IF lines[k].product = p THEN lines[k].quantity ELSE 0])

\* Every committed amount fits an INTEGER column and no list is empty.
TypeOK ==
  /\ price \in [Products -> Prices]
  /\ pc \in [Requests -> {"idle", "price", "tally", "write",
                          "refused", "failed", "committed"}]
  /\ \A c \in Sold : sales[c].total \in 0..MaxAmount /\ sales[c].lines # <<>>
  /\ \A r \in Refunded : refunds[r].total \in 0..MaxAmount /\ refunds[r].lines # <<>>
  /\ \A o \in Ordered : orders[o].total \in 0..MaxAmount /\ orders[o].lines # <<>>

\* The header, the lines and the payments of a sale agree, and the header and the
\* items of a return and of an order, whatever price changes were committed while
\* they were made and whichever prices the client left to the server.  (Support
\* split payment.)
DocumentsAddUp ==
  /\ \A c \in Sold :
       /\ sales[c].total = SumOf(Subtotals(sales[c].lines))
       /\ sales[c].payments # <<>> =>
            sales[c].total = SumOf([k \in DOMAIN sales[c].payments |-> sales[c].payments[k].amount])
  /\ \A r \in Refunded : refunds[r].total = SumOf(Subtotals(refunds[r].lines))
  /\ \A o \in Ordered : orders[o].total = SumOf(Subtotals(orders[o].lines))

\* A refund pays for each unit what the sale charged for it, although the price
\* may have changed since.
RefundAtSalePrice ==
  \A r \in Refunded : \A k \in DOMAIN refunds[r].lines :
     LET line == refunds[r].lines[k]
         lines == sales[of[r]].lines
     IN \A j \in DOMAIN lines :
           lines[j].product = line.product =>
              line.subtotal * lines[j].quantity = lines[j].subtotal * line.quantity

\* What is returned from a transaction are units of that transaction: for each
\* product, all returns together take back no more than was sold.
ReturnedFromSale ==
  \A c \in Sold, p \in Products :
     LET returned == FoldSet(LAMBDA r, n : n + UnitsOf(refunds[r].lines, p), 0,
                             {r \in Refunded : of[r] = c})
     IN returned <= UnitsOf(sales[c].lines, p)
=============================================================================
