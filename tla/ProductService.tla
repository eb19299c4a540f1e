---------------------------- MODULE ProductService ----------------------------
(***************************************************************************)
(* AsyncAwait/OnlineShop: the window's thread clicks and edits prices,     *)
(* tasks of the pool add to and remove from Products, and each change      *)
(* starts a delayed continuation that sums the prices (the one-second      *)
(* Task.Delay of the tasks themselves is not awaited).  Nobody takes _lock.*)
(*                                                                         *)
(* The collection is a list without synchronisation: a change finds its    *)
(* index and then uses it; an enumeration throws when the list's version   *)
(* has changed.  Once two changes have overlapped the list may have lost an*)
(* item, hold it twice, or hold null: from then on what it holds is not    *)
(* known.  Sum is checked: it throws above MaxTotal.                       *)
(***************************************************************************)
EXTENDS Integers, Sequences, SequencesExt, FiniteSetsExt, RunningSums

CONSTANTS Entered,   \* the price entered for a click of Add
          Prices,    \* the prices a product may be given later
          MaxClicks, \* bound: clicks of Add and Remove
          MaxEdits,  \* bound: edits of a price
          MaxSums,   \* bound: sums under way at a time
          MaxTotal   \* int.MaxValue

\* Of the constants; an instance assumes it.
ShopAssumption ==
  /\ Entered \in [1..MaxClicks -> Nat]
  /\ Prices \subseteq Nat /\ MaxTotal \in Nat
  /\ MaxClicks \in Nat /\ MaxEdits \in Nat /\ MaxSums \in Nat

VARIABLES
  window,      \* "up" or "crashed"
  price,       \* Product.Price
  edited,      \* the product whose setter has not raised PropertyChanged yet
  edits,       \* bound: number of edits
  products, version,  \* Products, and its list's _version
  subscribed,  \* products whose PropertyChanged calls UpdatePriceAsync
  click,       \* the task of each click
  delayed,     \* continuations of UpdatePriceAsync that have not begun
  sum,         \* those under way
  totalPrice,
  damaged,     \* have two changes overlapped?  Then products is not known
  overlap      \* history: have two sums overlapped?

uiVars == <<window, price, edited, edits>>
listVars == <<products, version, damaged>>
sumVars == <<delayed, sum, totalPrice>>
vars == <<uiVars, listVars, sumVars, subscribed, click, overlap>>

\* A click of Add creates the product that has its number; 0 is none.
Clicks == 1..MaxClicks
Sums == 1..MaxSums

NoClick == [op |-> "none", item |-> 0, pc |-> "none", index |-> 0]
NoSum   == [pc |-> "none", at |-> 0, acc |-> 0, version |-> 0]

TypeOK ==
  /\ window \in {"up", "crashed"}
  /\ price \in [Clicks -> Nat]
  /\ edited \in 0..MaxClicks /\ edits \in 0..MaxEdits
  /\ products \in Seq(Clicks) /\ version \in Nat
  /\ subscribed \subseteq Clicks
  /\ click \in [Clicks -> [op : {"none", "Add", "Remove"},
                           item : 0..MaxClicks,
                           pc : {"none", "begin", "change", "subscribe",
                                 "update", "done", "faulted"},
                           index : Nat]]
  /\ delayed \in Nat
  /\ sum \in [Sums -> [pc : {"none", "summing", "writing"}, at : Nat,
                       acc : 0..MaxTotal, version : 0..version]]
  /\ totalPrice \in 0..MaxTotal /\ damaged \in BOOLEAN /\ overlap \in BOOLEAN
-----------------------------------------------------------------------------
Init ==
  /\ window = "up"
  /\ price = [k \in Clicks |-> 0] /\ edited = 0 /\ edits = 0
  /\ products = << >> /\ version = 0 /\ subscribed = {}
  /\ click = [k \in Clicks |-> NoClick]
  /\ delayed = 0 /\ sum = [s \in Sums |-> NoSum]
  /\ totalPrice = 0 /\ damaged = FALSE /\ overlap = FALSE

\* What the window shows, or has not yet ceased to show.
Shown == {k \in Clicks : /\ click[k].op = "Add"
                         /\ click[k].pc \in {"subscribe", "update", "done"}}

(* The window's thread: Button_Click and RemoveBtn_OnClick start a task.   *)
StartTask(k, op, p) ==
  /\ window = "up" /\ edited = 0
  /\ click[k] = NoClick /\ \A j \in 1..k - 1 : click[j] # NoClick
  /\ click' = [click EXCEPT ![k] = [op |-> op, item |-> p, pc |-> "begin",
                                    index |-> 0]]
  /\ UNCHANGED <<window, edited, edits, listVars, sumVars, subscribed, overlap>>

ButtonClick(k) == /\ StartTask(k, "Add", k)
                  /\ price' = [price EXCEPT ![k] = Entered[k]]

\* The selected item, which another task may have removed, or none.
RemoveBtnOnClick(k) == /\ \E p \in Shown \cup {0} : StartTask(k, "Remove", p)
                       /\ UNCHANGED price

\* Convert.ToInt32 of an empty text throws, and nothing is left.
ButtonClickNoPrice ==
  /\ window = "up" /\ edited = 0 /\ window' = "crashed"
  /\ price' = [k \in Clicks |-> 0] /\ edits' = 0
  /\ products' = << >> /\ version' = 0 /\ subscribed' = {}
  /\ click' = [k \in Clicks |-> NoClick]
  /\ delayed' = 0 /\ sum' = [s \in Sums |-> NoSum]
  /\ totalPrice' = 0 /\ damaged' = FALSE /\ overlap' = FALSE
  /\ UNCHANGED edited

(* Product.Price of a product in the list, bound TwoWay: stored, ...       *)
SetPrice(p) ==
  /\ window = "up" /\ edited = 0 /\ edits < MaxEdits
  /\ p \in IF damaged THEN Shown ELSE ToSet(products)
  /\ price' \in {[price EXCEPT ![p] = x] : x \in Prices}
  /\ edited' = p /\ edits' = edits + 1
  /\ UNCHANGED <<window, listVars, sumVars, subscribed, click, overlap>>

(* ... then announced to UpdatePriceAsync, if that has subscribed.         *)
RaisePropertyChanged ==
  /\ window = "up" /\ edited # 0
  /\ delayed' = IF edited \in subscribed THEN delayed + 1 ELSE delayed
  /\ edited' = 0
  /\ UNCHANGED <<window, price, edits, listVars, sum, totalPrice, subscribed,
                 click, overlap>>
-----------------------------------------------------------------------------
(* The tasks of the pool.                                                  *)
At(k, op, pc) == /\ window = "up"
                 /\ click[k].op = op /\ click[k].pc = pc

Goto(k, pc) == click' = [click EXCEPT ![k].pc = pc]

Changing == \E k \in Clicks : click[k].pc = "change"

(* A change that begins while another is under way: the list is damaged.   *)
Overlaps == /\ damaged' = TRUE /\ products' = << >> /\ UNCHANGED version

(* Products.Add: the index is the present length ...                       *)
FindEnd(k) ==
  /\ At(k, "Add", "begin")
  /\ click' = [click EXCEPT ![k].pc = "change", ![k].index = Len(products)]
  /\ IF damaged \/ Changing THEN Overlaps ELSE UNCHANGED listVars
  /\ UNCHANGED <<uiVars, sumVars, subscribed, overlap>>

(* ... and the list grows by one there.  In a damaged list the index may be*)
(* out of range.                                                           *)
Insert(k) ==
  /\ At(k, "Add", "change")
  /\ \/ /\ ~damaged /\ Goto(k, "subscribe")
        /\ products' = InsertAt(products, click[k].index + 1, click[k].item)
        /\ version' = version + 1 /\ UNCHANGED damaged
     \/ /\ damaged /\ \E pc \in {"subscribe", "faulted"} : Goto(k, pc)
        /\ UNCHANGED listVars
  /\ UNCHANGED <<uiVars, sumVars, subscribed, overlap>>

\* Mutant: nobody listens to the new product.
SubscribeNot(k) ==
  /\ At(k, "Add", "subscribe") /\ Goto(k, "update")
  /\ UNCHANGED <<uiVars, listVars, sumVars, subscribed, overlap>>

Subscribe(k) ==
  /\ At(k, "Add", "subscribe") /\ Goto(k, "update")
  /\ subscribed' = subscribed \cup {click[k].item}
  /\ UNCHANGED <<uiVars, listVars, sumVars, overlap>>

(* Products.Remove: IndexOf ...  While another change moves the items it   *)
(* may miss the one it looks for.                                          *)
FindIndex(k) ==
  /\ At(k, "Remove", "begin")
  /\ LET I == {i \in DOMAIN products : products[i] = click[k].item}
     IN \/ /\ I = {} /\ ~damaged /\ Goto(k, "update") /\ UNCHANGED listVars
        \/ /\ I # {} /\ ~damaged /\ ~Changing
           /\ click' = [click EXCEPT ![k].pc = "change", ![k].index = Min(I)]
           /\ UNCHANGED listVars
        \/ /\ damaged \/ (I # {} /\ Changing)
           /\ \E pc \in {"change", "update"} : Goto(k, pc)
           /\ Overlaps
  /\ UNCHANGED <<uiVars, sumVars, subscribed, overlap>>

\* Mutant: the last item goes in place of the one found.
RemoveLast(k) ==
  /\ At(k, "Remove", "change")
  /\ \/ /\ ~damaged /\ Goto(k, "update")
        /\ products' = Front(products)
        /\ version' = version + 1 /\ UNCHANGED damaged
     \/ /\ damaged /\ \E pc \in {"update", "faulted"} : Goto(k, pc)
        /\ UNCHANGED listVars
  /\ UNCHANGED <<uiVars, sumVars, subscribed, overlap>>

(* ... and RemoveItem of what is at that index.                            *)
RemoveItem(k) ==
  /\ At(k, "Remove", "change")
  /\ \/ /\ ~damaged /\ Goto(k, "update")
        /\ products' = RemoveAt(products, click[k].index)
        /\ version' = version + 1 /\ UNCHANGED damaged
     \/ /\ damaged /\ \E pc \in {"update", "faulted"} : Goto(k, pc)
        /\ UNCHANGED listVars
  /\ UNCHANGED <<uiVars, sumVars, subscribed, overlap>>

(* The call of UpdatePriceAsync at the end of both.                        *)
UpdatePriceAsync(k) ==
  /\ At(k, click[k].op, "update") /\ Goto(k, "done")
  /\ delayed' = delayed + 1
  /\ UNCHANGED <<uiVars, listVars, sum, totalPrice, subscribed, overlap>>
-----------------------------------------------------------------------------
(* The delayed continuation: Products.Sum ...                              *)
BeginSum(s) ==
  /\ window = "up" /\ delayed > 0
  /\ s = Min({t \in Sums : sum[t] = NoSum} \cup {MaxSums + 1})
  /\ delayed' = delayed - 1
  /\ sum' = [sum EXCEPT ![s] = [pc |-> "summing", at |-> 1, acc |-> 0,
                                version |-> version]]
  /\ overlap' = (overlap \/ \E t \in Sums : sum[t] # NoSum)
  /\ UNCHANGED <<uiVars, listVars, totalPrice, subscribed, click>>

(* ... takes one price after the other; an exception ends it in silence.   *)
AddNext(s) ==
  /\ window = "up" /\ sum[s].pc = "summing" /\ ~damaged
  /\ LET x == sum[s]
     IN sum' = [sum EXCEPT ![s] =
          IF x.version # version THEN NoSum
          ELSE IF x.at > Len(products) THEN [x EXCEPT !.pc = "writing"]
          ELSE LET acc == x.acc + price[products[x.at]]
               IN IF acc > MaxTotal THEN NoSum
                  ELSE [x EXCEPT !.acc = acc, !.at = @ + 1]]
  /\ UNCHANGED <<uiVars, listVars, delayed, totalPrice, subscribed, click,
                 overlap>>

(* In the middle of a change, or of a damaged list, the enumeration may    *)
(* meet an item twice, not at all, or null: any total, or an exception.    *)
AddTorn(s) ==
  /\ window = "up" /\ sum[s].pc = "summing" /\ (damaged \/ Changing)
  /\ \/ sum' = [sum EXCEPT ![s] = NoSum]
     \/ \E acc \in 0..MaxTotal :
          sum' = [sum EXCEPT ![s].pc = "writing", ![s].acc = acc]
  /\ UNCHANGED <<uiVars, listVars, delayed, totalPrice, subscribed, click,
                 overlap>>

SetTotalPrice(s) ==
  /\ window = "up" /\ sum[s].pc = "writing"
  /\ totalPrice' = sum[s].acc
  /\ sum' = [sum EXCEPT ![s] = NoSum]
  /\ UNCHANGED <<uiVars, listVars, delayed, subscribed, click, overlap>>

Window == \/ \E k \in Clicks : ButtonClick(k) \/ RemoveBtnOnClick(k)
          \/ ButtonClickNoPrice \/ RaisePropertyChanged
          \/ \E p \in Clicks : SetPrice(p)

Pool == \/ \E k \in Clicks : \/ FindEnd(k) \/ Insert(k) \/ Subscribe(k)
                             \/ FindIndex(k) \/ RemoveItem(k)
                             \/ UpdatePriceAsync(k)
        \/ \E s \in Sums : \/ BeginSum(s) \/ AddNext(s) \/ AddTorn(s)
                           \/ SetTotalPrice(s)

Next == Window \/ Pool

Spec == Init /\ [][Next]_vars
-----------------------------------------------------------------------------
AtRest == /\ window = "up" /\ edited = 0 /\ delayed = 0
          /\ \A k \in Clicks : click[k].pc \in {"none", "done", "faulted"}
          /\ \A s \in Sums : sum[s] = NoSum

Items(op) == {click[k].item : k \in {l \in Clicks : click[l].op = op}}

(* When everything has ended, and no two changes of the list have          *)
(* overlapped, it holds what was added and not removed, each once: nothing *)
(* is lost, added twice, or removed in place of another.                   *)
ListSettles ==
  AtRest /\ ~damaged =>
    /\ ToSet(products) = Items("Add") \ Items("Remove")
    /\ Len(products) = Cardinality(ToSet(products))

\* The prices of the first products of the list, summed.
Totals ==
  PartialSums([i \in DOMAIN products |-> price[products[i]]], Len(products))

(* If no two sums have overlapped either, TotalPrice is that of the list,   *)
(* whatever changes and edits came in the middle of an enumeration; only a  *)
(* sum above int.MaxValue is never shown.                                   *)
TotalSettles ==
  AtRest /\ ~damaged /\ ~overlap =>
    LET total == Totals[Len(products)]
    IN total = totalPrice \/ total > MaxTotal
=============================================================================
