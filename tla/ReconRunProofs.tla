---------------------------- MODULE ReconRunProofs ----------------------------
(***************************************************************************)
(* Proofs about ReconRun, for any bank lines, transactions and pages and   *)
(* any number of calls, imports and faults: types and safety invariants.   *)
(*                                                                         *)
(* The argument.  As long as no call has torn a pair and no statement has  *)
(* failed, every line and transaction that AutoMatch has read is           *)
(* somewhere: held by a row other than an exception, by a row AutoMatch    *)
(* has still to insert, or by a call between its DELETE and its INSERT     *)
(* (KeptInv). What UnmatchRecord re-opens is what its DELETE removes, for  *)
(* ids are never given twice and rows never rewritten (NamesInv).  Of the  *)
(* calls that write the two status columns at most one is between them     *)
(* unless they crossed (ColumnsInv).                                       *)
(***************************************************************************)
EXTENDS ReconRun, TLAPS

\* The types of what TypeOK leaves out: the locals of the calls and the plan.
CallType ==
    [op : {"none", "matched", "adjustment", "unmatch", "check", "submit", "approve",
           "reject", "close"},
     at : {"done", "clear", "record", "list", "delete", "bank", "internal", "stamp",
           "expose", "count", "ask", "status", "review"},
     line : Lines \cup {None}, txn : Txns \cup {None}, row : Nat, todo : SUBSET Lines]

\* Which handler is at which statement, and with which items.
Shaped(k) ==
    /\ k.at \in {"clear", "record"} =>
           \/ k.op = "matched" /\ k.line # None /\ k.txn # None
           \/ k.op = "adjustment" /\ (k.line = None <=> k.txn # None)
    /\ k.at = "expose" => k.line # None
    /\ k.at = "count" => k.op \in {"submit", "close"}
    /\ k.at = "ask" => k.op \in {"approve", "reject"}
    /\ k.at = "status" => k.op \in {"submit", "approve", "reject", "close"}
    /\ k.at = "review" => k.op \in {"submit", "approve", "reject"}

RowShape(r) ==
    /\ r.line \in Lines \cup {None} /\ r.txn \in Txns \cup {None}
    /\ \/ r.status = "matched" /\ r.line # None /\ r.txn # None
       \/ r.status = "unmatched_bank" /\ r.line # None /\ r.txn = None
       \/ r.status = "unmatched_internal" /\ r.line = None /\ r.txn # None
       \/ r.status = "adjustment" /\ (r.line = None <=> r.txn # None)
       \/ r.status = "exception" /\ r.line # None /\ r.txn = None

RowsOK ==
    /\ nextId \in Nat \ {0}
    /\ \A r \in rows : r.id \in 1 .. nextId - 1 /\ RowShape(r)
    /\ \A r, s \in rows : r.id = s.id => r = s

CallsOK ==
    /\ call \in [Tabs -> CallType]
    /\ \A c \in Tabs : Shaped(call[c])

ColumnsOK ==
    /\ status \in {"draft", "in_progress", "pending_review", "closed"}
    /\ review \in {"null", "pending", "approved", "rejected"}
    /\ torn \in BOOLEAN /\ crossed \in BOOLEAN

PlanOK == (\A p \in plan : RowShape(p) /\ p.status # "exception") /\ faults \in Nat

ItemsOK == read \subseteq arrived /\ arrived \subseteq Lines \cup Txns

TypeInv == RowsOK /\ CallsOK /\ ColumnsOK /\ PlanOK /\ ItemsOK

\* An unmatch call deletes the row whose items it has read.
NamesInv ==
    \A c \in Tabs : call[c].at = "delete" =>
        /\ call[c].row < nextId
        /\ \A r \in rows :
               r.id = call[c].row => r.line = call[c].line /\ r.txn = call[c].txn

\* Where a line is and where a transaction is.
LineKept(l) ==
    \/ \E r \in rows : r.line = l /\ r.status # "exception"
    \/ \E p \in plan : p.line = l
    \/ \E c \in Tabs : call[c].at \in {"record", "bank"} /\ call[c].line = l

TxnKept(t) ==
    \/ \E r \in rows : r.txn = t
    \/ \E p \in plan : p.txn = t
    \/ \E c \in Tabs : call[c].at \in {"record", "bank", "internal"} /\ call[c].txn = t

KeptInv ==
    ~torn /\ faults = 0 => /\ \A l \in Lines \cap read : LineKept(l)
                           /\ \A t \in Txns \cap read : TxnKept(t)

\* Between the two UPDATEs of one call no other call is between them, and the
\* run waits for a review only if that call submits it.
ColumnsInv ==
    ~crossed =>
        /\ \A c, d \in Tabs : call[c].at = "review" /\ call[d].at = "review" => c = d
        /\ status = "pending_review" =>
               /\ \A c \in Tabs : call[c].at = "review" => call[c].op = "submit"
               /\ faults = 0 => \/ review = "pending"
                                \/ \E c \in Tabs : call[c].at = "review"

IInv == TypeInv /\ NamesInv /\ KeptInv /\ ColumnsInv

-----------------------------------------------------------------------------
(* What the steps do to the calls.                                         *)

\* A page's call moves, and the other pages' calls do not.
OthersStay(c) == \A d \in Tabs \ {c} : call'[d] = call[d]

SameItems(c) ==
    /\ call'[c].op = call[c].op /\ call'[c].line = call[c].line
    /\ call'[c].txn = call[c].txn /\ call'[c].row = call[c].row

Labels == {"done", "clear", "record", "list", "delete", "bank", "internal", "stamp",
           "expose", "count", "ask", "status", "review"}

LEMMA GoToEffect ==
    ASSUME CallsOK, NEW c \in Tabs, NEW at \in Labels, GoTo(c, at)
    PROVE  /\ call' \in [Tabs -> CallType] /\ OthersStay(c)
           /\ call'[c].at = at /\ SameItems(c)
  <1> DEFINE new == [call[c] EXCEPT !.at = at]
  <1>1. call[c] \in CallType
    BY DEF CallsOK
  <1>2. /\ new \in CallType /\ new.at = at
        /\ new.op = call[c].op /\ new.line = call[c].line
        /\ new.txn = call[c].txn /\ new.row = call[c].row
    BY <1>1 DEF CallType, Labels
  <1>3. call' = [call EXCEPT ![c] = new]
    BY DEF GoTo
  <1>. QED
    BY <1>2, <1>3 DEF CallsOK, OthersStay, SameItems

LEMMA ReturnEffect ==
    ASSUME CallsOK, NEW c \in Tabs, Return(c)
    PROVE  /\ call' \in [Tabs -> CallType] /\ OthersStay(c) /\ call'[c].at = "done"
  <1>1. NoCall \in CallType /\ NoCall.at = "done"
    BY DEF NoCall, CallType
  <1>. QED
    BY <1>1 DEF Return, CallsOK, OthersStay

LEMMA BeginEffect ==
    ASSUME CallsOK, RowsOK, NEW c \in Tabs, Calls(c)
    PROVE  /\ call' \in [Tabs -> CallType] /\ OthersStay(c)
           /\ call'[c].at \in {"clear", "list", "stamp", "count", "ask"} /\ Shaped(call'[c])
           /\ call[c].at = "done"
           /\ UNCHANGED <<arrived, rows, nextId, runVars, plan, faults, histVars>>
  <1> DEFINE k(op, at, l, t, id, todo) ==
                [op |-> op, at |-> at, line |-> l, txn |-> t, row |-> id, todo |-> todo]
             Goal == /\ call' \in [Tabs -> CallType] /\ OthersStay(c)
                     /\ call'[c].at \in {"clear", "list", "stamp", "count", "ask"}
                     /\ Shaped(call'[c]) /\ call[c].at = "done"
                     /\ UNCHANGED <<arrived, rows, nextId, runVars, plan, faults, histVars>>
  <1>1. ASSUME NEW op, NEW at \in {"clear", "list", "stamp", "count", "ask"},
               NEW l, NEW t, NEW id, NEW todo,
               k(op, at, l, t, id, todo) \in CallType, Shaped(k(op, at, l, t, id, todo)),
               Begin(c, op, at, l, t, id, todo)
        PROVE  Goal
    <2>1. call' = [call EXCEPT ![c] = k(op, at, l, t, id, todo)] /\ call[c].at = "done"
      BY <1>1 DEF Begin, NoCall
    <2>2. call'[c] = k(op, at, l, t, id, todo)
      BY <2>1 DEF CallsOK
    <2>. QED
      BY <1>1, <2>1, <2>2 DEF Begin, CallsOK, OthersStay
  <1>2. ASSUME MatchSelected(c) PROVE Goal
    <2>1. PICK l \in Lines, t \in Txns : Begin(c, "matched", "clear", l, t, 0, {})
      BY <1>2 DEF MatchSelected
    <2>2. /\ k("matched", "clear", l, t, 0, {}) \in CallType
          /\ Shaped(k("matched", "clear", l, t, 0, {}))
      BY ReconAssumption DEF CallType, Shaped
    <2>. QED
      BY <1>1, <2>1, <2>2
  <1>3. ASSUME MarkBank(c) PROVE Goal
    <2>1. PICK l \in Lines : Begin(c, "adjustment", "clear", l, None, 0, {})
      BY <1>3 DEF MarkBank
    <2>2. /\ k("adjustment", "clear", l, None, 0, {}) \in CallType
          /\ Shaped(k("adjustment", "clear", l, None, 0, {}))
      BY ReconAssumption DEF CallType, Shaped
    <2>. QED
      BY <1>1, <2>1, <2>2
  <1>4. ASSUME MarkInternal(c) PROVE Goal
    <2>1. PICK t \in Txns : Begin(c, "adjustment", "clear", None, t, 0, {})
      BY <1>4 DEF MarkInternal
    <2>2. /\ k("adjustment", "clear", None, t, 0, {}) \in CallType
          /\ Shaped(k("adjustment", "clear", None, t, 0, {}))
      BY ReconAssumption DEF CallType, Shaped
    <2>. QED
      BY <1>1, <2>1, <2>2
  <1>5. ASSUME Unmatch(c) PROVE Goal
    <2>1. PICK r \in rows : Begin(c, "unmatch", "list", None, None, r.id, {})
      BY <1>5 DEF Unmatch
    <2>2. /\ k("unmatch", "list", None, None, r.id, {}) \in CallType
          /\ Shaped(k("unmatch", "list", None, None, r.id, {}))
      BY DEF CallType, Shaped, RowsOK
    <2>. QED
      BY <1>1, <2>1, <2>2
  <1>6. ASSUME PayoutCheck(c) PROVE Goal
    <2>1. Begin(c, "check", "stamp", None, None, 0, PayoutLines \cap arrived)
      BY <1>6 DEF PayoutCheck
    <2>2. /\ k("check", "stamp", None, None, 0, PayoutLines \cap arrived) \in CallType
          /\ Shaped(k("check", "stamp", None, None, 0, PayoutLines \cap arrived))
      BY ReconAssumption DEF CallType, Shaped
    <2>. QED
      BY <1>1, <2>1, <2>2
  <1>7. ASSUME Submit(c) \/ AutoClose(c) PROVE Goal
    <2>1. PICK op \in {"submit", "close"} : Begin(c, op, "count", None, None, 0, {})
      BY <1>7 DEF Submit, AutoClose
    <2>2. /\ k(op, "count", None, None, 0, {}) \in CallType
          /\ Shaped(k(op, "count", None, None, 0, {}))
      BY DEF CallType, Shaped
    <2>. QED
      BY <1>1, <2>1, <2>2
  <1>8. ASSUME Review(c) PROVE Goal
    <2>1. PICK op \in {"approve", "reject"} : Begin(c, op, "ask", None, None, 0, {})
      BY <1>8 DEF Review
    <2>2. /\ k(op, "ask", None, None, 0, {}) \in CallType
          /\ Shaped(k(op, "ask", None, None, 0, {}))
      BY DEF CallType, Shaped
    <2>. QED
      BY <1>1, <2>1, <2>2
  <1>. QED
    BY <1>2, <1>3, <1>4, <1>5, <1>6, <1>7, <1>8 DEF Calls

\* The read of payment instructions: a page's call takes up the next line.
LEMMA StampEffect ==
    ASSUME CallsOK, NEW c \in Tabs,
           \/ \E l \in call[c].todo : Expose(c, l) \/ NextLine(c, call[c].todo \ {l})
           \/ NextLine(c, call[c].todo)
    PROVE  /\ call' \in [Tabs -> CallType] /\ OthersStay(c)
           /\ call'[c].at \in {"done", "stamp", "expose"} /\ Shaped(call'[c])
  <1>1. call[c] \in CallType
    BY DEF CallsOK
  <1>2. ASSUME NEW l \in call[c].todo, Expose(c, l)
        PROVE  /\ call' \in [Tabs -> CallType] /\ OthersStay(c)
               /\ call'[c].at = "expose" /\ Shaped(call'[c])
    <2> DEFINE new == [call[c] EXCEPT !.at = "expose", !.line = l,
                                      !.todo = call[c].todo \ {l}]
    <2>1. l \in Lines /\ l # None
      BY <1>1, ReconAssumption DEF CallType
    <2>2. new \in CallType /\ new.at = "expose" /\ new.line = l
      BY <1>1, <2>1 DEF CallType
    <2>3. call' = [call EXCEPT ![c] = new]
      BY <1>2 DEF Expose
    <2>4. call'[c] = new /\ call' \in [Tabs -> CallType] /\ OthersStay(c)
      BY <2>2, <2>3 DEF CallsOK, OthersStay
    <2>. QED
      BY <2>1, <2>2, <2>4 DEF Shaped
  <1>3. ASSUME NEW left \in SUBSET Lines, NextLine(c, left)
        PROVE  /\ call' \in [Tabs -> CallType] /\ OthersStay(c)
               /\ call'[c].at \in {"done", "stamp"} /\ Shaped(call'[c])
    <2>1. CASE left = {}
      BY <1>3, <2>1, ReturnEffect DEF NextLine, Shaped
    <2>2. CASE left # {}
      <3> DEFINE new == [call[c] EXCEPT !.at = "stamp", !.todo = left]
      <3>1. new \in CallType /\ new.at = "stamp"
        BY <1>1 DEF CallType
      <3>2. call' = [call EXCEPT ![c] = new]
        BY <1>3, <2>2 DEF NextLine
      <3>3. call'[c] = new /\ call' \in [Tabs -> CallType] /\ OthersStay(c)
        BY <3>1, <3>2 DEF CallsOK, OthersStay
      <3>. QED
        BY <3>1, <3>3 DEF Shaped
    <2>. QED
      BY <2>1, <2>2
  <1>4. call[c].todo \in SUBSET Lines
    BY <1>1 DEF CallType
  <1>. QED
    BY <1>2, <1>3, <1>4

\* The statements of CrossCheckPayoutInstructions, and the failing ones.
LEMMA PayoutEffect ==
    ASSUME CallsOK, NEW c \in Tabs, StampRow(c) \/ ExposeRow(c) \/ StampFails(c)
    PROVE  /\ call' \in [Tabs -> CallType] /\ OthersStay(c)
           /\ call'[c].at \in {"done", "stamp", "expose"} /\ Shaped(call'[c])
           /\ call[c].at \in {"stamp", "expose"}
           /\ UNCHANGED <<arrived, runVars, plan, histVars>>
  <1>1. \/ \E l \in call[c].todo : Expose(c, l) \/ NextLine(c, call[c].todo \ {l})
        \/ NextLine(c, call[c].todo)
    BY DEF StampRow, ExposeRow, StampFails
  <1>2. /\ call[c].at \in {"stamp", "expose"}
        /\ UNCHANGED <<arrived, runVars, plan, histVars>>
    BY DEF StampRow, ExposeRow, StampFails, histVars
  <1>. QED
    BY <1>1, <1>2, StampEffect

\* ListMatches reads the items of a row that is there.
LEMMA ListEffect ==
    ASSUME CallsOK, RowsOK, NEW c \in Tabs, ListForUnmatch(c)
    PROVE  /\ call' \in [Tabs -> CallType] /\ OthersStay(c)
           /\ call[c].at = "list" /\ call'[c].at \in {"done", "delete"}
           /\ call'[c].at = "delete" =>
                  \E r \in rows : /\ r.id = call'[c].row
                                  /\ r.line = call'[c].line /\ r.txn = call'[c].txn
  <1>1. CASE \E r \in rows : r.id = call[c].row
    <2>1. PICK r \in rows :
                 /\ r.id = call[c].row
                 /\ call' = [call EXCEPT ![c] = [@ EXCEPT !.at = "delete", !.line = r.line,
                                                          !.txn = r.txn]]
      BY <1>1 DEF ListForUnmatch
    <2> DEFINE new == [call[c] EXCEPT !.at = "delete", !.line = r.line, !.txn = r.txn]
    <2>2. call[c] \in CallType /\ RowShape(r)
      BY DEF CallsOK, RowsOK
    <2>3. /\ new \in CallType /\ new.at = "delete" /\ new.row = call[c].row
          /\ new.line = r.line /\ new.txn = r.txn
      BY <2>2 DEF CallType, RowShape
    <2>4. call' = [call EXCEPT ![c] = new]
      BY <2>1
    <2>5. call'[c] = new /\ call' \in [Tabs -> CallType] /\ OthersStay(c)
      BY <2>3, <2>4 DEF CallsOK, OthersStay
    <2>. QED
      BY <2>1, <2>3, <2>5 DEF ListForUnmatch
  <1>2. CASE ~ \E r \in rows : r.id = call[c].row
    BY <1>2, ReturnEffect DEF ListForUnmatch
  <1>. QED
    BY <1>1, <1>2

\* The shape of a call that has moved.
LEMMA CallsMoved ==
    ASSUME CallsOK, NEW c \in Tabs, call' \in [Tabs -> CallType], OthersStay(c),
           Shaped(call'[c])
    PROVE  CallsOK'
  BY DEF CallsOK, OthersStay

LEMMA CallTyped ==
    ASSUME CallsOK, NEW c \in Tabs
    PROVE  /\ call[c].line \in Lines \cup {None} /\ call[c].txn \in Txns \cup {None}
           /\ call[c].row \in Nat
           /\ Shaped(call[c])
  BY DEF CallsOK, CallType

-----------------------------------------------------------------------------
(* What the steps do to the rows.                                          *)

LEMMA RowsShrink ==
    ASSUME RowsOK, rows' \subseteq rows, UNCHANGED nextId
    PROVE  RowsOK'
  BY DEF RowsOK

LEMMA RowsGrow ==
    ASSUME RowsOK, NEW l, NEW t, NEW s, RowShape(Row(nextId, l, t, s)),
           rows' = rows \cup {Row(nextId, l, t, s)}, nextId' = nextId + 1
    PROVE  RowsOK'
  <1> DEFINE new == Row(nextId, l, t, s)
  <1>1. new.id = nextId
    BY DEF Row
  <1>2. \A r \in rows' : r.id \in 1 .. nextId' - 1 /\ RowShape(r)
    BY <1>1 DEF RowsOK
  <1>3. \A r, q \in rows' : r.id = q.id => r = q
    <2>1. \A r \in rows : r.id # nextId
      BY DEF RowsOK
    <2>. QED
      BY <1>1, <2>1 DEF RowsOK
  <1>. QED
    BY <1>2, <1>3 DEF RowsOK

\* The rows that a step adds.
LEMMA ShapedRows ==
    ASSUME CallsOK, NEW c \in Tabs
    PROVE  /\ call[c].at = "record" =>
                  RowShape(Row(nextId, call[c].line, call[c].txn, call[c].op))
           /\ call[c].line # None =>
                  RowShape(Row(nextId, call[c].line, None, "unmatched_bank"))
           /\ call[c].txn # None =>
                  RowShape(Row(nextId, None, call[c].txn, "unmatched_internal"))
           /\ call[c].at = "expose" =>
                  RowShape(Row(nextId, call[c].line, None, "exception"))
  BY CallTyped DEF RowShape, Row, Shaped

LEMMA RowsStep == TypeInv /\ [ReconNext]_reconVars => RowsOK'
  <1> SUFFICES ASSUME TypeInv, [ReconNext]_reconVars PROVE RowsOK'
    OBVIOUS
  <1> USE DEF TypeInv
  <1>1. ASSUME NEW r \in plan, AutoMatch(r) PROVE RowsOK'
    <2>1. RowShape(Row(nextId, r.line, r.txn, r.status))
      BY DEF PlanOK, RowShape, Row
    <2>. QED
      BY <1>1, <2>1, RowsGrow DEF AutoMatch
  <1>2. ASSUME NEW c \in Tabs, Record(c) PROVE RowsOK'
    BY <1>2, ShapedRows, RowsGrow DEF Record
  <1>3. ASSUME NEW c \in Tabs, ReopenBank(c) PROVE RowsOK'
    <2>1. CASE call[c].line = None
      BY <1>3, <2>1, RowsShrink DEF ReopenBank
    <2>2. CASE call[c].line # None
      BY <1>3, <2>2, ShapedRows, RowsGrow DEF ReopenBank
    <2>. QED
      BY <2>1, <2>2
  <1>4. ASSUME NEW c \in Tabs, ReopenInternal(c) PROVE RowsOK'
    <2>1. CASE call[c].txn = None
      BY <1>4, <2>1, RowsShrink DEF ReopenInternal
    <2>2. CASE call[c].txn # None
      BY <1>4, <2>2, ShapedRows, RowsGrow DEF ReopenInternal
    <2>. QED
      BY <2>1, <2>2
  <1>5. ASSUME NEW c \in Tabs, Clear(c) \/ DeleteForUnmatch(c) PROVE RowsOK'
    BY <1>5, RowsShrink DEF Clear, DeleteForUnmatch
  <1>6. ASSUME NEW c \in Tabs,
               \/ Calls(c) \/ ListForUnmatch(c) \/ StampRow(c) \/ Count(c) \/ AskReview(c)
               \/ WriteStatus(c) \/ WriteReview(c) \/ Faults(c)
        PROVE  UNCHANGED <<rows, nextId>>
    BY <1>6, BeginEffect DEF ListForUnmatch, StampRow, Count, AskReview, WriteStatus,
                             WriteReview, Faults, ReopenFails, StampFails, Die
  <1>7. CASE AutoMatchFails \/ UNCHANGED reconVars
    BY <1>7 DEF AutoMatchFails, reconVars, RowsOK
  <1>8. ASSUME NEW i \in Lines \cup Txns, Import(i) PROVE RowsOK'
    BY <1>8 DEF Import, RowsOK
  <1>9. ASSUME NEW c \in Tabs, ExposeRow(c) PROVE RowsOK'
    BY <1>9, ShapedRows, RowsGrow DEF ExposeRow
  <1>. QED
    BY <1>1, <1>2, <1>3, <1>4, <1>5, <1>6, <1>7, <1>8, <1>9, RowsShrink
       DEF ReconNext, Steps

LEMMA CallsStep == TypeInv /\ [ReconNext]_reconVars => CallsOK'
  <1> SUFFICES ASSUME TypeInv, [ReconNext]_reconVars PROVE CallsOK'
    OBVIOUS
  <1> USE DEF TypeInv
  <1>1. ASSUME NEW r \in plan, AutoMatch(r) PROVE CallsOK'
    BY <1>1 DEF AutoMatch, CallsOK
  <1>2. ASSUME AutoMatchFails PROVE CallsOK'
    BY <1>2 DEF AutoMatchFails, CallsOK
  <1>3. ASSUME NEW c \in Tabs, Calls(c) PROVE CallsOK'
    BY <1>3, BeginEffect, CallsMoved
  <1>4. ASSUME NEW c \in Tabs, Clear(c) PROVE CallsOK'
    <2>1. /\ call' \in [Tabs -> CallType] /\ OthersStay(c)
          /\ call'[c].at = "record" /\ SameItems(c)
      BY <1>4, GoToEffect DEF Clear, Labels
    <2>. QED
      BY <1>4, <2>1, CallTyped, CallsMoved DEF Clear, Shaped, SameItems
  <1>5. ASSUME NEW c \in Tabs, Record(c) PROVE CallsOK'
    <2>1. call' \in [Tabs -> CallType] /\ OthersStay(c) /\ call'[c].at = "done"
      BY <1>5, ReturnEffect DEF Record
    <2>. QED
      BY <2>1, CallsMoved DEF Shaped
  <1>6. ASSUME NEW c \in Tabs, ListForUnmatch(c) PROVE CallsOK'
    <2>1. /\ call' \in [Tabs -> CallType] /\ OthersStay(c)
          /\ call'[c].at \in {"done", "delete"}
      BY <1>6, ListEffect
    <2>. QED
      BY <2>1, CallsMoved DEF Shaped
  <1>7. ASSUME NEW c \in Tabs, DeleteForUnmatch(c) PROVE CallsOK'
    <2>1. /\ call' \in [Tabs -> CallType] /\ OthersStay(c)
          /\ call'[c].at = "bank" /\ SameItems(c)
      BY <1>7, GoToEffect DEF DeleteForUnmatch, Labels
    <2>. QED
      BY <1>7, <2>1, CallTyped, CallsMoved DEF DeleteForUnmatch, Shaped, SameItems
  <1>8. ASSUME NEW c \in Tabs, ReopenBank(c) PROVE CallsOK'
    <2>1. /\ call' \in [Tabs -> CallType] /\ OthersStay(c)
          /\ call'[c].at = "internal" /\ SameItems(c)
      BY <1>8, GoToEffect DEF ReopenBank, Labels
    <2>. QED
      BY <1>8, <2>1, CallTyped, CallsMoved DEF ReopenBank, Shaped, SameItems
  <1>9. ASSUME NEW c \in Tabs, ReopenInternal(c) PROVE CallsOK'
    <2>1. call' \in [Tabs -> CallType] /\ OthersStay(c) /\ call'[c].at = "done"
      BY <1>9, ReturnEffect DEF ReopenInternal
    <2>. QED
      BY <2>1, CallsMoved DEF Shaped
  <1>10. ASSUME NEW c \in Tabs, Count(c) PROVE CallsOK'
    <2>1. CASE OpenRows = {}
      <3>1. /\ call' \in [Tabs -> CallType] /\ OthersStay(c)
            /\ call'[c].at = "status" /\ SameItems(c) /\ call[c].at = "count"
        BY <1>10, <2>1, GoToEffect DEF Count, Labels
      <3>. QED
        BY <3>1, CallTyped, CallsMoved DEF Shaped, SameItems
    <2>2. CASE OpenRows # {}
      <3>1. call' \in [Tabs -> CallType] /\ OthersStay(c) /\ call'[c].at = "done"
        BY <1>10, <2>2, ReturnEffect DEF Count
      <3>. QED
        BY <3>1, CallsMoved DEF Shaped
    <2>. QED
      BY <2>1, <2>2
  <1>11. ASSUME NEW c \in Tabs, AskReview(c) PROVE CallsOK'
    <2>1. CASE review = "pending"
      <3>1. /\ call' \in [Tabs -> CallType] /\ OthersStay(c)
            /\ call'[c].at = "status" /\ SameItems(c) /\ call[c].at = "ask"
        BY <1>11, <2>1, GoToEffect DEF AskReview, Labels
      <3>. QED
        BY <3>1, CallTyped, CallsMoved DEF Shaped, SameItems
    <2>2. CASE review # "pending"
      <3>1. call' \in [Tabs -> CallType] /\ OthersStay(c) /\ call'[c].at = "done"
        BY <1>11, <2>2, ReturnEffect DEF AskReview
      <3>. QED
        BY <3>1, CallsMoved DEF Shaped
    <2>. QED
      BY <2>1, <2>2
  <1>12. ASSUME NEW c \in Tabs, WriteStatus(c) PROVE CallsOK'
    <2>1. CASE call[c].op = "close"
      <3>1. call' \in [Tabs -> CallType] /\ OthersStay(c) /\ call'[c].at = "done"
        BY <1>12, <2>1, ReturnEffect DEF WriteStatus
      <3>. QED
        BY <3>1, CallsMoved DEF Shaped
    <2>2. CASE call[c].op # "close"
      <3>1. /\ call' \in [Tabs -> CallType] /\ OthersStay(c)
            /\ call'[c].at = "review" /\ SameItems(c) /\ call[c].at = "status"
        BY <1>12, <2>2, GoToEffect DEF WriteStatus, Labels
      <3>. QED
        BY <2>2, <3>1, CallTyped, CallsMoved DEF Shaped, SameItems
    <2>. QED
      BY <2>1, <2>2
  <1>13. ASSUME NEW c \in Tabs, WriteReview(c) PROVE CallsOK'
    <2>1. call' \in [Tabs -> CallType] /\ OthersStay(c) /\ call'[c].at = "done"
      BY <1>13, ReturnEffect DEF WriteReview
    <2>. QED
      BY <2>1, CallsMoved DEF Shaped
  <1>14. ASSUME NEW c \in Tabs, ReopenFails(c) PROVE CallsOK'
    <2>1. CASE call[c].at = "bank"
      <3>1. /\ call' \in [Tabs -> CallType] /\ OthersStay(c)
            /\ call'[c].at = "internal" /\ SameItems(c)
        BY <1>14, <2>1, GoToEffect DEF ReopenFails, Labels
      <3>. QED
        BY <3>1, CallsMoved DEF Shaped, SameItems
    <2>2. CASE call[c].at # "bank"
      <3>1. call' \in [Tabs -> CallType] /\ OthersStay(c) /\ call'[c].at = "done"
        BY <1>14, <2>2, ReturnEffect DEF ReopenFails
      <3>. QED
        BY <3>1, CallsMoved DEF Shaped
    <2>. QED
      BY <2>1, <2>2
  <1>15. ASSUME NEW c \in Tabs, Die(c) PROVE CallsOK'
    <2>1. call' \in [Tabs -> CallType] /\ OthersStay(c) /\ call'[c].at = "done"
      BY <1>15, ReturnEffect DEF Die
    <2>. QED
      BY <2>1, CallsMoved DEF Shaped
  <1>16. CASE UNCHANGED reconVars
    BY <1>16 DEF reconVars, CallsOK
  <1>17. ASSUME NEW i \in Lines \cup Txns, Import(i) PROVE CallsOK'
    BY <1>17 DEF Import, CallsOK
  <1>18. ASSUME NEW c \in Tabs, StampRow(c) \/ ExposeRow(c) \/ StampFails(c)
         PROVE  CallsOK'
    BY <1>18, PayoutEffect, CallsMoved
  <1>. QED
    BY <1>1, <1>2, <1>3, <1>4, <1>5, <1>6, <1>7, <1>8, <1>9, <1>10, <1>11, <1>12,
       <1>13, <1>14, <1>15, <1>16, <1>17, <1>18
       DEF ReconNext, Steps, Faults

LEMMA PlanStep == TypeInv /\ [ReconNext]_reconVars => PlanOK'
  <1> SUFFICES ASSUME TypeInv, [ReconNext]_reconVars PROVE PlanOK'
    OBVIOUS
  <1>1. plan' \subseteq plan /\ faults' \in {faults, faults + 1}
    BY BeginEffect
       DEF TypeInv, ReconNext, Steps, Faults, Import, AutoMatch, AutoMatchFails, Clear,
           Record, ListForUnmatch, DeleteForUnmatch, ReopenBank, ReopenInternal, StampRow,
           ExposeRow, StampFails, Count, AskReview, WriteStatus, WriteReview, ReopenFails,
           Die, reconVars
  <1>. QED
    BY <1>1 DEF TypeInv, PlanOK

\* What AutoMatch has read stays so, and what is in the database stays there.
LEMMA ItemsStep == TypeInv /\ [ReconNext]_reconVars => ItemsOK' /\ read' = read
  <1> SUFFICES ASSUME TypeInv, [ReconNext]_reconVars PROVE ItemsOK' /\ read' = read
    OBVIOUS
  <1>1. read' = read
    BY BeginEffect
       DEF TypeInv, ReconNext, Steps, Faults, Import, AutoMatch, AutoMatchFails, Clear,
           Record, ListForUnmatch, DeleteForUnmatch, ReopenBank, ReopenInternal, StampRow,
           ExposeRow, StampFails, Count, AskReview, WriteStatus, WriteReview, ReopenFails,
           Die, reconVars, histVars
  <1>2. arrived' = arrived \/ \E i \in Lines \cup Txns : arrived' = arrived \cup {i}
    BY BeginEffect
       DEF TypeInv, ReconNext, Steps, Faults, Import, AutoMatch, AutoMatchFails, Clear,
           Record, ListForUnmatch, DeleteForUnmatch, ReopenBank, ReopenInternal, StampRow,
           ExposeRow, StampFails, Count, AskReview, WriteStatus, WriteReview, ReopenFails,
           Die, reconVars
  <1>. QED
    BY <1>1, <1>2 DEF TypeInv, ItemsOK

\* The steps that touch the columns and the history.
LEMMA ColumnsKept ==
    ASSUME TypeInv, [ReconNext]_reconVars,
           ~ \E c \in Tabs : Clear(c) \/ WriteStatus(c) \/ WriteReview(c)
    PROVE  UNCHANGED <<runVars, histVars>>
  BY BeginEffect
     DEF TypeInv, ReconNext, Steps, Faults, Import, AutoMatch, AutoMatchFails, Record,
         ListForUnmatch, DeleteForUnmatch, ReopenBank, ReopenInternal, StampRow, ExposeRow,
         StampFails, Count, AskReview, ReopenFails, Die, reconVars

LEMMA ColumnsTyped == TypeInv /\ [ReconNext]_reconVars => ColumnsOK'
  <1> SUFFICES ASSUME TypeInv, [ReconNext]_reconVars PROVE ColumnsOK'
    OBVIOUS
  <1> USE DEF TypeInv, ColumnsOK
  <1>1. ASSUME NEW c \in Tabs, Clear(c) PROVE ColumnsOK'
    BY <1>1 DEF Clear, runVars
  <1>3. ASSUME NEW c \in Tabs, WriteStatus(c) PROVE ColumnsOK'
    <2>1. call[c].op \in {"submit", "approve", "reject", "close"}
      BY <1>3, CallTyped DEF WriteStatus, Shaped
    <2>2. status' \in {"in_progress", "pending_review", "closed"}
      BY <1>3, <2>1 DEF WriteStatus, NewStatus
    <2>. QED
      BY <1>3, <2>2 DEF WriteStatus
  <1>4. ASSUME NEW c \in Tabs, WriteReview(c) PROVE ColumnsOK'
    <2>1. call[c].op \in {"submit", "approve", "reject"}
      BY <1>4, CallTyped DEF WriteReview, Shaped
    <2>2. review' \in {"pending", "approved", "rejected"}
      BY <1>4, <2>1 DEF WriteReview, NewReview
    <2>. QED
      BY <1>4, <2>2 DEF WriteReview, histVars
  <1>. QED
    BY <1>1, <1>3, <1>4, ColumnsKept DEF runVars, histVars

LEMMA TypesStep == TypeInv /\ [ReconNext]_reconVars => TypeInv'
  BY RowsStep, CallsStep, PlanStep, ColumnsTyped, ItemsStep DEF TypeInv

-----------------------------------------------------------------------------
(* An unmatch call knows the row that it deletes.                          *)

\* Ids grow and rows are never rewritten.
RowsMove == nextId' >= nextId /\ \A r \in rows' : r \in rows \/ r.id >= nextId

LEMMA RowsMoveStep == TypeInv /\ [ReconNext]_reconVars => RowsMove
  <1> SUFFICES ASSUME TypeInv, [ReconNext]_reconVars PROVE RowsMove
    OBVIOUS
  <1>1. nextId \in Nat
    BY DEF TypeInv, RowsOK
  <1>2. \/ rows' \subseteq rows /\ nextId' = nextId
        \/ \E l, t, x : rows' = rows \cup {Row(nextId, l, t, x)} /\ nextId' = nextId + 1
    BY BeginEffect
       DEF TypeInv, ReconNext, Steps, Faults, Import, AutoMatch, AutoMatchFails, Clear,
           Record, ListForUnmatch, DeleteForUnmatch, ReopenBank, ReopenInternal, StampRow,
           ExposeRow, StampFails, Count, AskReview, WriteStatus, WriteReview, ReopenFails,
           Die, reconVars
  <1>3. \A l, t, x : Row(nextId, l, t, x).id = nextId
    BY DEF Row
  <1>. QED
    BY <1>1, <1>2, <1>3 DEF RowsMove

\* No statement but the read of the row leads to the DELETE.
DeletesListed == \A d \in Tabs : call'[d].at = "delete" =>
                     call'[d] = call[d] \/ ListForUnmatch(d)

LEMMA DeletesStep == TypeInv /\ [ReconNext]_reconVars => DeletesListed
  <1> SUFFICES ASSUME TypeInv, [ReconNext]_reconVars PROVE DeletesListed
    OBVIOUS
  <1> USE DEF TypeInv, DeletesListed
  <1>1. ASSUME NEW r \in plan, AutoMatch(r) PROVE DeletesListed
    BY <1>1 DEF AutoMatch
  <1>2. ASSUME AutoMatchFails PROVE DeletesListed
    BY <1>2 DEF AutoMatchFails
  <1>3. ASSUME NEW c \in Tabs, Calls(c) PROVE DeletesListed
    BY <1>3, BeginEffect DEF OthersStay
  <1>4. ASSUME NEW c \in Tabs, Clear(c) PROVE DeletesListed
    BY <1>4, GoToEffect DEF Clear, OthersStay, Labels
  <1>5. ASSUME NEW c \in Tabs, Record(c) PROVE DeletesListed
    BY <1>5, ReturnEffect DEF Record, OthersStay
  <1>6. ASSUME NEW c \in Tabs, ListForUnmatch(c) PROVE DeletesListed
    BY <1>6, ListEffect DEF OthersStay
  <1>7. ASSUME NEW c \in Tabs, DeleteForUnmatch(c) PROVE DeletesListed
    BY <1>7, GoToEffect DEF DeleteForUnmatch, OthersStay, Labels
  <1>8. ASSUME NEW c \in Tabs, ReopenBank(c) PROVE DeletesListed
    BY <1>8, GoToEffect DEF ReopenBank, OthersStay, Labels
  <1>9. ASSUME NEW c \in Tabs, ReopenInternal(c) PROVE DeletesListed
    BY <1>9, ReturnEffect DEF ReopenInternal, OthersStay
  <1>10. ASSUME NEW c \in Tabs, Count(c) PROVE DeletesListed
    BY <1>10, GoToEffect, ReturnEffect DEF Count, OthersStay, Labels
  <1>11. ASSUME NEW c \in Tabs, AskReview(c) PROVE DeletesListed
    BY <1>11, GoToEffect, ReturnEffect DEF AskReview, OthersStay, Labels
  <1>12. ASSUME NEW c \in Tabs, WriteStatus(c) PROVE DeletesListed
    BY <1>12, GoToEffect, ReturnEffect DEF WriteStatus, OthersStay, Labels
  <1>13. ASSUME NEW c \in Tabs, WriteReview(c) PROVE DeletesListed
    BY <1>13, ReturnEffect DEF WriteReview, OthersStay
  <1>14. ASSUME NEW c \in Tabs, ReopenFails(c) PROVE DeletesListed
    BY <1>14, GoToEffect, ReturnEffect DEF ReopenFails, OthersStay, Labels
  <1>15. ASSUME NEW c \in Tabs, Die(c) PROVE DeletesListed
    BY <1>15, ReturnEffect DEF Die, OthersStay
  <1>16. CASE UNCHANGED reconVars
    BY <1>16 DEF reconVars
  <1>17. ASSUME NEW i \in Lines \cup Txns, Import(i) PROVE DeletesListed
    BY <1>17 DEF Import
  <1>18. ASSUME NEW c \in Tabs, StampRow(c) \/ ExposeRow(c) \/ StampFails(c)
         PROVE  DeletesListed
    BY <1>18, PayoutEffect DEF OthersStay
  <1>. QED
    BY <1>1, <1>2, <1>3, <1>4, <1>5, <1>6, <1>7, <1>8, <1>9, <1>10, <1>11, <1>12,
       <1>13, <1>14, <1>15, <1>16, <1>17, <1>18
       DEF ReconNext, Steps, Faults

LEMMA NamesStep == TypeInv /\ NamesInv /\ [ReconNext]_reconVars => NamesInv'
  <1> SUFFICES ASSUME TypeInv, NamesInv, [ReconNext]_reconVars PROVE NamesInv'
    OBVIOUS
  <1> USE DEF TypeInv, RowsOK
  <1>1. RowsMove /\ DeletesListed /\ nextId' \in Nat
    BY RowsMoveStep, DeletesStep, RowsStep
  <1>2. SUFFICES ASSUME NEW d \in Tabs, call'[d].at = "delete"
                 PROVE  /\ call'[d].row < nextId'
                        /\ \A r \in rows' : r.id = call'[d].row =>
                               r.line = call'[d].line /\ r.txn = call'[d].txn
    BY DEF NamesInv
  <1>3. call'[d].row \in Nat
    BY CallsStep DEF CallsOK, CallType
  <1>4. CASE call'[d] = call[d]
    BY <1>1, <1>2, <1>3, <1>4 DEF RowsMove, NamesInv
  <1>5. CASE ListForUnmatch(d)
    <2>1. PICK r \in rows : /\ r.id = call'[d].row
                            /\ r.line = call'[d].line /\ r.txn = call'[d].txn
      BY <1>2, <1>5, ListEffect
    <2>2. rows' = rows /\ nextId' = nextId
      BY <1>5 DEF ListForUnmatch
    <2>. QED
      BY <2>1, <2>2
  <1>. QED
    BY <1>1, <1>2, <1>4, <1>5 DEF DeletesListed

-----------------------------------------------------------------------------
(* Every line and transaction is somewhere.                                *)

Kept ==
    ~torn' /\ faults' = 0 =>
        /\ ~torn /\ faults = 0
        /\ \A l \in Lines : LineKept(l) => LineKept(l)'
        /\ \A t \in Txns : TxnKept(t) => TxnKept(t)'

\* A step that removes no row keeps what the page's own call was holding.
LEMMA KeptBy ==
    ASSUME NEW c \in Tabs, OthersStay(c), rows \subseteq rows', plan' = plan,
           torn' = torn, faults' = faults,
           \A l \in Lines : call[c].at \in {"record", "bank"} /\ call[c].line = l
                                => LineKept(l)',
           \A t \in Txns : call[c].at \in {"record", "bank", "internal"} /\ call[c].txn = t
                                => TxnKept(t)'
    PROVE  Kept
  <1>1. ASSUME NEW l \in Lines, LineKept(l) PROVE LineKept(l)'
    BY <1>1 DEF LineKept, OthersStay
  <1>2. ASSUME NEW t \in Txns, TxnKept(t) PROVE TxnKept(t)'
    BY <1>2 DEF TxnKept, OthersStay
  <1>. QED
    BY <1>1, <1>2 DEF Kept

LEMMA KeptStep == TypeInv /\ NamesInv /\ [ReconNext]_reconVars => Kept
  <1> SUFFICES ASSUME TypeInv, NamesInv, [ReconNext]_reconVars PROVE Kept
    OBVIOUS
  <1> USE DEF TypeInv, Kept
  <1>1. ASSUME NEW r \in plan, AutoMatch(r) PROVE Kept
    <2>1. /\ plan' = plan \ {r} /\ UNCHANGED <<call, torn, faults>>
          /\ rows' = rows \cup {Row(nextId, r.line, r.txn, r.status)}
      BY <1>1 DEF AutoMatch, histVars
    <2>2. \E q \in rows' : q.line = r.line /\ q.txn = r.txn /\ q.status # "exception"
      <3>1. /\ Row(nextId, r.line, r.txn, r.status).line = r.line
            /\ Row(nextId, r.line, r.txn, r.status).txn = r.txn
            /\ Row(nextId, r.line, r.txn, r.status).status # "exception"
        BY DEF Row, PlanOK
      <3>. QED
        BY <2>1, <3>1
    <2>3. ASSUME NEW l \in Lines, LineKept(l) PROVE LineKept(l)'
      BY <2>1, <2>2, <2>3 DEF LineKept
    <2>4. ASSUME NEW t \in Txns, TxnKept(t) PROVE TxnKept(t)'
      BY <2>1, <2>2, <2>4 DEF TxnKept
    <2>. QED
      BY <2>1, <2>3, <2>4
  <1>2. ASSUME AutoMatchFails PROVE Kept
    BY <1>2 DEF AutoMatchFails, PlanOK
  <1>3. ASSUME NEW c \in Tabs, Calls(c) PROVE Kept
    <2>1. /\ OthersStay(c) /\ rows' = rows /\ plan' = plan
          /\ torn' = torn /\ faults' = faults
          /\ call[c].at \notin {"record", "bank", "internal"}
      BY <1>3, BeginEffect DEF histVars
    <2>. QED
      BY <2>1, KeptBy
  <1>4. ASSUME NEW c \in Tabs, Clear(c) PROVE Kept
    <2>1. /\ call[c].at = "clear" /\ OthersStay(c) /\ call'[c].at = "record" /\ SameItems(c)
          /\ UNCHANGED <<plan, faults>>
      BY <1>4, GoToEffect DEF Clear, Labels
    <2>2. ASSUME ~torn', NEW r \in rows, r \notin rows'
          PROVE  r.line \in {None, call[c].line} /\ r.txn \in {None, call[c].txn}
      BY <1>4, <2>2 DEF Clear
    <2>3. torn => torn'
      BY <1>4 DEF Clear
    <2>4. ASSUME ~torn', NEW l \in Lines, LineKept(l) PROVE LineKept(l)'
      BY <2>1, <2>2, <2>4, ReconAssumption DEF LineKept, OthersStay, SameItems
    <2>5. ASSUME ~torn', NEW t \in Txns, TxnKept(t) PROVE TxnKept(t)'
      BY <2>1, <2>2, <2>5, ReconAssumption DEF TxnKept, OthersStay, SameItems
    <2>. QED
      BY <2>1, <2>3, <2>4, <2>5
  <1>5. ASSUME NEW c \in Tabs, Record(c) PROVE Kept
    <2>1. /\ call[c].at = "record" /\ OthersStay(c) /\ UNCHANGED <<plan, torn, faults>>
          /\ rows' = rows \cup {Row(nextId, call[c].line, call[c].txn, call[c].op)}
      BY <1>5, ReturnEffect DEF Record, histVars
    <2>2. \E q \in rows' : /\ q.line = call[c].line /\ q.txn = call[c].txn
                            /\ q.status # "exception"
      <3>1. /\ Row(nextId, call[c].line, call[c].txn, call[c].op).line = call[c].line
            /\ Row(nextId, call[c].line, call[c].txn, call[c].op).txn = call[c].txn
            /\ Row(nextId, call[c].line, call[c].txn, call[c].op).status # "exception"
        BY <2>1, CallTyped DEF Row, Shaped
      <3>. QED
        BY <2>1, <3>1
    <2>3. \A l \in Lines : call[c].line = l => LineKept(l)'
      BY <2>2 DEF LineKept
    <2>4. \A t \in Txns : call[c].txn = t => TxnKept(t)'
      BY <2>2 DEF TxnKept
    <2>. QED
      BY <2>1, <2>3, <2>4, KeptBy
  <1>6. ASSUME NEW c \in Tabs, ListForUnmatch(c) PROVE Kept
    <2>1. /\ OthersStay(c) /\ rows' = rows /\ plan' = plan
          /\ torn' = torn /\ faults' = faults
          /\ call[c].at \notin {"record", "bank", "internal"}
      BY <1>6, ListEffect DEF ListForUnmatch, histVars
    <2>. QED
      BY <2>1, KeptBy
  <1>7. ASSUME NEW c \in Tabs, DeleteForUnmatch(c) PROVE Kept
    <2>1. /\ call[c].at = "delete" /\ OthersStay(c) /\ call'[c].at = "bank" /\ SameItems(c)
          /\ UNCHANGED <<plan, torn, faults>>
      BY <1>7, GoToEffect DEF DeleteForUnmatch, Labels, histVars
    <2>2. ASSUME NEW r \in rows, r \notin rows'
          PROVE  r.line = call[c].line /\ r.txn = call[c].txn
      BY <1>7, <2>1, <2>2 DEF DeleteForUnmatch, NamesInv
    <2>3. ASSUME NEW l \in Lines, LineKept(l) PROVE LineKept(l)'
      BY <2>1, <2>2, <2>3 DEF LineKept, OthersStay, SameItems
    <2>4. ASSUME NEW t \in Txns, TxnKept(t) PROVE TxnKept(t)'
      BY <2>1, <2>2, <2>4 DEF TxnKept, OthersStay, SameItems
    <2>. QED
      BY <2>1, <2>3, <2>4
  <1>8. ASSUME NEW c \in Tabs, ReopenBank(c) PROVE Kept
    <2>1. /\ call[c].at = "bank" /\ OthersStay(c) /\ call'[c].at = "internal"
          /\ SameItems(c) /\ UNCHANGED <<plan, torn, faults>> /\ rows \subseteq rows'
      BY <1>8, GoToEffect DEF ReopenBank, Labels, histVars
    <2>2. \A t \in Txns : call[c].txn = t => TxnKept(t)'
      BY <2>1 DEF TxnKept, SameItems
    <2>3. \A l \in Lines : call[c].line = l => LineKept(l)'
      <3>1. CASE call[c].line = None
        BY <3>1, ReconAssumption
      <3>2. CASE call[c].line # None
        <4>1. Row(nextId, call[c].line, None, "unmatched_bank") \in rows'
          BY <1>8, <3>2 DEF ReopenBank
        <4>. QED
          BY <4>1 DEF LineKept, Row
      <3>. QED
        BY <3>1, <3>2
    <2>. QED
      BY <2>1, <2>2, <2>3, KeptBy
  <1>9. ASSUME NEW c \in Tabs, ReopenInternal(c) PROVE Kept
    <2>1. /\ call[c].at = "internal" /\ OthersStay(c) /\ UNCHANGED <<plan, torn, faults>>
          /\ rows \subseteq rows'
      BY <1>9, ReturnEffect DEF ReopenInternal, histVars
    <2>2. \A t \in Txns : call[c].txn = t => TxnKept(t)'
      <3>1. CASE call[c].txn = None
        BY <3>1, ReconAssumption
      <3>2. CASE call[c].txn # None
        <4>1. Row(nextId, None, call[c].txn, "unmatched_internal") \in rows'
          BY <1>9, <3>2 DEF ReopenInternal
        <4>. QED
          BY <4>1 DEF TxnKept, Row
      <3>. QED
        BY <3>1, <3>2
    <2>. QED
      BY <2>1, <2>2, KeptBy
  <1>10. ASSUME NEW c \in Tabs, Count(c) PROVE Kept
    <2>1. /\ OthersStay(c) /\ rows' = rows /\ plan' = plan
          /\ torn' = torn /\ faults' = faults
          /\ call[c].at \notin {"record", "bank", "internal"}
      BY <1>10, GoToEffect, ReturnEffect DEF Count, Labels, histVars
    <2>. QED
      BY <2>1, KeptBy
  <1>11. ASSUME NEW c \in Tabs, AskReview(c) PROVE Kept
    <2>1. /\ OthersStay(c) /\ rows' = rows /\ plan' = plan
          /\ torn' = torn /\ faults' = faults
          /\ call[c].at \notin {"record", "bank", "internal"}
      BY <1>11, GoToEffect, ReturnEffect DEF AskReview, Labels, histVars
    <2>. QED
      BY <2>1, KeptBy
  <1>12. ASSUME NEW c \in Tabs, WriteStatus(c) PROVE Kept
    <2>1. /\ OthersStay(c) /\ rows' = rows /\ plan' = plan
          /\ torn' = torn /\ faults' = faults
          /\ call[c].at \notin {"record", "bank", "internal"}
      BY <1>12, GoToEffect, ReturnEffect DEF WriteStatus, Labels
    <2>. QED
      BY <2>1, KeptBy
  <1>13. ASSUME NEW c \in Tabs, WriteReview(c) PROVE Kept
    <2>1. /\ OthersStay(c) /\ rows' = rows /\ plan' = plan
          /\ torn' = torn /\ faults' = faults
          /\ call[c].at \notin {"record", "bank", "internal"}
      BY <1>13, ReturnEffect DEF WriteReview, histVars
    <2>. QED
      BY <2>1, KeptBy
  <1>14. ASSUME NEW c \in Tabs, ReopenFails(c) PROVE Kept
    BY <1>14 DEF ReopenFails, PlanOK
  <1>15. ASSUME NEW c \in Tabs, Die(c) PROVE Kept
    BY <1>15 DEF Die, PlanOK
  <1>16. CASE UNCHANGED reconVars
    BY <1>16 DEF reconVars, histVars, LineKept, TxnKept
  <1>17. ASSUME NEW i \in Lines \cup Txns, Import(i) PROVE Kept
    BY <1>17 DEF Import, histVars, LineKept, TxnKept
  <1>18. ASSUME NEW c \in Tabs, StampRow(c) \/ ExposeRow(c) \/ StampFails(c)
         PROVE  Kept
    <2>1. /\ OthersStay(c) /\ plan' = plan /\ torn' = torn
          /\ call[c].at \notin {"record", "bank", "internal"}
      BY <1>18, PayoutEffect DEF histVars
    <2>2. rows \subseteq rows'
      BY <1>18 DEF StampRow, ExposeRow, StampFails
    <2>3. CASE faults' = faults
      BY <2>1, <2>2, <2>3, KeptBy
    <2>4. CASE faults' = faults + 1
      BY <2>4 DEF PlanOK
    <2>. QED
      BY <1>18, <2>3, <2>4 DEF StampRow, ExposeRow, StampFails
  <1>. QED
    BY <1>1, <1>2, <1>3, <1>4, <1>5, <1>6, <1>7, <1>8, <1>9, <1>10, <1>11, <1>12,
       <1>13, <1>14, <1>15, <1>16, <1>17, <1>18
       DEF ReconNext, Steps, Faults

-----------------------------------------------------------------------------
(* The two status columns.                                                 *)

\* What all steps but the counts, the reads of the review and the two UPDATEs do
\* to the calls that have come so far.
Elsewhere ==
    /\ UNCHANGED <<status, review, crossed>>
    /\ \A d \in Tabs : call'[d].at \in {"status", "review"} => call'[d] = call[d]
    /\ faults' = 0 =>
           faults = 0 /\ \A d \in Tabs : call[d].at = "review" => call'[d] = call[d]

Turning(c) == Count(c) \/ AskReview(c) \/ WriteStatus(c) \/ WriteReview(c)

ElsewhereOrTurning == Elsewhere \/ \E c \in Tabs : Turning(c)

LEMMA ElsewhereStep == TypeInv /\ [ReconNext]_reconVars => ElsewhereOrTurning
  <1> SUFFICES ASSUME TypeInv, [ReconNext]_reconVars PROVE ElsewhereOrTurning
    OBVIOUS
  <1> USE DEF TypeInv, ElsewhereOrTurning, Elsewhere
  <1>1. ASSUME NEW r \in plan, AutoMatch(r) PROVE ElsewhereOrTurning
    BY <1>1 DEF AutoMatch, runVars, histVars
  <1>2. ASSUME AutoMatchFails PROVE ElsewhereOrTurning
    BY <1>2 DEF AutoMatchFails, runVars, histVars, PlanOK
  <1>3. ASSUME NEW c \in Tabs, Calls(c) PROVE ElsewhereOrTurning
    BY <1>3, BeginEffect DEF OthersStay, runVars, histVars
  <1>4. ASSUME NEW c \in Tabs, Clear(c) PROVE ElsewhereOrTurning
    BY <1>4, GoToEffect DEF Clear, OthersStay, Labels, runVars
  <1>5. ASSUME NEW c \in Tabs, Record(c) PROVE ElsewhereOrTurning
    BY <1>5, ReturnEffect DEF Record, OthersStay, runVars, histVars
  <1>6. ASSUME NEW c \in Tabs, ListForUnmatch(c) PROVE ElsewhereOrTurning
    BY <1>6, ListEffect DEF ListForUnmatch, OthersStay, runVars, histVars
  <1>7. ASSUME NEW c \in Tabs, DeleteForUnmatch(c) PROVE ElsewhereOrTurning
    BY <1>7, GoToEffect DEF DeleteForUnmatch, OthersStay, Labels, runVars, histVars
  <1>8. ASSUME NEW c \in Tabs, ReopenBank(c) PROVE ElsewhereOrTurning
    BY <1>8, GoToEffect DEF ReopenBank, OthersStay, Labels, runVars, histVars
  <1>9. ASSUME NEW c \in Tabs, ReopenInternal(c) PROVE ElsewhereOrTurning
    BY <1>9, ReturnEffect DEF ReopenInternal, OthersStay, runVars, histVars
  <1>10. ASSUME NEW c \in Tabs, Count(c) PROVE ElsewhereOrTurning
    BY <1>10 DEF Turning
  <1>11. ASSUME NEW c \in Tabs, AskReview(c) PROVE ElsewhereOrTurning
    BY <1>11 DEF Turning
  <1>12. ASSUME NEW c \in Tabs, WriteStatus(c) PROVE ElsewhereOrTurning
    BY <1>12 DEF Turning
  <1>13. ASSUME NEW c \in Tabs, WriteReview(c) PROVE ElsewhereOrTurning
    BY <1>13 DEF Turning
  <1>14. ASSUME NEW c \in Tabs, ReopenFails(c) PROVE ElsewhereOrTurning
    BY <1>14, GoToEffect, ReturnEffect DEF ReopenFails, OthersStay, Labels,
                                              runVars, histVars, PlanOK
  <1>15. ASSUME NEW c \in Tabs, Die(c) PROVE ElsewhereOrTurning
    BY <1>15, ReturnEffect DEF Die, OthersStay, runVars, histVars, PlanOK
  <1>16. CASE UNCHANGED reconVars
    BY <1>16 DEF reconVars, runVars, histVars
  <1>17. ASSUME NEW i \in Lines \cup Txns, Import(i) PROVE ElsewhereOrTurning
    BY <1>17 DEF Import, runVars, histVars
  <1>18. ASSUME NEW c \in Tabs, StampRow(c) \/ ExposeRow(c) \/ StampFails(c)
         PROVE  ElsewhereOrTurning
    <2>1. faults' \in {faults, faults + 1}
      BY <1>18 DEF StampRow, ExposeRow, StampFails
    <2>. QED
      BY <1>18, <2>1, PayoutEffect DEF OthersStay, runVars, histVars, PlanOK
  <1>. QED
    BY <1>1, <1>2, <1>3, <1>4, <1>5, <1>6, <1>7, <1>8, <1>9, <1>10, <1>11, <1>12,
       <1>13, <1>14, <1>15, <1>16, <1>17, <1>18
       DEF ReconNext, Steps, Faults

LEMMA ColumnsStep == TypeInv /\ ColumnsInv /\ [ReconNext]_reconVars => ColumnsInv'
  <1> SUFFICES ASSUME TypeInv, ColumnsInv, [ReconNext]_reconVars PROVE ColumnsInv'
    OBVIOUS
  <1> USE DEF TypeInv, ColumnsInv
  <1>1. CASE Elsewhere
    BY <1>1 DEF Elsewhere
  <1>2. ASSUME NEW c \in Tabs, Count(c) \/ AskReview(c) PROVE ColumnsInv'
    <2>1. /\ UNCHANGED <<status, review, crossed, faults>> /\ OthersStay(c)
          /\ call[c].at # "review" /\ call'[c].at # "review"
      BY <1>2, GoToEffect, ReturnEffect DEF Count, AskReview, runVars, histVars, Labels
    <2>. QED
      BY <2>1 DEF OthersStay
  <1>3. ASSUME NEW c \in Tabs, WriteStatus(c), call[c].op = "close" PROVE ColumnsInv'
    <2>1. status' = "closed"
      BY <1>3 DEF WriteStatus, NewStatus
    <2>2. OthersStay(c) /\ call'[c].at = "done"
      BY <1>3, ReturnEffect DEF WriteStatus
    <2>3. crossed => crossed'
      BY <1>3 DEF WriteStatus
    <2>. QED
      BY <2>1, <2>2, <2>3 DEF OthersStay
  <1>4. ASSUME NEW c \in Tabs, WriteStatus(c), call[c].op # "close", ~crossed'
        PROVE  ColumnsInv'
    <2>1. /\ call[c].at = "status" /\ OthersStay(c)
          /\ call'[c].at = "review" /\ SameItems(c)
      BY <1>4, GoToEffect DEF WriteStatus, Labels
    <2>2. \A d \in Tabs \ {c} : call[d].at = "review" => call[d].op # "close"
      BY CallTyped DEF Shaped
    <2>3. \A d \in Tabs \ {c} : call'[d].at # "review"
      BY <1>4, <2>1, <2>2 DEF WriteStatus, Writing, OthersStay
    <2>4. call[c].op \in {"submit", "approve", "reject"}
      BY <1>4, <2>1, CallTyped DEF Shaped
    <2>5. status' = "pending_review" => call'[c].op = "submit"
      BY <1>4, <2>1, <2>4 DEF WriteStatus, NewStatus, SameItems
    <2>. QED
      BY <2>1, <2>3, <2>5
  <1>5. ASSUME NEW c \in Tabs, WriteReview(c) PROVE ColumnsInv'
    <2>1. /\ UNCHANGED <<status, crossed, faults>> /\ OthersStay(c)
          /\ call[c].at = "review" /\ call'[c].at = "done"
      BY <1>5, ReturnEffect DEF WriteReview, histVars
    <2>2. call[c].op = "submit" => review' = "pending"
      BY <1>5 DEF WriteReview, NewReview
    <2>. QED
      BY <2>1, <2>2 DEF OthersStay
  <1>. QED
    BY <1>1, <1>2, <1>3, <1>4, <1>5, ElsewhereStep DEF ElsewhereOrTurning, Turning

-----------------------------------------------------------------------------
(* The theorems.                                                           *)

LEMMA InitInv == ReconInit => IInv
  <1> SUFFICES ASSUME ReconInit PROVE IInv
    OBVIOUS
  <1> USE DEF ReconInit
  <1>1. PICK pairs \in SUBSET ((Lines \cap read) \X (Txns \cap read)) :
               plan = AutoRows(read, pairs)
    OBVIOUS
  <1>2. \A p \in plan : RowShape(p) /\ p.status # "exception"
    BY <1>1, ReconAssumption DEF AutoRows, RowShape
  <1>3. ASSUME NEW l \in Lines \cap read PROVE LineKept(l)
    <2>1. CASE \E p \in pairs : p[1] = l
      <3>1. PICK p \in pairs : p[1] = l
        BY <2>1
      <3>2. [line |-> p[1], txn |-> p[2], status |-> "matched"] \in plan
        BY <1>1 DEF AutoRows
      <3>. QED
        BY <3>1, <3>2 DEF LineKept
    <2>2. CASE \A p \in pairs : p[1] # l
      <3>1. [line |-> l, txn |-> None, status |-> "unmatched_bank"] \in plan
        BY <1>1, <2>2 DEF AutoRows
      <3>. QED
        BY <3>1 DEF LineKept
    <2>. QED
      BY <2>1, <2>2
  <1>4. ASSUME NEW t \in Txns \cap read PROVE TxnKept(t)
    <2>1. CASE \E p \in pairs : p[2] = t
      <3>1. PICK p \in pairs : p[2] = t
        BY <2>1
      <3>2. [line |-> p[1], txn |-> p[2], status |-> "matched"] \in plan
        BY <1>1 DEF AutoRows
      <3>. QED
        BY <3>1, <3>2 DEF TxnKept
    <2>2. CASE \A p \in pairs : p[2] # t
      <3>1. [line |-> None, txn |-> t, status |-> "unmatched_internal"] \in plan
        BY <1>1, <2>2 DEF AutoRows
      <3>. QED
        BY <3>1 DEF TxnKept
    <2>. QED
      BY <2>1, <2>2
  <1>5. NoCall \in CallType /\ Shaped(NoCall) /\ NoCall.at = "done"
    BY DEF NoCall, CallType, Shaped
  <1>6. TypeInv
    <2>1. RowsOK
      BY DEF RowsOK
    <2>2. ColumnsOK
      BY DEF ColumnsOK
    <2>3. PlanOK
      BY <1>2 DEF PlanOK
    <2>4. CallsOK
      BY <1>5 DEF CallsOK
    <2>5. ItemsOK
      BY DEF ItemsOK
    <2>. QED
      BY <2>1, <2>2, <2>3, <2>4, <2>5 DEF TypeInv
  <1>7. NamesInv /\ ColumnsInv
    BY <1>5 DEF NamesInv, ColumnsInv
  <1>. QED
    BY <1>3, <1>4, <1>6, <1>7 DEF IInv, KeptInv

LEMMA InvHolds == Spec => []IInv
  <1>1. IInv /\ [ReconNext]_reconVars => IInv'
    <2> SUFFICES ASSUME IInv, [ReconNext]_reconVars PROVE IInv'
      OBVIOUS
    <2>1. KeptInv'
      BY KeptStep, ItemsStep DEF IInv, KeptInv, Kept
    <2>. QED
      BY <2>1, TypesStep, NamesStep, ColumnsStep DEF IInv
  <1>. QED
    BY InitInv, <1>1, PTL DEF Spec

\* Rows have the shape of their status, the payout check's "exception" rows included,
\* and ids of their own, and the columns hold the values the code stores, whatever the
\* statements of the calls and the imports do.
THEOREM TypeCorrect == Spec => []TypeOK
  <1>1. IInv => TypeOK
    BY DEF IInv, TypeInv, RowsOK, ColumnsOK, ItemsOK, RowShape, TypeOK
  <1>. QED
    BY InvHolds, <1>1, PTL

\* When nothing is going on, GetRunSummary finds no open row only if every line and
\* every transaction that AutoMatch has read is matched or adjusted, whatever has been
\* imported since, unless a call tore a pair apart or a statement failed.
THEOREM ZeroCountTrue == Spec => []ZeroCountMeansResolved
  <1>1. IInv => ZeroCountMeansResolved
    <2> SUFFICES ASSUME IInv, Quiet, ~torn, faults = 0, OpenRows = {}
                 PROVE  Unresolved \cap read = {}
      BY DEF ZeroCountMeansResolved
    <2>1. \A c \in Tabs : call[c].at = "done"
      BY DEF Quiet, NoCall
    <2>2. \A r \in rows : Settled(r) \/ (r.status = "exception" /\ r.txn = None)
      BY DEF IInv, TypeInv, RowsOK, RowShape, OpenRows, Settled
    <2>3. \A l \in Lines \cap read : \E r \in rows : r.line = l /\ Settled(r)
      BY <2>1, <2>2 DEF IInv, KeptInv, LineKept, Quiet
    <2>4. \A t \in Txns \cap read : \E r \in rows : r.txn = t /\ Settled(r)
      BY <2>1, <2>2, ReconAssumption DEF IInv, KeptInv, TxnKept, Quiet
    <2>. QED
      BY <2>3, <2>4, ReconAssumption DEF Unresolved
  <1>. QED
    BY InvHolds, <1>1, PTL

\* A run whose status says that it waits for a review has the review_status that
\* ReviewRun asks for, unless two calls wrote the columns in turns or one failed.
THEOREM PendingReviewable == Spec => []PendingIsReviewable
  <1>1. IInv => PendingIsReviewable
    <2>1. Quiet => \A c \in Tabs : call[c].at = "done"
      BY DEF Quiet, NoCall
    <2>. QED
      BY <2>1 DEF IInv, ColumnsInv, PendingIsReviewable
  <1>. QED
    BY InvHolds, <1>1, PTL

=============================================================================
