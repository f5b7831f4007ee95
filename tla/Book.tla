-------------------------------- MODULE Book --------------------------------
(***************************************************************************)
(* What a general ledger must be: a book that is only ever written at the  *)
(* end.  Every entry balances up to a kobo or mirrors an entry that was    *)
(* already there, and no entry is changed, replaced or torn out.           *)
(***************************************************************************)
EXTENDS Integers

CONSTANT NoEntry    \* an entry that mirrors nothing

VARIABLE entries    \* records [id, debit, credit, mirrors]

BookInit == entries = {}

WithinTolerance(e) == e.debit - e.credit \in -1 .. 1

Mirrors(e, o) ==
    /\ e.mirrors = o.id
    /\ e.debit = o.credit
    /\ e.credit = o.debit

Legitimate(e) ==
    IF e.mirrors = NoEntry THEN WithinTolerance(e)
                           ELSE \E o \in entries : Mirrors(e, o)

Append ==
    /\ entries \subseteq entries'
    /\ \A e \in entries' \ entries :
           /\ Legitimate(e)
           /\ \A o \in entries : o.id # e.id

BookSpec == BookInit /\ [][Append]_entries

=============================================================================
