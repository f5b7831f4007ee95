---------------------------- MODULE OutboxProofs ----------------------------
(***************************************************************************)
(* Proofs about Outbox, for any number of messages and dispatchers, any    *)
(* batch size and any number of faults.                                    *)
(*                                                                         *)
(* The argument.  ClaimPending takes pending rows only and makes them      *)
(* processing in the same UPDATE, so a row that is being held is no longer *)
(* there to be claimed; the one way back to pending is ResetStuck, which   *)
(* wants a stale row, and a row that has been stale is in lapsed           *)
(* (LeaseInv).  The history of the other rows is therefore a line: nothing *)
(* is delivered before the claim, one delivery at most follows it, and the *)
(* mark ends it.  StatusIsTrue needs no such line, for it is about rows    *)
(* that two dispatchers mark too: a delivery and a failed attempt are      *)
(* never undone, and who reports success has seen the delivery             *)
(* (ReportInv).                                                            *)
(***************************************************************************)
EXTENDS Outbox, FiniteSetTheorems, TLAPS

\* What a dispatcher has just sent is a row of the table.
SentRow == \A d \in Dispatchers : pc[d] = "mark" => current[d].row \in Messages

\* Only rows in processing go stale, and that is on record.
StaleInv ==
    /\ \A m \in stale : status[m] = "processing"
    /\ stale \subseteq lapsed

\* A row that is held was claimed once.
HeldInv == \A d \in Dispatchers : \A m \in Holds(d) : status[m] # "none"

\* Who holds a row whose claim has not lapsed.
UnderLease(d, m) ==
    /\ m \in Holds(d) => status[m] = "processing"
    /\ m \in batch[d] => delivered[m] = 0
    /\ m \in batch[d] => ~(pc[d] = "mark" /\ current[d].row = m)
    /\ \A e \in Dispatchers : m \in Holds(d) /\ m \in Holds(e) => d = e

LeaseInv ==
    \A m \in Messages \ lapsed :
        /\ status[m] \in {"none", "pending"} => delivered[m] = 0
        /\ delivered[m] <= 1
        /\ \A d \in Dispatchers : UnderLease(d, m)

\* Send reports success for messages the mail server has taken.
ReportInv ==
    \A d \in Dispatchers :
        pc[d] = "mark" /\ current[d].ok => delivered[current[d].row] > 0

IInv ==
    /\ TypeOK /\ SentRow
    /\ StaleInv /\ HeldInv /\ LeaseInv
    /\ ReportInv /\ StatusIsTrue

-----------------------------------------------------------------------------
\* The helpers.

LEMMA SetStatusAt ==
    ASSUME TypeOK, NEW S, NEW s, NEW m \in Messages
    PROVE  SetStatus(S, s)[m] = IF m \in S THEN s ELSE status[m]
  BY DEF SetStatus

\* A batch is taken from the rows that may be claimed.
LEMMA OldestSub == ASSUME NEW S, NEW n PROVE Oldest(S, n) \subseteq S
  BY DEF Oldest

\* A set with no two different members has one at most.
LEMMA AtMostOne ==
    ASSUME NEW S, \A x, y \in S : x = y
    PROVE  Cardinality(S) <= 1
  <1>1. CASE S = {}
    BY <1>1, FS_EmptySet
  <1>2. CASE S # {}
    <2>1. PICK x : x \in S
      BY <1>2
    <2>2. S = {x}
      BY <2>1
    <2>. QED
      BY <2>2, FS_Singleton
  <1>. QED
    BY <1>1, <1>2

-----------------------------------------------------------------------------
\* Typing.

LEMMA InitInv == OutboxInit => IInv
  <1> SUFFICES ASSUME OutboxInit PROVE IInv
    OBVIOUS
  <1>1. TypeOK
    BY OutboxAssumption DEF OutboxInit, TypeOK, NoMail
  <1>2. SentRow /\ StaleInv /\ HeldInv /\ ReportInv /\ StatusIsTrue
    BY DEF OutboxInit, SentRow, StaleInv, HeldInv, Holds, ReportInv, StatusIsTrue
  <1>3. LeaseInv
    BY DEF OutboxInit, LeaseInv, UnderLease, Holds
  <1>. QED
    BY <1>1, <1>2, <1>3 DEF IInv

LEMMA TypeStep == TypeOK /\ SentRow /\ [Next]_outboxVars => TypeOK'
  <1> SUFFICES ASSUME TypeOK, SentRow, [Next]_outboxVars PROVE TypeOK'
    OBVIOUS
  <1> USE DEF TypeOK
  <1>1. ASSUME NEW m \in Messages, Enqueue(m) PROVE TypeOK'
    BY <1>1 DEF Enqueue
  <1>2. ASSUME NEW m \in Messages, Lapse(m) PROVE TypeOK'
    BY <1>2 DEF Lapse
  <1>3. ASSUME NEW d \in Dispatchers, ResetStuck(d) PROVE TypeOK'
    BY <1>3 DEF ResetStuck, SetStatus
  <1>4. ASSUME NEW d \in Dispatchers, ClaimPending(d) PROVE TypeOK'
    BY <1>4, OldestSub DEF ClaimPending, SetStatus, WithStatus
  <1>5. ASSUME NEW d \in Dispatchers, NEW m \in Messages,
               NEW taken \in BOOLEAN, NEW ok \in BOOLEAN, Send(d, m, taken, ok)
        PROVE  TypeOK'
    BY <1>5 DEF Send
  <1>6. ASSUME NEW d \in Dispatchers, MarkSent(d) PROVE TypeOK'
    BY <1>6 DEF MarkSent, NextRow, NoMail
  <1>7. ASSUME NEW d \in Dispatchers, MarkFailed(d) PROVE TypeOK'
    BY <1>7 DEF MarkFailed, NextRow, NoMail, SentRow
  <1>8. ASSUME NEW d \in Dispatchers, MarkLost(d) PROVE TypeOK'
    BY <1>8, OutboxAssumption DEF MarkLost, NextRow, NoMail, Fault
  <1>9. ASSUME NEW d \in Dispatchers, Crash(d) PROVE TypeOK'
    BY <1>9, OutboxAssumption DEF Crash, NoMail, Fault
  <1>10. CASE UNCHANGED outboxVars
    BY <1>10 DEF outboxVars
  <1>. QED
    BY <1>1, <1>2, <1>3, <1>4, <1>5, <1>6, <1>7, <1>8, <1>9, <1>10 DEF Next, Work

-----------------------------------------------------------------------------
\* One lemma per conjunct of the invariant.

LEMMA SentRowStep == TypeOK /\ SentRow /\ [Next]_outboxVars => SentRow'
  <1> SUFFICES ASSUME TypeOK, SentRow, [Next]_outboxVars PROVE SentRow'
    OBVIOUS
  <1> USE DEF TypeOK, SentRow
  <1>1. ASSUME NEW m \in Messages, Enqueue(m) PROVE SentRow'
    BY <1>1 DEF Enqueue
  <1>2. ASSUME NEW m \in Messages, Lapse(m) PROVE SentRow'
    BY <1>2 DEF Lapse
  <1>3. ASSUME NEW d \in Dispatchers, ResetStuck(d) PROVE SentRow'
    BY <1>3 DEF ResetStuck, SetStatus
  <1>4. ASSUME NEW d \in Dispatchers, ClaimPending(d) PROVE SentRow'
    BY <1>4, OldestSub DEF ClaimPending, SetStatus, WithStatus
  <1>5. ASSUME NEW d \in Dispatchers, NEW m \in Messages,
               NEW taken \in BOOLEAN, NEW ok \in BOOLEAN, Send(d, m, taken, ok)
        PROVE  SentRow'
    BY <1>5 DEF Send
  <1>6. ASSUME NEW d \in Dispatchers, MarkSent(d) PROVE SentRow'
    BY <1>6 DEF MarkSent, NextRow
  <1>7. ASSUME NEW d \in Dispatchers, MarkFailed(d) PROVE SentRow'
    BY <1>7 DEF MarkFailed, NextRow
  <1>8. ASSUME NEW d \in Dispatchers, MarkLost(d) PROVE SentRow'
    BY <1>8 DEF MarkLost, NextRow
  <1>9. ASSUME NEW d \in Dispatchers, Crash(d) PROVE SentRow'
    BY <1>9 DEF Crash
  <1>10. CASE UNCHANGED outboxVars
    BY <1>10 DEF outboxVars
  <1>. QED
    BY <1>1, <1>2, <1>3, <1>4, <1>5, <1>6, <1>7, <1>8, <1>9, <1>10 DEF Next, Work

LEMMA StaleStep == TypeOK /\ StaleInv /\ [Next]_outboxVars => StaleInv'
  <1> SUFFICES ASSUME TypeOK, StaleInv, [Next]_outboxVars PROVE StaleInv'
    OBVIOUS
  <1> USE DEF TypeOK, StaleInv
  <1>1. ASSUME NEW m \in Messages, Enqueue(m) PROVE StaleInv'
    BY <1>1 DEF Enqueue
  <1>2. ASSUME NEW m \in Messages, Lapse(m) PROVE StaleInv'
    BY <1>2 DEF Lapse
  <1>3. ASSUME NEW d \in Dispatchers, ResetStuck(d) PROVE StaleInv'
    BY <1>3 DEF ResetStuck, SetStatus
  <1>4. ASSUME NEW d \in Dispatchers, ClaimPending(d) PROVE StaleInv'
    BY <1>4, OldestSub DEF ClaimPending, SetStatus, WithStatus
  <1>5. ASSUME NEW d \in Dispatchers, NEW m \in Messages,
               NEW taken \in BOOLEAN, NEW ok \in BOOLEAN, Send(d, m, taken, ok)
        PROVE  StaleInv'
    BY <1>5 DEF Send
  <1>6. ASSUME NEW d \in Dispatchers, MarkSent(d) PROVE StaleInv'
    BY <1>6 DEF MarkSent, NextRow
  <1>7. ASSUME NEW d \in Dispatchers, MarkFailed(d) PROVE StaleInv'
    BY <1>7 DEF MarkFailed, NextRow
  <1>8. ASSUME NEW d \in Dispatchers, MarkLost(d) PROVE StaleInv'
    BY <1>8 DEF MarkLost, NextRow
  <1>9. ASSUME NEW d \in Dispatchers, Crash(d) PROVE StaleInv'
    BY <1>9 DEF Crash
  <1>10. CASE UNCHANGED outboxVars
    BY <1>10 DEF outboxVars
  <1>. QED
    BY <1>1, <1>2, <1>3, <1>4, <1>5, <1>6, <1>7, <1>8, <1>9, <1>10 DEF Next, Work

LEMMA HeldStep == TypeOK /\ HeldInv /\ [Next]_outboxVars => HeldInv'
  <1> SUFFICES ASSUME TypeOK, HeldInv, [Next]_outboxVars PROVE HeldInv'
    OBVIOUS
  <1> USE DEF TypeOK, HeldInv, Holds
  <1>1. ASSUME NEW m \in Messages, Enqueue(m) PROVE HeldInv'
    BY <1>1 DEF Enqueue
  <1>2. ASSUME NEW m \in Messages, Lapse(m) PROVE HeldInv'
    BY <1>2 DEF Lapse
  <1>3. ASSUME NEW d \in Dispatchers, ResetStuck(d) PROVE HeldInv'
    BY <1>3 DEF ResetStuck, SetStatus
  <1>4. ASSUME NEW d \in Dispatchers, ClaimPending(d) PROVE HeldInv'
    BY <1>4, OldestSub DEF ClaimPending, SetStatus, WithStatus
  <1>5. ASSUME NEW d \in Dispatchers, NEW m \in Messages,
               NEW taken \in BOOLEAN, NEW ok \in BOOLEAN, Send(d, m, taken, ok)
        PROVE  HeldInv'
    BY <1>5 DEF Send
  <1>6. ASSUME NEW d \in Dispatchers, MarkSent(d) PROVE HeldInv'
    BY <1>6 DEF MarkSent, NextRow
  <1>7. ASSUME NEW d \in Dispatchers, MarkFailed(d) PROVE HeldInv'
    BY <1>7 DEF MarkFailed, NextRow
  <1>8. ASSUME NEW d \in Dispatchers, MarkLost(d) PROVE HeldInv'
    BY <1>8 DEF MarkLost, NextRow
  <1>9. ASSUME NEW d \in Dispatchers, Crash(d) PROVE HeldInv'
    BY <1>9 DEF Crash
  <1>10. CASE UNCHANGED outboxVars
    BY <1>10 DEF outboxVars
  <1>. QED
    BY <1>1, <1>2, <1>3, <1>4, <1>5, <1>6, <1>7, <1>8, <1>9, <1>10 DEF Next, Work

LEMMA ReportStep == TypeOK /\ SentRow /\ ReportInv /\ [Next]_outboxVars => ReportInv'
  <1> SUFFICES ASSUME TypeOK, SentRow, ReportInv, [Next]_outboxVars PROVE ReportInv'
    OBVIOUS
  <1> USE DEF TypeOK, SentRow, ReportInv
  <1>1. ASSUME NEW m \in Messages, Enqueue(m) PROVE ReportInv'
    BY <1>1 DEF Enqueue
  <1>2. ASSUME NEW m \in Messages, Lapse(m) PROVE ReportInv'
    BY <1>2 DEF Lapse
  <1>3. ASSUME NEW d \in Dispatchers, ResetStuck(d) PROVE ReportInv'
    BY <1>3 DEF ResetStuck, SetStatus
  <1>4. ASSUME NEW d \in Dispatchers, ClaimPending(d) PROVE ReportInv'
    BY <1>4, OldestSub DEF ClaimPending, SetStatus, WithStatus
  <1>5. ASSUME NEW d \in Dispatchers, NEW m \in Messages,
               NEW taken \in BOOLEAN, NEW ok \in BOOLEAN, Send(d, m, taken, ok)
        PROVE  ReportInv'
    BY <1>5 DEF Send
  <1>6. ASSUME NEW d \in Dispatchers, MarkSent(d) PROVE ReportInv'
    BY <1>6 DEF MarkSent, NextRow
  <1>7. ASSUME NEW d \in Dispatchers, MarkFailed(d) PROVE ReportInv'
    BY <1>7 DEF MarkFailed, NextRow
  <1>8. ASSUME NEW d \in Dispatchers, MarkLost(d) PROVE ReportInv'
    BY <1>8 DEF MarkLost, NextRow
  <1>9. ASSUME NEW d \in Dispatchers, Crash(d) PROVE ReportInv'
    BY <1>9 DEF Crash
  <1>10. CASE UNCHANGED outboxVars
    BY <1>10 DEF outboxVars
  <1>. QED
    BY <1>1, <1>2, <1>3, <1>4, <1>5, <1>6, <1>7, <1>8, <1>9, <1>10 DEF Next, Work

LEMMA StatusStep == TypeOK /\ SentRow /\ ReportInv /\ StatusIsTrue /\ [Next]_outboxVars => StatusIsTrue'
  <1> SUFFICES ASSUME TypeOK, SentRow, ReportInv, StatusIsTrue, [Next]_outboxVars PROVE StatusIsTrue'
    OBVIOUS
  <1> USE DEF TypeOK, SentRow, ReportInv, StatusIsTrue
  <1>1. ASSUME NEW m \in Messages, Enqueue(m) PROVE StatusIsTrue'
    BY <1>1 DEF Enqueue
  <1>2. ASSUME NEW m \in Messages, Lapse(m) PROVE StatusIsTrue'
    BY <1>2 DEF Lapse
  <1>3. ASSUME NEW d \in Dispatchers, ResetStuck(d) PROVE StatusIsTrue'
    BY <1>3 DEF ResetStuck, SetStatus
  <1>4. ASSUME NEW d \in Dispatchers, ClaimPending(d) PROVE StatusIsTrue'
    BY <1>4, OldestSub DEF ClaimPending, SetStatus, WithStatus
  <1>5. ASSUME NEW d \in Dispatchers, NEW m \in Messages,
               NEW taken \in BOOLEAN, NEW ok \in BOOLEAN, Send(d, m, taken, ok)
        PROVE  StatusIsTrue'
    BY <1>5 DEF Send
  <1>6. ASSUME NEW d \in Dispatchers, MarkSent(d) PROVE StatusIsTrue'
    BY <1>6 DEF MarkSent, NextRow
  <1>7. ASSUME NEW d \in Dispatchers, MarkFailed(d) PROVE StatusIsTrue'
    BY <1>7 DEF MarkFailed, NextRow
  <1>8. ASSUME NEW d \in Dispatchers, MarkLost(d) PROVE StatusIsTrue'
    BY <1>8 DEF MarkLost, NextRow
  <1>9. ASSUME NEW d \in Dispatchers, Crash(d) PROVE StatusIsTrue'
    BY <1>9 DEF Crash
  <1>10. CASE UNCHANGED outboxVars
    BY <1>10 DEF outboxVars
  <1>. QED
    BY <1>1, <1>2, <1>3, <1>4, <1>5, <1>6, <1>7, <1>8, <1>9, <1>10 DEF Next, Work

LEMMA LeaseStep == TypeOK /\ SentRow /\ StaleInv /\ LeaseInv /\ [Next]_outboxVars => LeaseInv'
  <1> SUFFICES ASSUME TypeOK, SentRow, StaleInv, LeaseInv, [Next]_outboxVars PROVE LeaseInv'
    OBVIOUS
  <1> USE DEF TypeOK, SentRow, StaleInv, LeaseInv, UnderLease, Holds
  <1>1. ASSUME NEW m \in Messages, Enqueue(m) PROVE LeaseInv'
    BY <1>1 DEF Enqueue
  <1>2. ASSUME NEW m \in Messages, Lapse(m) PROVE LeaseInv'
    BY <1>2 DEF Lapse
  <1>3. ASSUME NEW d \in Dispatchers, ResetStuck(d) PROVE LeaseInv'
    BY <1>3 DEF ResetStuck, SetStatus
  <1>4. ASSUME NEW d \in Dispatchers, ClaimPending(d) PROVE LeaseInv'
    BY <1>4, OldestSub DEF ClaimPending, SetStatus, WithStatus
  <1>5. ASSUME NEW d \in Dispatchers, NEW m \in Messages,
               NEW taken \in BOOLEAN, NEW ok \in BOOLEAN, Send(d, m, taken, ok)
        PROVE  LeaseInv'
    BY <1>5 DEF Send
  <1>6. ASSUME NEW d \in Dispatchers, MarkSent(d) PROVE LeaseInv'
    BY <1>6 DEF MarkSent, NextRow
  <1>7. ASSUME NEW d \in Dispatchers, MarkFailed(d) PROVE LeaseInv'
    BY <1>7 DEF MarkFailed, NextRow
  <1>8. ASSUME NEW d \in Dispatchers, MarkLost(d) PROVE LeaseInv'
    BY <1>8 DEF MarkLost, NextRow
  <1>9. ASSUME NEW d \in Dispatchers, Crash(d) PROVE LeaseInv'
    BY <1>9 DEF Crash
  <1>10. CASE UNCHANGED outboxVars
    BY <1>10 DEF outboxVars
  <1>. QED
    BY <1>1, <1>2, <1>3, <1>4, <1>5, <1>6, <1>7, <1>8, <1>9, <1>10 DEF Next, Work

-----------------------------------------------------------------------------
\* The invariant holds in every behaviour.

LEMMA InvHolds == Spec => []IInv
  <1>1. IInv /\ [Next]_outboxVars => IInv'
    BY TypeStep, SentRowStep, StaleStep, HeldStep, LeaseStep, ReportStep, StatusStep
       DEF IInv
  <1>. QED
    BY InitInv, <1>1, PTL DEF Spec

\* The rows, the dispatchers' positions and the histories stay in their types:
\* in particular MarkSent and MarkFailed write a row that exists.
THEOREM TypeCorrect == Spec => []TypeOK
  <1>1. IInv => TypeOK
    BY DEF IInv
  <1>. QED
    BY InvHolds, <1>1, PTL

\* However many dispatchers poll the table, crash and fail to mark, a message
\* whose claim never outlived five minutes is in the hands of one of them at
\* most and reaches the mail server once at most.
THEOREM Exclusive == Spec => []ExclusiveUnlessLapsed
  <1>1. IInv => ExclusiveUnlessLapsed
    <2> SUFFICES ASSUME IInv, NEW m \in Messages \ lapsed
                 PROVE  /\ delivered[m] <= 1
                        /\ Cardinality({d \in Dispatchers : m \in Holds(d)}) <= 1
      BY DEF ExclusiveUnlessLapsed
    <2>1. delivered[m] <= 1
      BY DEF IInv, LeaseInv
    <2>2. \A d, e \in {x \in Dispatchers : m \in Holds(x)} : d = e
      BY DEF IInv, LeaseInv, UnderLease
    <2>3. Cardinality({d \in Dispatchers : m \in Holds(d)}) <= 1
      BY <2>2, AtMostOne
    <2>. QED
      BY <2>1, <2>3
  <1>. QED
    BY InvHolds, <1>1, PTL

\* A row that ends as "sent" has reached the mail server and one that ends as
\* "failed" has a failed attempt on record, even after two dispatchers have
\* marked it one after the other.
THEOREM StatusTrue == Spec => []StatusIsTrue
  <1>1. IInv => StatusIsTrue
    BY DEF IInv
  <1>. QED
    BY InvHolds, <1>1, PTL

-----------------------------------------------------------------------------
\* The outbox implements the safety part of MailPromise.

PromiseSafety == MP!PromiseInit /\ [][MP!PromiseNext]_(MP!promiseVars)

\* Only a commit makes a message accepted: no dispatcher changes which are.
LEMMA KeepsAccepted ==
    ASSUME IInv, NEW d \in Dispatchers, Work(d) \/ MarkLost(d) \/ Crash(d)
    PROVE  \A k \in Messages : status'[k] = "none" <=> status[k] = "none"
  <1> USE DEF IInv, TypeOK, SentRow, StaleInv, HeldInv, Holds
  <1>1. CASE ResetStuck(d)
    BY <1>1 DEF ResetStuck, SetStatus
  <1>2. CASE ClaimPending(d)
    BY <1>2, OldestSub DEF ClaimPending, SetStatus, WithStatus
  <1>3. CASE \E m \in Messages, taken, ok \in BOOLEAN : Send(d, m, taken, ok)
    BY <1>3 DEF Send
  <1>4. CASE MarkSent(d)
    BY <1>4 DEF MarkSent
  <1>5. CASE MarkFailed(d)
    BY <1>5 DEF MarkFailed
  <1>6. CASE MarkLost(d) \/ Crash(d)
    BY <1>6 DEF MarkLost, Crash
  <1>. QED
    BY <1>1, <1>2, <1>3, <1>4, <1>5, <1>6 DEF Work

LEMMA PromiseStart == OutboxInit => MP!PromiseInit
  BY DEF OutboxInit, MP!PromiseInit

LEMMA PromiseStep == IInv /\ [Next]_outboxVars => [MP!PromiseNext]_(MP!promiseVars)
  <1> SUFFICES ASSUME IInv, [Next]_outboxVars
               PROVE  MP!PromiseNext \/ UNCHANGED MP!promiseVars
    OBVIOUS
  <1> USE DEF IInv, TypeOK
  <1> DEFINE Accepted == {m \in Messages : status[m] # "none"}
             Handed == {m \in Messages : delivered[m] > 0}
             GivenUp == {m \in Messages : attempts[m] > 0}
  <1>1. ASSUME NEW m \in Messages, Enqueue(m) PROVE MP!Accept(m)
    <2>1. m \notin Accepted /\ Accepted' = Accepted \cup {m}
      BY <1>1 DEF Enqueue
    <2>2. Handed' = Handed /\ GivenUp' = GivenUp
      BY <1>1 DEF Enqueue
    <2>. QED
      BY <2>1, <2>2 DEF MP!Accept
  <1>2. ASSUME NEW d \in Dispatchers, Work(d) \/ MarkLost(d) \/ Crash(d)
        PROVE  Accepted' = Accepted
    BY <1>2, KeepsAccepted
  <1>3. ASSUME NEW d \in Dispatchers, NEW m \in Messages,
               NEW taken \in BOOLEAN, NEW ok \in BOOLEAN, Send(d, m, taken, ok)
        PROVE  MP!HandOver(m) \/ UNCHANGED MP!promiseVars
    <2>1. Accepted' = Accepted /\ GivenUp' = GivenUp
      BY <1>3 DEF Send
    <2>2. m \in Accepted
      BY <1>3 DEF Send, HeldInv, Holds
    <2>3. CASE taken
      <3>1. Handed' = Handed \cup {m}
        BY <1>3, <2>3 DEF Send
      <3>. QED
        BY <2>1, <2>2, <3>1 DEF MP!HandOver
    <2>4. CASE ~taken
      <3>1. Handed' = Handed
        BY <1>3, <2>4 DEF Send
      <3>. QED
        BY <2>1, <3>1 DEF MP!promiseVars
    <2>. QED
      BY <2>3, <2>4
  <1>4. ASSUME NEW d \in Dispatchers, MarkFailed(d)
        PROVE  \E m \in Messages : MP!GiveUp(m)
    <2> DEFINE m == current[d].row
    <2>1. m \in Messages /\ m \in Accepted
      BY <1>4 DEF MarkFailed, SentRow, HeldInv, Holds
    <2>2. Accepted' = Accepted
      BY <1>4, <2>1 DEF MarkFailed
    <2>3. Handed' = Handed /\ GivenUp' = GivenUp \cup {m}
      BY <1>4, <2>1 DEF MarkFailed
    <2>. QED
      BY <2>1, <2>2, <2>3 DEF MP!GiveUp
  <1>5. ASSUME NEW d \in Dispatchers,
               \/ ResetStuck(d) \/ ClaimPending(d) \/ MarkSent(d)
               \/ MarkLost(d) \/ Crash(d)
        PROVE  UNCHANGED MP!promiseVars
    <2>1. Accepted' = Accepted
      BY <1>2, <1>5 DEF Work
    <2>2. Handed' = Handed /\ GivenUp' = GivenUp
      BY <1>5 DEF ResetStuck, ClaimPending, MarkSent, MarkLost, Crash
    <2>. QED
      BY <2>1, <2>2 DEF MP!promiseVars
  <1>6. ASSUME NEW m \in Messages, Lapse(m) PROVE UNCHANGED MP!promiseVars
    BY <1>6 DEF Lapse, MP!promiseVars
  <1>7. CASE UNCHANGED outboxVars
    BY <1>7 DEF outboxVars, MP!promiseVars
  <1>. QED
    BY <1>1, <1>3, <1>4, <1>5, <1>6, <1>7 DEF Next, Work, MP!PromiseNext

\* Only what a committed transaction has enqueued is handed to the mail server
\* or given up, and neither a hand-over nor a failure on record is taken back,
\* whatever crashes: the outbox implements MailPromise up to its fairness.
THEOREM ImplementsPromise == Spec => PromiseSafety
  BY InvHolds, PromiseStart, PromiseStep, PTL DEF Spec, PromiseSafety

=============================================================================
