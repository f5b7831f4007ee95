------------------------------- MODULE Outbox -------------------------------
(***************************************************************************)
(* The transactional outbox: internal/notification/outbox.go, the polling  *)
(* loop of dispatcher.go and the queries of                                *)
(* db/queries/notification/queries.sql over notification.outbox.           *)
(*                                                                         *)
(* Every dispatcher (one per API instance) claims a batch with one UPDATE, *)
(* then sends and marks the rows one by one; the statements and sends of   *)
(* different dispatchers interleave.  A dispatcher may crash at any point, *)
(* and a mark may fail.  Five minutes in "processing" are one flag: a      *)
(* claimed row may become stale at any time, held by a slow dispatcher or  *)
(* left behind by a dead one.                                              *)
(***************************************************************************)
EXTENDS Naturals, FiniteSets

CONSTANTS
    Messages,     \* outbox rows, numbered by created_at
    Dispatchers,  \* API instances
    BatchSize,    \* dispatchBatchSize
    MaxAttempts,  \* the cap of 5 in ClaimPending and ResetStuck
    MaxFaults     \* bound: crashes and failed marks

ASSUME OutboxAssumption ==
    /\ Messages \subseteq Nat
    /\ IsFiniteSet(Messages)
    /\ BatchSize \in Nat \ {0}
    /\ MaxAttempts \in Nat \ {0}
    /\ MaxFaults \in Nat

VARIABLES
    status,     \* outbox.status ("none": not committed)
    attempts,   \* outbox.attempts
    stale,      \* rows whose claimed_at is more than five minutes ago
    pc,         \* the next step of each dispatcher's loop
    batch,      \* the rows a dispatcher has claimed and not dealt with
    current,    \* what it has just sent: the row and Send's result
    delivered,  \* history: how often the mail server took the message
    lapsed,     \* history: rows that became stale while processing
    faults      \* how many faults have happened

outboxVars == <<status, attempts, stale, pc, batch, current, delivered, lapsed, faults>>

NoMail == [row |-> 0, ok |-> FALSE]

OutboxInit ==
    /\ status = [m \in Messages |-> "none"]
    /\ attempts = [m \in Messages |-> 0]
    /\ stale = {}
    /\ pc = [d \in Dispatchers |-> "idle"]
    /\ batch = [d \in Dispatchers |-> {}]
    /\ current = [d \in Dispatchers |-> NoMail]
    /\ delivered = [m \in Messages |-> 0]
    /\ lapsed = {}
    /\ faults = 0

WithStatus(s) == {m \in Messages : status[m] = s}
SetStatus(S, s) == [m \in Messages |-> IF m \in S THEN s ELSE status[m]]

\* The first n of a set of rows in created_at order.
Oldest(S, n) == {m \in S : Cardinality({k \in S : k < m}) < n}

-----------------------------------------------------------------------------
\* The caller's transaction commits, and the row with it.
Enqueue(m) ==
    /\ status[m] = "none"
    /\ status' = [status EXCEPT ![m] = "pending"]
    /\ UNCHANGED <<attempts, stale, pc, batch, current, delivered, lapsed, faults>>

\* (Mutant: the age of the claim is not asked for.)
ResetAllProcessing(d) ==
    /\ pc[d] = "idle"
    /\ status' = SetStatus({m \in WithStatus("processing") : attempts[m] < MaxAttempts},
                           "pending")
    /\ stale' = {}
    /\ pc' = [pc EXCEPT ![d] = "claim"]
    /\ UNCHANGED <<attempts, batch, current, delivered, lapsed, faults>>

\* (Mutant: only rows that have been tried before are reset.)
ResetTriedOnly(d) ==
    /\ pc[d] = "idle"
    /\ LET stuck == {m \in stale : attempts[m] \in 1 .. MaxAttempts - 1}
       IN  /\ status' = SetStatus(stuck, "pending")
           /\ stale' = stale \ stuck
    /\ pc' = [pc EXCEPT ![d] = "claim"]
    /\ UNCHANGED <<attempts, batch, current, delivered, lapsed, faults>>

\* A tick: resetStuck first.
ResetStuck(d) ==
    /\ pc[d] = "idle"
    /\ LET stuck == {m \in stale : attempts[m] < MaxAttempts}
       IN  /\ status' = SetStatus(stuck, "pending")
           /\ stale' = stale \ stuck
    /\ pc' = [pc EXCEPT ![d] = "claim"]
    /\ UNCHANGED <<attempts, batch, current, delivered, lapsed, faults>>

\* Then dispatch: claim a batch, skipping what others have locked.
ClaimPending(d) ==
    /\ pc[d] = "claim"
    /\ LET claimed == Oldest({m \in WithStatus("pending") : attempts[m] < MaxAttempts},
                             BatchSize)
       IN  /\ status' = SetStatus(claimed, "processing")
           /\ batch' = [batch EXCEPT ![d] = claimed]
           /\ pc' = [pc EXCEPT ![d] = IF claimed = {} THEN "idle" ELSE "send"]
    /\ UNCHANGED <<attempts, stale, current, delivered, lapsed, faults>>

\* Send one row of the batch.  SMTP may take the message and still report an
\* error (the connection breaks before QUIT is answered).
Send(d, m, taken, ok) ==
    /\ pc[d] = "send"
    /\ m \in batch[d]
    /\ ok => taken
    /\ delivered' = [delivered EXCEPT ![m] = @ + (IF taken THEN 1 ELSE 0)]
    /\ current' = [current EXCEPT ![d] = [row |-> m, ok |-> ok]]
    /\ batch' = [batch EXCEPT ![d] = @ \ {m}]
    /\ pc' = [pc EXCEPT ![d] = "mark"]
    /\ UNCHANGED <<status, attempts, stale, lapsed, faults>>

\* The loop goes on with the next row of the batch, or waits for the next tick.
NextRow(d) ==
    /\ pc' = [pc EXCEPT ![d] = IF batch[d] = {} THEN "idle" ELSE "send"]
    /\ current' = [current EXCEPT ![d] = NoMail]

\* (Mutant: the result of Send is not looked at.)
MarkAlwaysSent(d) ==
    /\ pc[d] = "mark"
    /\ LET m == current[d].row
       IN  /\ status' = [status EXCEPT ![m] = "sent"]
           /\ stale' = stale \ {m}
    /\ NextRow(d)
    /\ UNCHANGED <<attempts, batch, delivered, lapsed, faults>>

MarkSent(d) ==
    /\ pc[d] = "mark" /\ current[d].ok
    /\ LET m == current[d].row
       IN  /\ status' = [status EXCEPT ![m] = "sent"]
           /\ stale' = stale \ {m}
    /\ NextRow(d)
    /\ UNCHANGED <<attempts, batch, delivered, lapsed, faults>>

\* (Mutant: a failed row gets a status that the queries do not know.)
MarkRetry(d) ==
    /\ pc[d] = "mark" /\ ~current[d].ok
    /\ LET m == current[d].row
       IN  /\ status' = [status EXCEPT ![m] = "retry"]
           /\ stale' = stale \ {m}
    /\ NextRow(d)
    /\ UNCHANGED <<attempts, batch, delivered, lapsed, faults>>

MarkFailed(d) ==
    /\ pc[d] = "mark" /\ ~current[d].ok
    /\ LET m == current[d].row
       IN  /\ status' = [status EXCEPT ![m] = "failed"]
           /\ attempts' = [attempts EXCEPT ![m] = @ + 1]
           /\ stale' = stale \ {m}
    /\ NextRow(d)
    /\ UNCHANGED <<batch, delivered, lapsed, faults>>

-----------------------------------------------------------------------------
Fault == faults < MaxFaults /\ faults' = faults + 1

\* The UPDATE of a mark fails and is logged: the row stays as it is.
MarkLost(d) ==
    /\ pc[d] = "mark"
    /\ Fault
    /\ NextRow(d)
    /\ UNCHANGED <<status, attempts, stale, batch, delivered, lapsed>>

\* The process dies and is started again.
Crash(d) ==
    /\ pc[d] # "idle"
    /\ Fault
    /\ pc' = [pc EXCEPT ![d] = "idle"]
    /\ batch' = [batch EXCEPT ![d] = {}]
    /\ current' = [current EXCEPT ![d] = NoMail]
    /\ UNCHANGED <<status, attempts, stale, delivered, lapsed>>

\* Five minutes pass over a claim.
Lapse(m) ==
    /\ status[m] = "processing"
    /\ m \notin stale
    /\ stale' = stale \cup {m}
    /\ lapsed' = lapsed \cup {m}
    /\ UNCHANGED <<status, attempts, pc, batch, current, delivered, faults>>

Work(d) ==
    \/ ResetStuck(d)
    \/ ClaimPending(d)
    \/ \E m \in Messages, taken, ok \in BOOLEAN : Send(d, m, taken, ok)
    \/ MarkSent(d)
    \/ MarkFailed(d)

Next ==
    \/ \E m \in Messages : Enqueue(m) \/ Lapse(m)
    \/ \E d \in Dispatchers : Work(d) \/ MarkLost(d) \/ Crash(d)

Spec == OutboxInit /\ [][Next]_outboxVars

\* The ticker keeps ticking, Send and the statements return, time passes.
FairSpec ==
    /\ Spec
    /\ \A d \in Dispatchers : WF_outboxVars(Work(d))
    /\ \A m \in Messages : WF_outboxVars(Lapse(m))

-----------------------------------------------------------------------------
TypeOK ==
    /\ status \in [Messages -> {"none", "pending", "processing", "sent", "failed"}]
    /\ attempts \in [Messages -> Nat]
    /\ stale \subseteq Messages
    /\ pc \in [Dispatchers -> {"idle", "claim", "send", "mark"}]
    /\ batch \in [Dispatchers -> SUBSET Messages]
    /\ current \in [Dispatchers -> [row : Messages \cup {0}, ok : BOOLEAN]]
    /\ delivered \in [Messages -> Nat]
    /\ lapsed \subseteq Messages
    /\ faults \in 0 .. MaxFaults

\* The rows a dispatcher still has to send or to mark.
Holds(d) == batch[d] \cup {m \in Messages : pc[d] = "mark" /\ current[d].row = m}

\* The claim works like a lock that expires: unless five minutes have passed
\* over a claim of it, no message is in the hands of two dispatchers, and none
\* is delivered twice, crashes and failed marks included.
ExclusiveUnlessLapsed ==
    \A m \in Messages \ lapsed :
        /\ delivered[m] <= 1
        /\ Cardinality({d \in Dispatchers : m \in Holds(d)}) <= 1

\* A row's final status tells what happened: "sent" rows have reached the mail
\* server and "failed" rows have a failed attempt, even when two dispatchers
\* mark the same row.
StatusIsTrue ==
    \A m \in Messages :
        /\ status[m] = "sent" => delivered[m] > 0
        /\ status[m] = "failed" => attempts[m] > 0

\* The outbox keeps the promise of MailPromise: in particular every committed
\* message is handed over or its failure recorded, although its dispatcher may
\* crash between the claim, the send and the mark.
MP == INSTANCE MailPromise WITH
    accepted <- {m \in Messages : status[m] # "none"},
    handed <- {m \in Messages : delivered[m] > 0},
    givenUp <- {m \in Messages : attempts[m] > 0}

KeepsPromise == MP!Promise

=============================================================================
