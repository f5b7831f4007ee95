---------------------------- MODULE MailPromise -----------------------------
(***************************************************************************)
(* What the notification outbox promises its callers, whatever crashes and *)
(* delays do to the dispatchers: only what a committed transaction has     *)
(* enqueued is handed to the mail server, nothing of that is ever taken    *)
(* back, and every message is sooner or later handed over or given up      *)
(* with a failed attempt on record.                                        *)
(***************************************************************************)
CONSTANT Messages

VARIABLES
    accepted,   \* messages whose transaction has committed
    handed,     \* messages the mail server has taken, once or more
    givenUp     \* messages with a failed attempt on record

promiseVars == <<accepted, handed, givenUp>>

PromiseInit == accepted = {} /\ handed = {} /\ givenUp = {}

Accept(m) ==
    /\ m \notin accepted
    /\ accepted' = accepted \cup {m}
    /\ UNCHANGED <<handed, givenUp>>

HandOver(m) ==
    /\ m \in accepted
    /\ handed' = handed \cup {m}
    /\ UNCHANGED <<accepted, givenUp>>

GiveUp(m) ==
    /\ m \in accepted
    /\ givenUp' = givenUp \cup {m}
    /\ UNCHANGED <<accepted, handed>>

\* A message is settled once one of the two has happened to it.
Settle(m) == m \notin handed \cup givenUp /\ (HandOver(m) \/ GiveUp(m))

PromiseNext == \E m \in Messages : Accept(m) \/ HandOver(m) \/ GiveUp(m)

Promise ==
    /\ PromiseInit /\ [][PromiseNext]_promiseVars
    /\ \A m \in Messages : WF_promiseVars(Settle(m))

=============================================================================
