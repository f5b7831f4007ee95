--------------------------- MODULE MCClientSession ---------------------------
(* One tab and two users: alice belongs to two subsidiaries and is an        *)
(* ordinary employee of both; bob is the group administrator of the second.  *)
EXTENDS ClientSession, TLC

CONSTANTS alice, bob, s1, s2, officer, analyst, chief, preview

MCMember == (alice :> {s1, s2}) @@ (bob :> {s2})
MCHeld == (alice :> ((s1 :> {officer}) @@ (s2 :> {analyst})))
       @@ (bob :> ((s1 :> {}) @@ (s2 :> {chief})))

=============================================================================
