----------------------------- MODULE TokenClock -----------------------------
(* The clock of the machine and the lifetime of access tokens, as the       *)
(* credential helpers see them.  Times are small numbers; 0 is Go's zero    *)
(* time, which stands for a token that does not say when it ends.           *)
EXTENDS Naturals

CONSTANTS Skew,      \* how long before its end a token counts as expired (10 seconds)
          MaxClock,  \* bound on the clock
          Lives      \* how long a new token may live; 0: its expiry is not known

ASSUME ClockAssumption == Skew \in Nat /\ MaxClock \in Nat /\ Lives \subseteq Nat

VARIABLE clock

Expiry(life) == IF life = 0 THEN 0 ELSE clock + life

Tick == clock < MaxClock /\ clock' = clock + 1
=============================================================================
