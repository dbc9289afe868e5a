------------------------------ MODULE EffectOnce ------------------------------
(***************************************************************************)
(* What the idempotency journal promises about a side effect, whoever asks *)
(* for it and however often: it is attempted at most once, and a verdict,  *)
(* once recorded, is true and stays.                                       *)
(***************************************************************************)
EXTENDS Naturals

CONSTANT Key        \* identities of side effects

VARIABLES
    tries,          \* how often the effect was attempted
    fate,           \* what became of it in the world outside
    verdict         \* what is on record about it

evars == <<tries, fate, verdict>>

EffectInit ==
    /\ tries = [k \in Key |-> 0]
    /\ fate = [k \in Key |-> "none"]
    /\ verdict = [k \in Key |-> "open"]

Attempt(k) ==
    /\ tries[k] = 0
    /\ tries' = [tries EXCEPT ![k] = 1]
    /\ fate' = [fate EXCEPT ![k] = "inflight"]
    /\ UNCHANGED verdict

\* The world takes the effect, or turns it down for good.
Happen(k) ==
    /\ fate[k] = "inflight"
    /\ \E f \in {"applied", "refused"} : fate' = [fate EXCEPT ![k] = f]
    /\ UNCHANGED <<tries, verdict>>

\* "unknown" is always an honest verdict, the other two need the fact.
Conclude(k) ==
    /\ verdict[k] = "open"
    /\ \E v \in {"succeeded", "failed", "unknown"} :
          /\ v = "succeeded" => fate[k] = "applied"
          /\ v = "failed" => fate[k] = "refused"
          /\ verdict' = [verdict EXCEPT ![k] = v]
    /\ UNCHANGED <<tries, fate>>

EffectNext == \E k \in Key : Attempt(k) \/ Happen(k) \/ Conclude(k)

EffectSpec == EffectInit /\ [][EffectNext]_evars
===============================================================================
