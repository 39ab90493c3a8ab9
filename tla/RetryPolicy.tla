----------------------------- MODULE RetryPolicy -----------------------------
(***************************************************************************)
(* RetryPolicy.NextDelay: exponential backoff with a cap and jitter, in    *)
(* integers of Width bits.  One unit of time stands for a second, and      *)
(* Jitter is in quarters.                                                  *)
(***************************************************************************)
EXTENDS Integers, FiniteSetsExt

CONSTANT Width  \* bits of a time.Duration: 64

(* A quarter of a Duration's range has room for the default MaxDelay, 30. *)
ASSUME WidthAssumption == Width \in Nat /\ Width >= 7

(* 2^n *)
Pow2[n \in Nat] == IF n = 0 THEN 1 ELSE 2 * Pow2[n - 1]

Wrapped(x) == ((x + Pow2[Width - 1]) % Pow2[Width]) - Pow2[Width - 1]

DefaultRetryPolicy == [base |-> 1, max |-> 30, jitter |-> 2]

(* NewWorker *)
Configured(p) == IF p.base <= 0 THEN DefaultRetryPolicy ELSE p

(* Fault for Doubled: the loop does not stop at the cap. *)
DoubledOn(base, max, attempt) ==
  LET delay[i \in 1 .. attempt] == IF i = 1 THEN base ELSE Wrapped(2 * delay[i - 1])
  IN  delay[attempt]

(* The loop. *)
Doubled(base, max, attempt) ==
  LET delay[i \in 1 .. attempt] ==
        IF i = 1 THEN base
        ELSE IF delay[i - 1] < max THEN Wrapped(2 * delay[i - 1]) ELSE delay[i - 1]
  IN  delay[attempt]

(* The delays NextDelay may return: the last Jitter part of the delay is drawn
   at random. *)
NextDelay(p, nth) ==
  LET base == IF p.base = 0 THEN 1 ELSE p.base
      max == IF p.max = 0 THEN 30 ELSE p.max
      delay == Min({Doubled(base, max, Max({nth, 1})), max})
      jitter == Min({Max({p.jitter, 0}), 4})
  IN  IF jitter > 0 /\ delay > 0 THEN (delay * (4 - jitter)) \div 4 .. delay - 1 ELSE {delay}

(* What the comment on NextDelay promises. *)
Backoff(p, nth) ==
  Min({p.base * Pow2[nth - 1], IF p.max = 0 THEN 30 ELSE p.max})

Policies == [base : -1 .. 3, max : 0 .. Pow2[Width - 2], jitter : {-1, 0, 1, 2, 4, 5}]

IsBackoff(p, nth) ==
  LET delays == NextDelay(p, nth)
      jitter == Min({Max({p.jitter, 0}), 4})
  IN  /\ Max(delays) <= Backoff(p, nth)
      /\ Min(delays) >= (Backoff(p, nth) * (4 - jitter)) \div 4
      /\ jitter = 0 => delays = {Backoff(p, nth)}
=============================================================================
