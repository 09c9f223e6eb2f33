----------------------------- MODULE RetryWindow ----------------------------
(***************************************************************************)
(* What the queue has to know of the retry window: how many attempts fit   *)
(* in it at most.  RetryBackoff has the arithmetic behind it.              *)
(***************************************************************************)
EXTENDS Naturals

CONSTANT MaxAttempts    \* the attempt at which the backoffs outgrow the window

(* handleFailure: the attempt counts; whether another backoff fits in the  *)
(* window depends on the time spent, but never beyond MaxAttempts, and the *)
(* first failure opens the window.  n: failures before this one.           *)
AfterFailureForever(n) == {"retrying"}
AfterFailure(n) ==
    IF n + 1 >= MaxAttempts THEN {"failed"}
    ELSE IF n = 0 THEN {"retrying"} ELSE {"retrying", "failed"}
=============================================================================
