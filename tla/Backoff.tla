------------------------------- MODULE Backoff -------------------------------
(***************************************************************************)
(* The delay of a retry: the tier that ReportActivityFailure computes, the *)
(* column it is stored in, and the route by which the publisher and the    *)
(* broker take it.  The arithmetic is that of Go's int with IntWidth bits. *)
(***************************************************************************)
EXTENDS Integers

CONSTANTS
    IntWidth,   \* bits of an int (64 in the builds of this repository)
    ColumnWidth \* bits of the INT column outbox_messages.tier (32)

ASSUME WidthAssumption ==
    /\ IntWidth \in Nat /\ ColumnWidth \in Nat
    /\ 6 < ColumnWidth /\ ColumnWidth < IntWidth

\* retryTiers: a parking queue for each of these delays, in seconds.
RetryTiers == {1, 2, 4, 8, 16}

\* By a recursive function, which a proof can unfold.
PowerOfTwo[n \in Nat] == IF n = 0 THEN 1 ELSE 2 * PowerOfTwo[n - 1]

\* 1 << n: the last bit is the sign, and what is shifted out is gone.
ShiftedOne(n) ==
    IF n >= IntWidth THEN 0
    ELSE IF n = IntWidth - 1 THEN -PowerOfTwo[n] ELSE PowerOfTwo[n]

\* Mutant of Backoff: the shift starts at the attempt that failed.
BackoffTooLate(nextAttempt) ==
    LET tier == ShiftedOne(nextAttempt - 1) IN IF tier > 16 THEN 16 ELSE tier

Backoff(nextAttempt) ==
    LET tier == ShiftedOne(nextAttempt - 2) IN IF tier > 16 THEN 16 ELSE tier

\* The insert of the outbox row, and with it the transaction, fails when it does not fit.
Fits(tier) == -PowerOfTwo[ColumnWidth - 1] <= tier /\ tier < PowerOfTwo[ColumnWidth - 1]

\* processOutbox: how a tier is published; a delay without a queue is dropped by the broker.
RouteOf(tier) ==
    IF tier = -1 THEN "dlq"
    ELSE IF tier = 0 THEN "worker"
    ELSE IF tier \in RetryTiers THEN "parked" ELSE "dropped"

\* The delay by a policy of doubling up to 16 seconds, in integers without a width.
Delay[a \in Nat] == IF a <= 2 THEN 1 ELSE IF 2 * Delay[a - 1] > 16 THEN 16 ELSE 2 * Delay[a - 1]

\* Up to attempt IntWidth a retry waits, in a queue that exists, as long as doubling up to 16
\* seconds says.
Doubles == \A a \in 2..IntWidth : Backoff(a) = Delay[a] /\ Fits(Backoff(a))

\* Then the shift reaches the sign, which no insert accepts, and leaves the int: no delay.
Overflows ==
    /\ ~Fits(Backoff(IntWidth + 1))
    /\ \A a \in (IntWidth + 2)..(2 * IntWidth) : RouteOf(Backoff(a)) = "worker"
=============================================================================
