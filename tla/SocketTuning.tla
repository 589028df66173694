---------------------------- MODULE SocketTuning ----------------------------
(***************************************************************************)
(* tune_socket_buffer (udp.rs): one socket buffer is grown from the kernel's *)
(* default towards a target by doubling, and once a size is rejected, by a   *)
(* search between the last accepted and the rejected size.  The kernel       *)
(* rejects sizes above a limit.  A size is a number of some unit.           *)
(***************************************************************************)
EXTENDS Naturals

CONSTANTS
    Minimum,        \* MIN_UDP_SOCKET_BUFFER
    Granularity,    \* UDP_SOCKET_BUFFER_SEARCH_GRANULARITY
    MaxSize         \* bound: defaults, limits and requested targets

ASSUME SocketTuningConfig ==
    /\ {Minimum, Granularity} \subseteq Nat \ {0}
    /\ MaxSize \in Nat

VARIABLES
    initial, limit, target,     \* kernel default, kernel limit, effective target
    current,                    \* the size the kernel has now
    candidate,                  \* next size to try
    accepted,                   \* accepted_request; 0 is None.  low of the search
    high,                       \* upper end of the search
    effective,                  \* the size last read back
    pc                          \* "grow", "search", "done" or "limited"

parameters == <<initial, limit, target>>
tuneVars == <<parameters, current, candidate, accepted, high, effective, pc>>

Larger(a, b) == IF a > b THEN a ELSE b
Smaller(a, b) == IF a < b THEN a ELSE b

TuneInit ==
    /\ initial \in 1 .. MaxSize /\ limit \in 1 .. MaxSize
    /\ \E requested \in 0 .. MaxSize : target = Larger(requested, Minimum)
    /\ current = initial /\ effective = initial
    /\ candidate = Minimum /\ accepted = 0 /\ high = 0
    /\ pc = IF initial >= target THEN "done" ELSE "grow"

-----------------------------------------------------------------------------
(* The next candidate, or the target was the last one.                      *)
Advance ==
    IF candidate = target
    THEN pc' = "done" /\ UNCHANGED candidate
    ELSE candidate' = Smaller(2 * candidate, target) /\ UNCHANGED pc

(* Never smaller than the kernel's default.                                 *)
Skip ==
    /\ pc = "grow" /\ candidate <= initial
    /\ Advance
    /\ UNCHANGED <<parameters, current, accepted, high, effective>>

(* The kernel takes the candidate, which is read back.                      *)
Grow ==
    /\ pc = "grow" /\ candidate > initial
    /\ candidate <= limit
    /\ current' = candidate /\ effective' = candidate /\ accepted' = candidate
    /\ Advance
    /\ UNCHANGED <<parameters, high>>

(* The candidate is rejected: search below it, if a size was accepted.      *)
Rejected ==
    /\ pc = "grow" /\ candidate > initial
    /\ candidate > limit
    /\ high' = candidate
    /\ pc' = IF accepted = 0 THEN "limited" ELSE "search"
    /\ UNCHANGED <<parameters, current, candidate, accepted, effective>>

Midpoint ==
    LET middle == accepted + (high - accepted) \div 2
    IN (middle \div Granularity) * Granularity

Searching == high - accepted > Granularity /\ Midpoint > accepted

(* Mutant of SearchStep: a rejected midpoint ends the search.               *)
SearchStepOnce ==
    /\ pc = "search" /\ Searching
    /\ IF Midpoint <= limit
       THEN /\ current' = Midpoint /\ effective' = Midpoint /\ accepted' = Midpoint
            /\ UNCHANGED <<high, pc>>
       ELSE pc' = "limited" /\ UNCHANGED <<current, effective, accepted, high>>
    /\ UNCHANGED <<parameters, candidate>>

(* A midpoint is tried; the size accepted is read back.                     *)
SearchStep ==
    /\ pc = "search" /\ Searching
    /\ IF Midpoint <= limit
       THEN /\ current' = Midpoint /\ effective' = Midpoint /\ accepted' = Midpoint
            /\ UNCHANGED high
       ELSE high' = Midpoint /\ UNCHANGED <<current, effective, accepted>>
    /\ UNCHANGED <<parameters, candidate, pc>>

SearchEnds ==
    /\ pc = "search" /\ ~ Searching
    /\ pc' = "limited"
    /\ UNCHANGED <<parameters, current, candidate, accepted, high, effective>>

Tune == Skip \/ Grow \/ Rejected \/ SearchStep \/ SearchEnds

TuneSpec == TuneInit /\ [][Tune]_tuneVars

-----------------------------------------------------------------------------
(* The size the kernel has never falls below its default, and is what is     *)
(* reported.  The target is reached if the kernel could grant it.  Otherwise *)
(* a search ends within two granules of what the kernel could grant: less    *)
(* than the comment before it and the test of a limit that is no power of   *)
(* two have, because the midpoint is rounded down to the granule.           *)
TunedAsFarAsPossible ==
    /\ current >= initial /\ effective = current
    /\ pc = "done" => current >= target
    /\ pc = "limited" =>
          /\ limit < target
          /\ accepted # 0 => limit - current < 2 * Granularity

=============================================================================
