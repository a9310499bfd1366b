---------------------------- MODULE ReadinessProbe -----------------------------
(***************************************************************************)
(* The cached probe of the upstream in the control plane:                  *)
(* UpstreamReadinessProbe of Readiness/ReadinessServices.cs.  Requests for *)
(* the readiness run on several threads; one of them probes behind a       *)
(* semaphore while the others wait, and its result is valid for a while.   *)
(* The fields are read without the semaphore on the fast path, so the test *)
(* of _validUntil and the read of _lastResult are separate steps.          *)
(*                                                                         *)
(* Time is counted in half seconds.  The database probe, which has no      *)
(* state, is left out.                                                     *)
(***************************************************************************)
EXTENDS Integers

CONSTANTS
    Probers,      \* concurrent requests
    NoProber,
    ValidReady,   \* how long a good result is valid: 2 seconds
    ValidFailed,  \* how long a bad one is: 500 milliseconds
    LastInstant   \* bound: the clock

ASSUME ProbeAssumption ==
    /\ ValidFailed \in 1..ValidReady /\ ValidReady \in Nat
    /\ LastInstant \in Nat
    /\ NoProber \notin Probers

VARIABLES
    instant,      \* TimeProvider.GetUtcNow
    upstreamUp,   \* what a probe would find
    validUntil,   \* _validUntil
    lastResult,   \* _lastResult, with the time its probe began
    gate,         \* the semaphore: the request that holds it, or NoProber
    prober        \* per request: its step and the time it read

probeVars == <<instant, upstreamUp, validUntil, lastResult, gate, prober>>

Result == [ready : BOOLEAN, began : 0..LastInstant]

Resting == [step |-> "rest", now |-> 0, answer |-> [ready |-> FALSE, began |-> 0]]

ProbeInit ==
    /\ instant = 0 /\ upstreamUp \in BOOLEAN
    /\ validUntil = 0  \* DateTimeOffset.MinValue: not after any time read
    /\ lastResult = [ready |-> FALSE, began |-> 0]
    /\ gate = NoProber
    /\ prober = [p \in Probers |-> Resting]

Moves(p, step, now) ==
    prober' = [prober EXCEPT ![p] =
                 [step |-> step, now |-> now, answer |-> prober[p].answer]]

Answers(p, result) ==
    prober' = [prober EXCEPT ![p] =
                 [step |-> "done", now |-> prober[p].now, answer |-> result]]

\* The request reads the clock and tests _validUntil
IsReady(p) ==
    /\ prober[p].step \in {"rest", "done"}
    /\ Moves(p, IF instant < validUntil THEN "read" ELSE "wait", instant)
    /\ UNCHANGED <<instant, upstreamUp, validUntil, lastResult, gate>>

\* return _lastResult, without the semaphore
ReadResult(p) ==
    /\ prober[p].step = "read"
    /\ Answers(p, lastResult)
    /\ UNCHANGED <<instant, upstreamUp, validUntil, lastResult, gate>>

\* WaitAsync; the clock is read again and the validity tested again
EnterGate(p) ==
    /\ prober[p].step = "wait" /\ gate = NoProber
    /\ gate' = p
    /\ Moves(p, IF instant < validUntil THEN "held" ELSE "probe", instant)
    /\ UNCHANGED <<instant, upstreamUp, validUntil, lastResult>>

\* Another request renewed the result meanwhile
ReturnHeld(p) ==
    /\ prober[p].step = "held"
    /\ Answers(p, lastResult)
    /\ gate' = NoProber
    /\ UNCHANGED <<instant, upstreamUp, validUntil, lastResult>>

\* ProbeAsync: ready, not ready, or no answer within the client's timeout
Probe(p) ==
    /\ prober[p].step = "probe"
    /\ \E ready \in {upstreamUp, FALSE} :
         lastResult' = [ready |-> ready, began |-> prober[p].now]
    /\ Moves(p, "probed", prober[p].now)
    /\ UNCHANGED <<instant, upstreamUp, validUntil, gate>>

\* The validity is counted from the end of the probe
ValidFromEnd(p) ==
    instant + (IF lastResult.ready THEN ValidReady ELSE ValidFailed)

\* now was read before the probe
ValidFrom(p) ==
    prober[p].now + (IF lastResult.ready THEN ValidReady ELSE ValidFailed)

Renew(p) ==
    /\ prober[p].step = "probed"
    /\ validUntil' = ValidFrom(p)
    /\ Answers(p, lastResult)
    /\ gate' = NoProber
    /\ UNCHANGED <<instant, upstreamUp, lastResult>>

\* The client of a request goes away: it stops waiting, or stops probing and
\* the finally block releases the semaphore
Cancel(p) ==
    /\ prober[p].step \in {"wait", "probe"}
    /\ prober' = [prober EXCEPT ![p] = Resting]
    /\ gate' = IF gate = p THEN NoProber ELSE gate
    /\ UNCHANGED <<instant, upstreamUp, validUntil, lastResult>>

\* Time passes and the upstream comes and goes
World ==
    /\ \/ instant < LastInstant /\ instant' = instant + 1 /\ UNCHANGED upstreamUp
       \/ upstreamUp' = ~upstreamUp /\ UNCHANGED instant
    /\ UNCHANGED <<validUntil, lastResult, gate, prober>>

ProbeNext ==
    \/ \E p \in Probers :
         \/ IsReady(p) \/ ReadResult(p) \/ EnterGate(p) \/ ReturnHeld(p)
         \/ Probe(p) \/ Renew(p) \/ Cancel(p)
    \/ World

ProbeSpec == ProbeInit /\ [][ProbeNext]_probeVars
--------------------------------------------------------------------------------
ProbeTypeOK ==
    /\ instant \in 0..LastInstant /\ upstreamUp \in BOOLEAN
    /\ validUntil \in 0..LastInstant + ValidReady
    /\ lastResult \in Result /\ gate \in Probers \cup {NoProber}
    /\ \A p \in Probers :
         /\ prober[p].step \in {"rest", "read", "wait", "held", "probe", "probed",
                                "done"}
         /\ prober[p].answer \in Result

\* No answer is older than its validity: between the beginning of the probe
\* and the moment a request asked, less than 2 seconds passed if the answer is
\* ready and less than 500 milliseconds if it is not, whichever of the two
\* reads of the fast path another thread's probe falls between
AnswerIsFresh ==
    \A p \in Probers :
      prober[p].step = "done" =>
        LET a == prober[p].answer
        IN  prober[p].now - a.began < (IF a.ready THEN ValidReady ELSE ValidFailed)

\* The semaphore is held by the one request that is inside, and by nobody when
\* none is: a request that is cancelled while it probes does not lock the
\* others out
GateHasItsHolder ==
    \A p \in Probers : gate = p <=> prober[p].step \in {"held", "probe", "probed"}

\* Requests that share one cached result get a fresh one, and the semaphore
\* that guards it is never lost
ProbesAreSound == AnswerIsFresh /\ GateHasItsHolder
================================================================================
