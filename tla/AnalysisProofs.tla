---------------------------- MODULE AnalysisProofs ----------------------------
(***************************************************************************)
(* Proofs about the analyses of a change and of an incident, what the      *)
(* console is told of the connection and of delivery, the readiness probe  *)
(* of the control plane, the verification command and the maintenance      *)
(* scripts, for any number of requests, operators, services, candidates,   *)
(* items of evidence and rows and any durations.  The components share no  *)
(* variables; each theorem is about one of them, but for the last one,     *)
(* which states the types of all of them.                                  *)
(***************************************************************************)
EXTENDS MCAnalysis, TLAPS, FiniteSetTheorems, SequenceTheorems,
        WellFoundedInduction

-------------------------------------------------------------------------------
(* ReadinessProbe *)

Validity(result) == IF result.ready THEN ValidReady ELSE ValidFailed

ProbeStep == {"rest", "read", "wait", "held", "probe", "probed", "done"}

ProbeState == [step : ProbeStep, now : 0..LastInstant, answer : Result]

ProbeTypes ==
    /\ instant \in 0..LastInstant /\ upstreamUp \in BOOLEAN
    /\ validUntil \in 0..LastInstant + ValidReady
    /\ lastResult \in Result /\ gate \in Probers \cup {NoProber}
    /\ prober \in [Probers -> ProbeState]

\* _validUntil never exceeds the validity of the result that is stored, not even
\* between the two assignments
NotOverstated == validUntil <= lastResult.began + Validity(lastResult)

\* A request that probes found the last result outdated; one that returns it
\* found it valid, and _validUntil has only grown since
TestsHold ==
    \A p \in Probers :
        /\ prober[p].step \in {"probe", "probed"} => validUntil <= prober[p].now
        /\ prober[p].step = "probed" => lastResult.began = prober[p].now
        /\ prober[p].step \in {"read", "held"} => prober[p].now < validUntil

ProbeInv == ProbeTypes /\ NotOverstated /\ TestsHold /\ GateHasItsHolder /\ AnswerIsFresh

\* Durations and times are numbers.
LEMMA ProbeNumbers ==
    ASSUME ProbeTypes
    PROVE  /\ instant \in Nat /\ validUntil \in Nat
           /\ ValidReady \in Nat /\ ValidFailed \in Nat /\ ValidFailed >= 1
           /\ ValidReady >= ValidFailed
           /\ \A result \in Result :
                /\ result.began \in Nat /\ result.ready \in BOOLEAN
                /\ Validity(result) \in Nat /\ Validity(result) >= 1
                /\ Validity(result) <= ValidReady
           /\ \A p \in Probers :
                /\ prober[p] \in ProbeState /\ prober[p].now \in Nat
                /\ prober[p].step \in ProbeStep /\ prober[p].answer \in Result
  <1>1. /\ ValidReady \in Nat /\ ValidFailed \in Nat /\ ValidFailed >= 1
        /\ ValidReady >= ValidFailed
    BY ProbeAssumption
  <1>2. instant \in Nat /\ validUntil \in Nat
    BY <1>1, ProbeAssumption DEF ProbeTypes
  <1>3. \A result \in Result :
          /\ result.began \in Nat /\ result.ready \in BOOLEAN
          /\ Validity(result) \in Nat /\ Validity(result) >= 1
          /\ Validity(result) <= ValidReady
    BY <1>1, ProbeAssumption DEF Result, Validity
  <1>4. \A p \in Probers :
          /\ prober[p] \in ProbeState /\ prober[p].now \in Nat
          /\ prober[p].step \in ProbeStep /\ prober[p].answer \in Result
    BY ProbeAssumption DEF ProbeTypes, ProbeState
  <1> QED
    BY <1>1, <1>2, <1>3, <1>4

\* A valid result is a fresh answer.
LEMMA ValidIsFresh ==
    ASSUME ProbeInv, NEW p \in Probers, prober[p].now < validUntil
    PROVE  prober[p].now - lastResult.began < Validity(lastResult)
  <1>1. /\ prober[p].now \in Nat /\ validUntil \in Nat /\ lastResult.began \in Nat
        /\ Validity(lastResult) \in Nat
    BY ProbeNumbers DEF ProbeInv, ProbeTypes
  <1>2. validUntil <= lastResult.began + Validity(lastResult)
    BY DEF ProbeInv, NotOverstated
  <1> QED
    BY <1>1, <1>2

\* A request that changes only its own step, and the semaphore with it.
LEMMA ProberMoves ==
    ASSUME ProbeInv, NEW p \in Probers, NEW s \in ProbeState,
           prober' = [prober EXCEPT ![p] = s],
           UNCHANGED <<instant, upstreamUp, validUntil, lastResult>>,
           gate' \in Probers \cup {NoProber},
           gate' = p <=> s.step \in {"held", "probe", "probed"},
           \/ gate' = gate \/ (gate = NoProber /\ gate' = p)
           \/ gate = p /\ gate' = NoProber,
           s.step = "probe" => validUntil <= s.now,
           s.step # "probed",
           s.step \in {"read", "held"} => s.now < validUntil,
           s.step = "done" => s.now - s.answer.began < Validity(s.answer)
    PROVE  ProbeInv'
  <1>1. prober'[p] = s /\ \A q \in Probers : q # p => prober'[q] = prober[q]
    BY DEF ProbeInv, ProbeTypes
  <1>2. ProbeTypes'
    BY DEF ProbeInv, ProbeTypes
  <1>3. NotOverstated'
    BY DEF ProbeInv, NotOverstated, Validity
  <1>4. TestsHold'
    BY <1>1 DEF ProbeInv, TestsHold
  <1>5. GateHasItsHolder'
    BY <1>1, ProbeAssumption DEF ProbeInv, GateHasItsHolder
  <1>6. AnswerIsFresh'
    BY <1>1 DEF ProbeInv, AnswerIsFresh, Validity
  <1> QED
    BY <1>2, <1>3, <1>4, <1>5, <1>6 DEF ProbeInv

\* The steps that store nothing.
LEMMA QuietSteps ==
    ASSUME ProbeInv, NEW p \in Probers,
           \/ IsReady(p) \/ ReadResult(p) \/ EnterGate(p) \/ ReturnHeld(p) \/ Cancel(p)
    PROVE  ProbeInv'
  <1>0. /\ prober[p] \in ProbeState /\ prober[p].now \in 0..LastInstant
        /\ prober[p].answer \in Result /\ lastResult \in Result
        /\ instant \in 0..LastInstant /\ validUntil \in Nat /\ instant \in Nat
    BY ProbeNumbers DEF ProbeInv, ProbeTypes, ProbeState
  <1>1. CASE IsReady(p)
    <2> DEFINE step == IF instant < validUntil THEN "read" ELSE "wait"
               s == [step |-> step, now |-> instant, answer |-> prober[p].answer]
    <2>1. prober' = [prober EXCEPT ![p] = s]
      BY <1>0, <1>1 DEF IsReady, Moves
    <2>2. s \in ProbeState
      BY <1>0 DEF ProbeState, ProbeStep
    <2>3. gate # p /\ gate' = gate
      BY <1>1 DEF IsReady, ProbeInv, GateHasItsHolder
    <2> QED
      BY <1>0, <1>1, <2>1, <2>2, <2>3, ProberMoves DEF IsReady, ProbeInv, ProbeTypes
  <1>2. CASE ReadResult(p)
    <2> DEFINE s == [step |-> "done", now |-> prober[p].now, answer |-> lastResult]
    <2>1. prober' = [prober EXCEPT ![p] = s]
      BY <1>0, <1>2 DEF ReadResult, Answers
    <2>2. s \in ProbeState
      BY <1>0 DEF ProbeState, ProbeStep
    <2>3. gate # p /\ gate' = gate
      BY <1>2 DEF ReadResult, ProbeInv, GateHasItsHolder
    <2>4. s.now - s.answer.began < Validity(s.answer)
      BY <1>2, ValidIsFresh DEF ReadResult, ProbeInv, TestsHold
    <2> QED
      BY <1>2, <2>1, <2>2, <2>3, <2>4, ProberMoves DEF ReadResult, ProbeInv, ProbeTypes
  <1>3. CASE EnterGate(p)
    <2> DEFINE step == IF instant < validUntil THEN "held" ELSE "probe"
               s == [step |-> step, now |-> instant, answer |-> prober[p].answer]
    <2>1. prober' = [prober EXCEPT ![p] = s]
      BY <1>0, <1>3 DEF EnterGate, Moves
    <2>2. s \in ProbeState
      BY <1>0 DEF ProbeState, ProbeStep
    <2>3. gate = NoProber /\ gate' = p
      BY <1>3 DEF EnterGate
    <2>4. /\ s.step \in {"held", "probe"}
          /\ s.step = "probe" => validUntil <= s.now
          /\ s.step = "held" => s.now < validUntil
      BY <1>0
    <2>5. gate' \in Probers \cup {NoProber}
      BY <2>3
    <2>6. UNCHANGED <<instant, upstreamUp, validUntil, lastResult>>
      BY <1>3 DEF EnterGate
    <2> HIDE DEF s
    <2> QED
      BY <2>1, <2>2, <2>3, <2>4, <2>5, <2>6, ProberMoves
  <1>4. CASE ReturnHeld(p)
    <2> DEFINE s == [step |-> "done", now |-> prober[p].now, answer |-> lastResult]
    <2>1. prober' = [prober EXCEPT ![p] = s]
      BY <1>0, <1>4 DEF ReturnHeld, Answers
    <2>2. s \in ProbeState
      BY <1>0 DEF ProbeState, ProbeStep
    <2>3. gate = p /\ gate' = NoProber /\ p # NoProber
      BY <1>4, ProbeAssumption DEF ReturnHeld, ProbeInv, GateHasItsHolder
    <2>4. s.now - s.answer.began < Validity(s.answer)
      BY <1>4, ValidIsFresh DEF ReturnHeld, ProbeInv, TestsHold
    <2> QED
      BY <1>4, <2>1, <2>2, <2>3, <2>4, ProberMoves DEF ReturnHeld
  <1>5. CASE Cancel(p)
    <2>1. Resting \in ProbeState /\ Resting.step = "rest"
      BY ProbeAssumption DEF Resting, ProbeState, ProbeStep, Result
    <2>2. prober' = [prober EXCEPT ![p] = Resting]
      BY <1>5 DEF Cancel
    <2>3. gate' = IF gate = p THEN NoProber ELSE gate
      BY <1>5 DEF Cancel
    <2>4. gate' \in Probers \cup {NoProber} /\ gate' # p
      BY <2>3, ProbeAssumption DEF ProbeInv, ProbeTypes
    <2> QED
      BY <1>5, <2>1, <2>2, <2>3, <2>4, ProberMoves DEF Cancel
  <1> QED
    BY <1>1, <1>2, <1>3, <1>4, <1>5

\* The new result began after everything that was valid, so a request that had
\* tested the old _validUntil may return it.
LEMMA ProbeKeeps ==
    ASSUME ProbeInv, NEW p \in Probers, Probe(p)
    PROVE  ProbeInv'
  <1>1. PICK ready \in BOOLEAN :
          lastResult' = [ready |-> ready, began |-> prober[p].now]
    BY DEF Probe, ProbeInv, ProbeTypes
  <1>2. UNCHANGED <<instant, upstreamUp, validUntil, gate>> /\ prober[p].step = "probe"
    BY DEF Probe
  <1>3. /\ prober[p] \in ProbeState /\ prober[p].now \in 0..LastInstant
        /\ prober[p].now \in Nat /\ validUntil \in Nat
    BY ProbeNumbers DEF ProbeInv, ProbeState
  <1> DEFINE s == [step |-> "probed", now |-> prober[p].now, answer |-> prober[p].answer]
  <1>4. prober' = [prober EXCEPT ![p] = s] /\ s \in ProbeState
    <2>1. prober' = [prober EXCEPT ![p] = s]
      BY <1>3 DEF Probe, Moves
    <2>2. s \in ProbeState
      BY <1>3 DEF ProbeState, ProbeStep
    <2> QED
      BY <2>1, <2>2
  <1>5. prober'[p] = s /\ \A q \in Probers : q # p => prober'[q] = prober[q]
    BY <1>4 DEF ProbeInv, ProbeTypes
  <1>6. lastResult' \in Result /\ lastResult'.began = prober[p].now
    BY <1>1, <1>3 DEF Result
  <1>7. ProbeTypes'
    BY <1>2, <1>4, <1>6 DEF ProbeInv, ProbeTypes
  <1>8. NotOverstated'
    <2>1. validUntil <= prober[p].now
      BY <1>2 DEF ProbeInv, TestsHold
    <2>2. Validity(lastResult)' \in Nat
      BY <1>6, ProbeAssumption DEF Validity
    <2>3. Validity(lastResult') = Validity(lastResult)'
      BY DEF Validity
    <2> QED
      BY <1>2, <1>3, <1>6, <2>1, <2>2 DEF NotOverstated
  <1>9. \A q \in Probers : q # p => prober[q].step \notin {"held", "probe", "probed"}
    BY <1>2 DEF ProbeInv, GateHasItsHolder
  <1>10. TestsHold'
    BY <1>2, <1>5, <1>6, <1>9 DEF ProbeInv, TestsHold
  <1>11. GateHasItsHolder'
    BY <1>2, <1>5 DEF ProbeInv, GateHasItsHolder
  <1>12. AnswerIsFresh'
    BY <1>5 DEF ProbeInv, AnswerIsFresh
  <1> QED
    BY <1>7, <1>8, <1>10, <1>11, <1>12 DEF ProbeInv

\* _validUntil grows: the request that sets it had found it in its past.
LEMMA RenewKeeps ==
    ASSUME ProbeInv, NEW p \in Probers, Renew(p)
    PROVE  ProbeInv'
  <1>1. /\ prober[p].step = "probed" /\ gate' = NoProber
        /\ validUntil' = prober[p].now + Validity(lastResult)
        /\ UNCHANGED <<instant, upstreamUp, lastResult>>
    BY DEF Renew, ValidFrom, Validity
  <1>2. /\ prober[p] \in ProbeState /\ prober[p].now \in 0..LastInstant
        /\ prober[p].now \in Nat /\ validUntil \in Nat /\ lastResult \in Result
        /\ lastResult.began = prober[p].now /\ validUntil <= prober[p].now
    BY <1>1, ProbeNumbers DEF ProbeInv, ProbeState, ProbeTypes, TestsHold
  <1>3. /\ Validity(lastResult) \in Nat /\ Validity(lastResult) >= 1
        /\ Validity(lastResult) <= ValidReady /\ ValidReady \in Nat
    BY <1>2, ProbeNumbers DEF ProbeInv
  <1>4. validUntil' \in Nat /\ validUntil' >= validUntil
    BY <1>1, <1>2, <1>3
  <1>5. validUntil' \in 0..LastInstant + ValidReady
    BY <1>1, <1>2, <1>3, ProbeAssumption
  <1> DEFINE s == [step |-> "done", now |-> prober[p].now, answer |-> lastResult]
  <1>6. prober' = [prober EXCEPT ![p] = s] /\ s \in ProbeState
    <2>1. prober' = [prober EXCEPT ![p] = s]
      BY <1>2 DEF Renew, Answers
    <2>2. s \in ProbeState
      BY <1>2 DEF ProbeState, ProbeStep
    <2> QED
      BY <2>1, <2>2
  <1>7. prober'[p] = s /\ \A q \in Probers : q # p => prober'[q] = prober[q]
    BY <1>6 DEF ProbeInv, ProbeTypes
  <1>8. gate = p /\ \A q \in Probers : q # p => prober[q].step \notin {"held", "probe", "probed"}
    BY <1>1 DEF ProbeInv, GateHasItsHolder
  <1>9. ProbeTypes'
    BY <1>1, <1>5, <1>6 DEF ProbeInv, ProbeTypes
  <1>10. NotOverstated'
    <2>1. validUntil' <= lastResult.began + Validity(lastResult)
      BY <1>1, <1>2, <1>3
    <2> QED
      BY <1>1, <2>1 DEF NotOverstated, Validity
  <1>11. TestsHold'
    <2> SUFFICES ASSUME NEW q \in Probers, q # p,
                        prober[q].step \in {"read", "held"}
                 PROVE  prober[q].now < validUntil'
      BY <1>7, <1>8 DEF TestsHold
    <2>1. prober[q].now < validUntil /\ prober[q].now \in Nat
      BY ProbeNumbers DEF ProbeInv, TestsHold
    <2> QED
      BY <2>1, <1>2, <1>4
  <1>12. GateHasItsHolder'
    BY <1>1, <1>7, <1>8, ProbeAssumption DEF GateHasItsHolder
  <1>13. AnswerIsFresh'
    <2>1. s.now - s.answer.began < Validity(s.answer)
      BY <1>2, <1>3
    <2> QED
      BY <2>1, <1>7 DEF ProbeInv, AnswerIsFresh, Validity
  <1> QED
    BY <1>9, <1>10, <1>11, <1>12, <1>13 DEF ProbeInv

\* Every step of the requests, the clock and the upstream keeps the invariant.
LEMMA ProbeStepKeeps == ProbeInv /\ [ProbeNext]_probeVars => ProbeInv'
  <1> SUFFICES ASSUME ProbeInv, [ProbeNext]_probeVars PROVE ProbeInv'
    OBVIOUS
  <1>1. CASE World
    <2>1. UNCHANGED <<validUntil, lastResult, gate, prober>>
      BY <1>1 DEF World
    <2>2. instant' \in 0..LastInstant
      BY <1>1, ProbeAssumption DEF World, ProbeInv, ProbeTypes
    <2>3. upstreamUp' \in BOOLEAN
      BY <1>1, Zenon DEF World, ProbeInv, ProbeTypes
    <2> QED
      BY <2>1, <2>2, <2>3
      DEF ProbeInv, ProbeTypes, NotOverstated, Validity, TestsHold,
          GateHasItsHolder, AnswerIsFresh
  <1>2. CASE UNCHANGED probeVars
    BY <1>2
    DEF probeVars, ProbeInv, ProbeTypes, NotOverstated, Validity, TestsHold,
        GateHasItsHolder, AnswerIsFresh
  <1> QED
    BY <1>1, <1>2, QuietSteps, ProbeKeeps, RenewKeeps DEF ProbeNext

\* Before the first request nothing is valid and the semaphore is free.
LEMMA ProbeBegins == ProbeInit => ProbeInv
  <1> SUFFICES ASSUME ProbeInit PROVE ProbeInv
    OBVIOUS
  <1>1. /\ lastResult \in Result /\ lastResult.began = 0 /\ validUntil = 0
        /\ ~lastResult.ready
    BY ProbeAssumption DEF ProbeInit, Result
  <1>2. Resting \in ProbeState /\ Resting.step = "rest"
    BY ProbeAssumption DEF Resting, ProbeState, ProbeStep, Result
  <1>3. ProbeTypes
    BY <1>1, <1>2, ProbeAssumption DEF ProbeInit, ProbeTypes
  <1>4. NotOverstated
    BY <1>1, ProbeAssumption DEF NotOverstated, Validity
  <1> QED
    BY <1>2, <1>3, <1>4, ProbeAssumption
    DEF ProbeInit, ProbeInv, TestsHold, GateHasItsHolder, AnswerIsFresh

\* UpstreamReadinessProbe: no request is answered with a result older than its
\* validity, though the fast path reads the two fields without the semaphore,
\* and the semaphore is held by the one request inside, also when requests are
\* cancelled, for any number of requests and any validities.
THEOREM ProbesStaySound == ProbeSpec => []ProbesAreSound
  <1>1. ProbeInv => ProbesAreSound
    BY DEF ProbeInv, ProbesAreSound
  <1> QED
    BY <1>1, ProbeBegins, ProbeStepKeeps, PTL DEF ProbeSpec

-------------------------------------------------------------------------------
(* Backup *)

DumpState ==
    [step : {"idle", "dump", "dumping", "replace", "done", "failed", "stopped"},
     sawArchive : BOOLEAN]

ArchiveState == [by : Dumps \cup {NoDump}, whole : BOOLEAN, there : BOOLEAN]

\* A backup under way without --force saw no archive, and while the archive is
\* the one that was there before, every backup that has begun saw it
LooksHold ==
    /\ \A b \in Dumps :
         dump[b].step \in {"dump", "dumping", "replace"} /\ ~force[b] =>
           ~dump[b].sawArchive
    /\ archive.there /\ archive.by = NoDump =>
         \A b \in Dumps : dump[b].step # "idle" => dump[b].sawArchive

BackupInv ==
    /\ archive \in ArchiveState /\ scratch \subseteq Dumps
    /\ force \in [Dumps -> BOOLEAN] /\ dump \in [Dumps -> DumpState]
    /\ ArchiveIsWhole /\ LooksHold

\* A backup that is not done goes on, without a change of the archive.
LEMMA DumpMoves ==
    ASSUME BackupInv, NEW b \in Dumps, NEW s \in DumpState,
           dump' = [dump EXCEPT ![b] = s], UNCHANGED <<archive, force>>,
           dump[b].step # "done", s.step \notin {"idle", "done"},
           s.step \in {"dump", "dumping", "replace"} /\ ~force[b] => ~s.sawArchive,
           \/ s.sawArchive = archive.there
           \/ s.sawArchive = dump[b].sawArchive /\ dump[b].step # "idle",
           \/ scratch' = scratch \ {b}
           \/ scratch' = scratch /\ (b \in scratch => s.step # "failed")
           \/ scratch' = scratch \cup {b} /\ s.step # "failed"
    PROVE  BackupInv'
  <1>1. /\ dump' \in [Dumps -> DumpState] /\ dump'[b] = s
        /\ \A c \in Dumps : c # b => dump'[c] = dump[c]
    BY DEF BackupInv
  <1>2. scratch' \subseteq Dumps
    BY DEF BackupInv
  <1>3. archive'.whole /\ (archive'.by \in Dumps => dump'[archive'.by].step = "done")
    BY <1>1 DEF BackupInv, ArchiveIsWhole
  <1>4. \A c \in scratch' : dump'[c].step \notin {"idle", "done", "failed"}
    BY <1>1, <1>2 DEF BackupInv, ArchiveIsWhole
  <1>5. LooksHold'
    BY <1>1 DEF BackupInv, LooksHold
  <1> QED
    BY <1>1, <1>2, <1>3, <1>4, <1>5 DEF BackupInv, ArchiveIsWhole

\* The step of a backup changes, what it saw stays.
LEMMA DumpSteps ==
    ASSUME NEW d \in DumpState, NEW step \in {"dumping", "replace", "done", "failed", "stopped"}
    PROVE  /\ [d EXCEPT !.step = step] \in DumpState
           /\ [d EXCEPT !.step = step].step = step
           /\ [d EXCEPT !.step = step].sawArchive = d.sawArchive
  BY DEF DumpState

\* A backup replaces the archive by the whole of its own dump.
LEMMA ReplaceKeeps ==
    ASSUME BackupInv, NEW b \in Dumps, ReplaceArchive(b)
    PROVE  BackupInv'
  <1> DEFINE s == [dump[b] EXCEPT !.step = "done"]
  <1>1. dump[b] \in DumpState /\ dump[b].step = "replace"
    BY DEF BackupInv, ReplaceArchive
  <1>2. s \in DumpState /\ s.step = "done"
    BY <1>1, DumpSteps
  <1>3. /\ archive' = Archive(b, TRUE) /\ scratch' = scratch \ {b} /\ force' = force
        /\ dump' = [dump EXCEPT ![b] = s]
    BY DEF ReplaceArchive
  <1>4. /\ dump' \in [Dumps -> DumpState] /\ dump'[b] = s
        /\ \A c \in Dumps : c # b => dump'[c] = dump[c]
    BY <1>2, <1>3 DEF BackupInv
  <1>5. archive' \in ArchiveState /\ archive'.whole /\ archive'.by = b
    BY <1>3 DEF Archive, ArchiveState
  <1>6. ArchiveIsWhole'
    BY <1>2, <1>3, <1>4, <1>5 DEF BackupInv, ArchiveIsWhole
  <1>7. LooksHold'
    BY <1>2, <1>3, <1>4, <1>5, BackupAssumption DEF BackupInv, LooksHold
  <1> QED
    BY <1>3, <1>4, <1>5, <1>6, <1>7 DEF BackupInv

\* Every step of the backups keeps the invariant.
LEMMA BackupStep == BackupInv /\ [BackupNext]_backupVars => BackupInv'
  <1> SUFFICES ASSUME BackupInv, [BackupNext]_backupVars PROVE BackupInv'
    OBVIOUS
  <1>1. ASSUME NEW b \in Dumps, Begin(b) PROVE BackupInv'
    <2> DEFINE s == [step |-> IF MayWrite(b) THEN "dump" ELSE "failed",
                     sawArchive |-> archive.there]
    <2>1. /\ dump' = [dump EXCEPT ![b] = s] /\ UNCHANGED <<archive, scratch, force>>
          /\ dump[b].step = "idle"
      BY <1>1 DEF Begin
    <2>2. /\ s \in DumpState /\ s.sawArchive = archive.there
          /\ s.step \in {"dump", "failed"} /\ (s.step = "dump" => MayWrite(b))
      BY DEF BackupInv, ArchiveState, DumpState
    <2>3. b \notin scratch
      BY <2>1 DEF BackupInv, ArchiveIsWhole
    <2> HIDE DEF s
    <2> QED
      BY <2>1, <2>2, <2>3, DumpMoves DEF MayWrite
  <1>2. ASSUME NEW b \in Dumps, StartDump(b) PROVE BackupInv'
    <2> DEFINE s == [dump[b] EXCEPT !.step = "dumping"]
    <2>1. /\ dump[b] \in DumpState /\ dump[b].step = "dump"
          /\ dump' = [dump EXCEPT ![b] = s]
      BY <1>2 DEF StartDump, BackupInv
    <2>2. s \in DumpState /\ s.step = "dumping" /\ s.sawArchive = dump[b].sawArchive
      BY <2>1, DumpSteps
    <2>3. ~force[b] => ~dump[b].sawArchive
      BY <2>1 DEF BackupInv, LooksHold
    <2> HIDE DEF s
    <2> QED
      BY <1>2, <2>1, <2>2, <2>3, DumpMoves DEF StartDump
  <1>3. ASSUME NEW b \in Dumps, EndDump(b) PROVE BackupInv'
    <2> DEFINE s(step) == [dump[b] EXCEPT !.step = step]
    <2>1. PICK step \in {"replace", "failed"} :
            /\ dump[b] \in DumpState /\ dump[b].step = "dumping"
            /\ dump' = [dump EXCEPT ![b] = s(step)]
            /\ step = "replace" => scratch' = scratch
            /\ step = "failed" => scratch' = scratch \ {b}
      BY <1>3 DEF EndDump, BackupInv
    <2>2. /\ s(step) \in DumpState /\ s(step).step = step
          /\ s(step).sawArchive = dump[b].sawArchive
      BY <2>1 DEF DumpState
    <2>3. ~force[b] => ~dump[b].sawArchive
      BY <2>1 DEF BackupInv, LooksHold
    <2>4. UNCHANGED <<archive, force>>
      BY <1>3 DEF EndDump
    <2> HIDE DEF s
    <2> QED
      BY <2>1, <2>2, <2>3, <2>4, DumpMoves
  <1>4. ASSUME NEW b \in Dumps, StopBackup(b) PROVE BackupInv'
    <2> DEFINE s == [dump[b] EXCEPT !.step = "stopped"]
    <2>1. /\ dump[b] \in DumpState /\ dump[b].step \in {"dump", "dumping", "replace"}
          /\ dump' = [dump EXCEPT ![b] = s]
      BY <1>4 DEF StopBackup, BackupInv
    <2>2. s \in DumpState /\ s.step = "stopped" /\ s.sawArchive = dump[b].sawArchive
      BY <2>1, DumpSteps
    <2> HIDE DEF s
    <2> QED
      BY <1>4, <2>1, <2>2, DumpMoves DEF StopBackup
  <1>5. CASE UNCHANGED backupVars
    BY <1>5 DEF backupVars, BackupInv, ArchiveIsWhole, LooksHold
  <1> QED
    BY <1>1, <1>2, <1>3, <1>4, <1>5, ReplaceKeeps DEF BackupNext

\* Nothing holds yet that a first state could break.
LEMMA BackupBegins == BackupInit => BackupInv
  <1> SUFFICES ASSUME BackupInit PROVE BackupInv
    OBVIOUS
  <1>1. archive \in ArchiveState /\ archive.whole /\ archive.by = NoDump
    <2>1. CASE archive = Absence
      BY <2>1 DEF Absence, ArchiveState
    <2>2. CASE archive = Archive(NoDump, TRUE)
      BY <2>2 DEF Archive, ArchiveState
    <2> QED
      BY <2>1, <2>2 DEF BackupInit
  <1>2. dump \in [Dumps -> DumpState] /\ \A b \in Dumps : dump[b].step = "idle"
    BY DEF BackupInit, NotBegun, DumpState
  <1> QED
    BY <1>1, <1>2, BackupAssumption DEF BackupInit, BackupInv, ArchiveIsWhole, LooksHold

\* backup_database.py: no step leaves half an archive at the destination, and by
\* _assert_destination a backup without --force replaces only an archive that
\* another backup made after it had looked.
THEOREM BackupsStaySafe == BackupSpec => BackupsAreSafe
  <1>1. ASSUME BackupInv, [BackupNext]_backupVars PROVE UnforcedReplacesOnlyUnseen
    <2> SUFFICES ASSUME NEW b \in Dumps, archive # archive', archive'.by = b,
                        archive.there, ~force[b]
                 PROVE  ~dump[b].sawArchive /\ archive.by \in Dumps
      BY DEF UnforcedReplacesOnlyUnseen
    <2>1. PICK c \in Dumps : ReplaceArchive(c)
      BY <1>1 DEF BackupNext, Begin, StartDump, EndDump, StopBackup, backupVars
    <2>2. b = c /\ dump[b].step = "replace"
      BY <2>1 DEF ReplaceArchive, Archive
    <2> QED
      BY <1>1, <2>2 DEF BackupInv, LooksHold, ArchiveState
  <1>2. BackupInv' => ArchiveIsWhole'
    BY DEF BackupInv
  <1> QED
    BY <1>1, <1>2, BackupBegins, BackupStep, PTL DEF BackupSpec, BackupsAreSafe
-------------------------------------------------------------------------------
(* RestoreRehearsal *)

Inside == {"check", "drop"}

CheckName == {"restore", "grants", "schema", "runtime"}

\* The steps that succeeded are the first of the checks
ChecksInOrder ==
    /\ restored \in Seq(CheckName) /\ Len(restored) <= 4
    /\ \A i \in 1..Len(restored) : restored[i] = Checks[i]

\* A rehearsal that is about to report success has made all of them
SuccessWasChecked ==
    \A r \in Rehearsals :
        rehearsal[r] = "drop" /\ outcome[r] = "success" => restored = Checks

RehearsalInv ==
    /\ target \in Rehearsals \cup {NoRehearsal} /\ leftover \in BOOLEAN
    /\ rehearsal \in [Rehearsals -> Stops \cup {"create"} \cup Inside]
    /\ outcome \in [Rehearsals -> {"none", "success", "failure"}]
    /\ \A r \in Rehearsals : rehearsal[r] = "drop" => outcome[r] # "none"
    /\ leftover => target # NoRehearsal
    /\ TargetIsItsOwn /\ ChecksInOrder /\ SuccessWasChecked

\* The four checks.
LEMMA FourChecks ==
    /\ Checks \in Seq(CheckName) /\ Len(Checks) = 4
    /\ \A i \in 1..4 : Checks[i] \in CheckName
  <1>1. Len(Checks) = 4
    BY DEF Checks
  <1>2. /\ Checks[1] \in CheckName /\ Checks[2] \in CheckName
        /\ Checks[3] \in CheckName /\ Checks[4] \in CheckName
    BY DEF Checks, CheckName
  <1>3. \A i \in 1..4 : i \in {1, 2, 3, 4}
    OBVIOUS
  <1>4. \A i \in 1..4 : Checks[i] \in CheckName
    BY <1>2, <1>3
  <1>5. Checks = [i \in 1..4 |-> Checks[i]]
    BY DEF Checks
  <1>6. [i \in 1..4 |-> Checks[i]] \in Seq(CheckName)
    BY <1>4
  <1> QED
    BY <1>1, <1>4, <1>5, <1>6

\* A rehearsal outside the target changes neither it nor what was checked in it.
LEMMA OutsideKeeps ==
    ASSUME RehearsalInv, NEW r \in Rehearsals, rehearsal[r] \notin Inside,
           NEW step \in Stops \cup {"create"}, Goes(r, step),
           outcome' \in [Rehearsals -> {"none", "success", "failure"}],
           \A q \in Rehearsals : q # r => outcome'[q] = outcome[q],
           UNCHANGED <<target, restored, leftover>>
    PROVE  RehearsalInv'
  <1>1. /\ rehearsal' \in [Rehearsals -> Stops \cup {"create"} \cup Inside]
        /\ rehearsal'[r] = step
        /\ \A q \in Rehearsals : q # r => rehearsal'[q] = rehearsal[q]
    BY DEF RehearsalInv, Goes
  <1>2. step \notin Inside
    BY DEF Stops, Inside
  <1>3. TargetIsItsOwn' /\ SuccessWasChecked'
    BY <1>1, <1>2 DEF RehearsalInv, TargetIsItsOwn, SuccessWasChecked, Inside
  <1> QED
    BY <1>1, <1>2, <1>3 DEF RehearsalInv, ChecksInOrder, Inside

\* CREATE DATABASE succeeds for one rehearsal, while no other is in a target.
LEMMA CreateKeeps ==
    ASSUME RehearsalInv, NEW r \in Rehearsals, CreateTarget(r)
    PROVE  RehearsalInv'
  <1>0. rehearsal[r] = "create" /\ UNCHANGED <<outcome, leftover>>
    BY DEF CreateTarget
  <1>1. CASE target = NoRehearsal
    <2>1. target' = r /\ restored' = <<>> /\ Goes(r, "check")
      BY <1>1 DEF CreateTarget
    <2>2. /\ rehearsal' \in [Rehearsals -> Stops \cup {"create"} \cup Inside]
          /\ rehearsal'[r] = "check"
          /\ \A q \in Rehearsals : q # r => rehearsal'[q] = rehearsal[q]
      BY <2>1 DEF RehearsalInv, Goes, Inside
    <2>3. ~leftover /\ \A q \in Rehearsals : rehearsal[q] \notin Inside
      BY <1>1, RehearsalAssumption DEF RehearsalInv, TargetIsItsOwn, Inside
    <2>4. TargetIsItsOwn' /\ SuccessWasChecked'
      BY <1>0, <2>1, <2>2, <2>3 DEF TargetIsItsOwn, SuccessWasChecked, Inside
    <2>5. ChecksInOrder'
      BY <2>1 DEF ChecksInOrder
    <2>6. target' # NoRehearsal
      BY <2>1, RehearsalAssumption
    <2> QED
      BY <1>0, <2>1, <2>2, <2>3, <2>4, <2>5, <2>6 DEF RehearsalInv, Inside
  <1>2. CASE target # NoRehearsal
    <2>1. Goes(r, "failure") /\ UNCHANGED <<target, restored>>
      BY <1>2 DEF CreateTarget
    <2>2. "failure" \in Stops \cup {"create"} /\ "create" \notin Inside
      BY DEF Stops, Inside
    <2> QED
      BY <1>0, <2>1, <2>2, OutsideKeeps DEF RehearsalInv
  <1> QED
    BY <1>1, <1>2

\* The only rehearsal in the target makes the next check, or fails.
LEMMA CheckKeeps ==
    ASSUME RehearsalInv, NEW r \in Rehearsals, CheckTarget(r)
    PROVE  RehearsalInv'
  <1>0. rehearsal[r] = "check" /\ UNCHANGED <<target, leftover>>
    BY DEF CheckTarget
  <1>1. target = r /\ ~leftover /\ \A q \in Rehearsals : q # r => rehearsal[q] \notin Inside
    BY <1>0 DEF RehearsalInv, TargetIsItsOwn, Inside
  <1>2. Len(Checks) = 4
    BY FourChecks
  <1>3. PICK step \in Inside, result \in {outcome[r], "success", "failure"} :
          /\ rehearsal' = [rehearsal EXCEPT ![r] = step]
          /\ outcome' = [outcome EXCEPT ![r] = result]
          /\ step = "drop" => result \in {"success", "failure"}
          /\ step = "drop" /\ result = "success" => Len(restored') = 4
          /\ \/ restored' = restored
             \/ Len(restored) < 4 /\ restored' = Append(restored, Checks[Len(restored) + 1])
    <2>1. CASE /\ Len(restored) < Len(Checks)
               /\ restored' = Append(restored, Checks[Len(restored) + 1])
               /\ IF Len(restored') = Len(Checks)
                  THEN Goes(r, "drop") /\ outcome' = [outcome EXCEPT ![r] = "success"]
                  ELSE UNCHANGED <<rehearsal, outcome>>
      <3>1. CASE Len(restored') = 4
        BY <2>1, <3>1, <1>2 DEF Goes, Inside
      <3>2. CASE Len(restored') # 4
        <4>1. /\ rehearsal' = [rehearsal EXCEPT ![r] = "check"]
              /\ outcome' = [outcome EXCEPT ![r] = outcome[r]]
          BY <2>1, <3>2, <1>0, <1>2 DEF RehearsalInv
        <4> QED
          BY <2>1, <4>1, <1>2 DEF Inside
      <3> QED
        BY <3>1, <3>2
    <2>2. CASE /\ Goes(r, "drop") /\ outcome' = [outcome EXCEPT ![r] = "failure"]
               /\ UNCHANGED restored
      BY <2>2 DEF Goes, Inside
    <2> QED
      BY <2>1, <2>2 DEF CheckTarget
  <1>4. /\ rehearsal' \in [Rehearsals -> Stops \cup {"create"} \cup Inside]
        /\ rehearsal'[r] = step
        /\ \A q \in Rehearsals : q # r => rehearsal'[q] = rehearsal[q]
    BY <1>3 DEF RehearsalInv
  <1>5. /\ outcome' \in [Rehearsals -> {"none", "success", "failure"}]
        /\ outcome'[r] = result
        /\ \A q \in Rehearsals : q # r => outcome'[q] = outcome[q]
    BY <1>3 DEF RehearsalInv
  <1>6. ChecksInOrder'
    <2>1. CASE restored' = restored
      BY <2>1 DEF RehearsalInv, ChecksInOrder
    <2>2. CASE Len(restored) < 4 /\ restored' = Append(restored, Checks[Len(restored) + 1])
      <3>1. restored \in Seq(CheckName) /\ Len(restored) \in Nat
        BY DEF RehearsalInv, ChecksInOrder
      <3>2. Checks[Len(restored) + 1] \in CheckName
        BY <2>2, <3>1, FourChecks
      <3>3. /\ restored' \in Seq(CheckName) /\ Len(restored') = Len(restored) + 1
            /\ \A i \in 1..Len(restored) : restored'[i] = restored[i]
            /\ restored'[Len(restored) + 1] = Checks[Len(restored) + 1]
        BY <2>2, <3>1, <3>2
      <3>4. \A i \in 1..Len(restored') : i \in 1..Len(restored) \/ i = Len(restored) + 1
        BY <3>1, <3>3
      <3> QED
        BY <2>2, <3>1, <3>3, <3>4 DEF RehearsalInv, ChecksInOrder
    <2> QED
      BY <1>3, <2>1, <2>2
  <1>7. Len(restored') = 4 => restored' = Checks
    <2> SUFFICES ASSUME Len(restored') = 4 PROVE restored' = Checks
      OBVIOUS
    <2>1. restored' \in Seq(CheckName) /\ \A i \in 1..4 : restored'[i] = Checks[i]
      BY <1>6 DEF ChecksInOrder
    <2> QED
      BY <2>1, FourChecks
  <1>8. SuccessWasChecked'
    BY <1>1, <1>3, <1>4, <1>5, <1>7 DEF SuccessWasChecked, Inside
  <1>9. TargetIsItsOwn'
    BY <1>0, <1>1, <1>4 DEF TargetIsItsOwn, Inside
  <1>10. \A q \in Rehearsals : rehearsal'[q] = "drop" => outcome'[q] # "none"
    BY <1>1, <1>3, <1>4, <1>5 DEF Inside
  <1> QED
    BY <1>0, <1>4, <1>5, <1>6, <1>8, <1>9, <1>10 DEF RehearsalInv

\* The only rehearsal in the target leaves it, dropped or not.
LEMMA LeavesKeep ==
    ASSUME RehearsalInv, NEW r \in Rehearsals, rehearsal[r] \in Inside,
           NEW step \in Stops, Goes(r, step), UNCHANGED <<restored, outcome>>,
           \/ target' = NoRehearsal /\ leftover' = leftover
           \/ target' = target /\ leftover' = TRUE
    PROVE  RehearsalInv'
  <1>1. target = r /\ ~leftover /\ \A q \in Rehearsals : q # r => rehearsal[q] \notin Inside
    BY DEF RehearsalInv, TargetIsItsOwn, Inside
  <1>2. /\ rehearsal' \in [Rehearsals -> Stops \cup {"create"} \cup Inside]
        /\ rehearsal'[r] = step
        /\ \A q \in Rehearsals : q # r => rehearsal'[q] = rehearsal[q]
    BY DEF RehearsalInv, Goes
  <1>3. \A q \in Rehearsals : rehearsal'[q] \notin Inside
    BY <1>1, <1>2 DEF Stops, Inside
  <1>4. leftover' => target' # NoRehearsal
    BY <1>1, RehearsalAssumption
  <1>5. TargetIsItsOwn' /\ SuccessWasChecked'
    BY <1>3 DEF TargetIsItsOwn, SuccessWasChecked, Inside
  <1> QED
    BY <1>2, <1>3, <1>4, <1>5 DEF RehearsalInv, ChecksInOrder, Inside

\* Every step of the rehearsals and the operator keeps the invariant.
LEMMA RehearsalStep == RehearsalInv /\ [RehearsalNext]_rehearsalVars => RehearsalInv'
  <1> SUFFICES ASSUME RehearsalInv, [RehearsalNext]_rehearsalVars PROVE RehearsalInv'
    OBVIOUS
  <1>1. ASSUME NEW r \in Rehearsals, LookForTarget(r) PROVE RehearsalInv'
    <2>1. rehearsal[r] \notin Inside
      BY <1>1 DEF LookForTarget, Stops, Inside
    <2>2. PICK step \in Stops \cup {"create"} : Goes(r, step)
      BY <1>1 DEF LookForTarget, Stops
    <2>3. outcome' = [outcome EXCEPT ![r] = "none"] /\ UNCHANGED <<target, restored, leftover>>
      BY <1>1 DEF LookForTarget
    <2>4. /\ outcome' \in [Rehearsals -> {"none", "success", "failure"}]
          /\ \A q \in Rehearsals : q # r => outcome'[q] = outcome[q]
      BY <2>3 DEF RehearsalInv
    <2> QED
      BY <2>1, <2>2, <2>3, <2>4, OutsideKeeps
  <1>2. ASSUME NEW r \in Rehearsals, DropTarget(r) PROVE RehearsalInv'
    <2>1. /\ rehearsal[r] = "drop" /\ outcome[r] \in {"success", "failure"}
          /\ UNCHANGED <<restored, outcome>>
      BY <1>2 DEF DropTarget, RehearsalInv
    <2>2. /\ rehearsal[r] \in Inside /\ outcome[r] \in Stops /\ "failure" \in Stops
      BY <2>1 DEF Inside, Stops
    <2> QED
      BY <1>2, <2>1, <2>2, LeavesKeep DEF DropTarget
  <1>3. ASSUME NEW r \in Rehearsals, StopRehearsal(r) PROVE RehearsalInv'
    <2>1. "stopped" \in Stops
      BY DEF Stops
    <2>2. /\ Goes(r, "stopped") /\ UNCHANGED <<target, restored, outcome>>
          /\ leftover' = (leftover \/ rehearsal[r] \in Inside)
      BY <1>3 DEF StopRehearsal, Inside
    <2>3. CASE rehearsal[r] \in Inside
      BY <2>1, <2>2, <2>3, LeavesKeep
    <2>4. CASE rehearsal[r] \notin Inside
      <3>1. leftover' = leftover
        BY <2>2, <2>4 DEF RehearsalInv
      <3> QED
        BY <2>1, <2>2, <2>4, <3>1, OutsideKeeps DEF RehearsalInv
    <2> QED
      BY <2>3, <2>4
  <1>4. CASE RemoveLeftover
    BY <1>4
    DEF RemoveLeftover, RehearsalInv, TargetIsItsOwn, ChecksInOrder,
        SuccessWasChecked
  <1>5. CASE UNCHANGED rehearsalVars
    BY <1>5
    DEF rehearsalVars, RehearsalInv, TargetIsItsOwn, ChecksInOrder,
        SuccessWasChecked
  <1> QED
    BY <1>1, <1>2, <1>3, <1>4, <1>5, CreateKeeps, CheckKeeps DEF RehearsalNext

\* Before the first rehearsal there is no target.
LEMMA RehearsalBegins == RehearsalInit => RehearsalInv
  <1> SUFFICES ASSUME RehearsalInit PROVE RehearsalInv
    OBVIOUS
  <1>1. ChecksInOrder
    BY DEF RehearsalInit, ChecksInOrder
  <1> QED
    BY <1>1, RehearsalAssumption
    DEF RehearsalInit, RehearsalInv, Stops, Inside, TargetIsItsOwn, SuccessWasChecked

\* restore_rehearsal.py: no step touches another rehearsal's database, and
\* success is reported after every check succeeded in the database of the
\* rehearsal, and with that database gone.
THEOREM RehearsalsStaySafe == RehearsalSpec => RehearsalsAreSafe
  <1>1. ASSUME RehearsalInv, [RehearsalNext]_rehearsalVars PROVE SuccessLeavesNothing
    <2> SUFFICES ASSUME NEW r \in Rehearsals, rehearsal[r] # "success",
                        rehearsal'[r] = "success"
                 PROVE  target' = NoRehearsal /\ restored = Checks /\ target = r
      BY DEF SuccessLeavesNothing
    <2>1. DropTarget(r)
      BY <1>1
      DEF RehearsalNext, LookForTarget, CreateTarget, CheckTarget, DropTarget,
          StopRehearsal, RemoveLeftover, Goes, rehearsalVars, RehearsalInv
    <2>2. rehearsal[r] = "drop" /\ target = r
      BY <1>1, <2>1 DEF DropTarget, RehearsalInv, TargetIsItsOwn
    <2>3. target' = NoRehearsal /\ outcome[r] = "success"
      BY <1>1, <2>1 DEF DropTarget, Goes, RehearsalInv
    <2> QED
      BY <1>1, <2>2, <2>3 DEF RehearsalInv, SuccessWasChecked
  <1>2. RehearsalInv' => TargetIsItsOwn'
    BY DEF RehearsalInv
  <1> QED
    BY <1>1, <1>2, RehearsalBegins, RehearsalStep, PTL DEF RehearsalSpec, RehearsalsAreSafe

-------------------------------------------------------------------------------
(* VerifyGate *)

EvidenceFound == reports \cup BuildReport(build)

\* What the files hold at each stage, and what the exit code stands for
VerifyInv ==
    /\ paths \in ChangeSets \cup {{}} /\ rules \in Policies \cup {Builtin}
    /\ reports \subseteq Reports
    /\ build \in {"unknown", "success", "failure"}
    /\ declared \in {"none", "head", "other"}
    /\ stage # "end" => exit = Running
    /\ stage = "replace" => temporary = OurReceipt(TRUE)
    /\ stage = "summary" => receipt = OurReceipt(TRUE)
    /\ receipt.whole
    /\ exit \in {0, 2, 3} => receipt = OurReceipt(TRUE) /\ exit = ExitCode(Decision)

\* The decision is one of three, each with its exit code.
LEMMA DecisionCodes ==
    /\ Decision \in {"pass", "review", "block"}
    /\ ExitCode(Decision) \in {0, 2, 3}
    /\ ExitCode(Decision) = 0 => Decision = "pass"
    /\ ExitCode("error") = 4
  <1>1. Decision \in {"pass", "review", "block"}
    BY DEF Decision, EvaluateDecision
  <1> HIDE DEF Decision
  <1> QED
    BY <1>1 DEF ExitCode

\* The reports a run decides on are well formed, the one of the build status
\* included.
LEMMA EvidenceTyped ==
    ASSUME VerifyInv
    PROVE  \A r \in EvidenceFound :
             /\ r.kind \in Kinds
             /\ r.cases \in Nat /\ r.failed \in Nat /\ r.rate \in Nat
             /\ r.failed <= r.cases
  <1>1. ASSUME NEW r \in Reports
        PROVE  /\ r.kind \in Kinds
               /\ r.cases \in Nat /\ r.failed \in Nat /\ r.rate \in Nat
               /\ r.failed <= r.cases
    BY VerifyAssumption
  <1>2. ASSUME NEW r \in BuildReport(build)
        PROVE  /\ r.kind \in Kinds
               /\ r.cases \in Nat /\ r.failed \in Nat /\ r.rate \in Nat
               /\ r.failed <= r.cases
    BY <1>2 DEF BuildReport, Kinds
  <1> QED
    BY <1>1, <1>2 DEF VerifyInv, EvidenceFound

\* What a report counts as if it was not declared for another commit.
LEMMA StateOnHead ==
    ASSUME NEW r, NEW sha, SourceMatches(sha)
    PROVE  /\ r.kind = "tests" => State(r, sha) = TestState(r)
           /\ r.kind = "coverage" => State(r, sha) = "pass"
           /\ r.kind = "security" => State(r, sha) = SecurityState(r)
           /\ r.kind = "build" => State(r, sha) = BuildState(r)
  BY DEF State, CoverageState

\* A state is earned by a good report.
LEMMA PassingIsGood ==
    ASSUME VerifyInv, NEW kind \in Kinds,
           "pass" \in StatesOf(EvidenceFound, declared, kind)
    PROVE  \E r \in EvidenceFound : r.kind = kind /\ Good(r)
  <1>1. PICK r \in EvidenceFound : r.kind = kind /\ State(r, declared) = "pass"
    BY DEF StatesOf
  <1>2. SourceMatches(declared)
    BY <1>1 DEF State
  <1>3. declared # "other"
    BY <1>2 DEF SourceMatches
  <1>4. r.cases \in Nat /\ r.failed \in Nat
    BY <1>1, EvidenceTyped
  <1>5. CASE kind = "tests"
    <2>1. TestState(r) = "pass"
      BY <1>1, <1>2, <1>5, StateOnHead
    <2>2. r.cases > 0 /\ r.failed = 0
      BY <1>4, <2>1 DEF TestState
    <2> QED
      BY <1>1, <1>3, <1>5, <2>2 DEF Good
  <1>6. CASE kind = "build"
    <2>1. BuildState(r) = "pass"
      BY <1>1, <1>2, <1>6, StateOnHead
    <2>2. r.failed = 0
      BY <1>4, <2>1 DEF BuildState
    <2> QED
      BY <1>1, <1>3, <1>6, <2>2 DEF Good
  <1>7. CASE kind = "security"
    <2>1. SecurityState(r) = "pass"
      BY <1>1, <1>2, <1>7, StateOnHead
    <2>2. r.found \cap {"critical", "high"} = {}
      BY <2>1 DEF SecurityState
    <2> QED
      BY <1>1, <1>3, <1>7, <2>2 DEF Good
  <1>8. CASE kind = "coverage"
    BY <1>1, <1>3, <1>8 DEF Good
  <1> QED
    BY <1>5, <1>6, <1>7, <1>8 DEF Kinds

\* A decision to let a change pass is earned.
LEMMA PassDecided ==
    ASSUME VerifyInv, Decision = "pass"
    PROVE  LET needed == {k \in rules.required :
                            ~(k = "tests" /\ rules.skipDocs /\ paths \subseteq DocPaths)}
                         \cup UNION {r.evidence : r \in MatchingRules(rules, paths)}
           IN  /\ paths # {}
               /\ \A k \in needed : \E r \in EvidenceFound : r.kind = k /\ Good(r)
               /\ declared # "other" =>
                    \A r \in EvidenceFound :
                      /\ r.kind \in {"tests", "build"} => r.failed = 0
                      /\ r.kind = "coverage" => r.rate >= rules.threshold
                      /\ r.kind = "security" => r.found \cap rules.blocked = {}
  <1>1. /\ ~Blocked(paths, rules, EvidenceFound, declared)
        /\ ~Reviewed(paths, rules, EvidenceFound, declared)
    BY DEF Decision, EvaluateDecision, EvidenceFound
  <1>2. paths # {}
    BY <1>1 DEF Reviewed
  <1>3. /\ rules.required \subseteq Kinds /\ rules.threshold \in Nat
        /\ \A rule \in rules.pathRules : rule.evidence \subseteq Kinds
    BY VerifyAssumption DEF VerifyInv
  <1>4. ASSUME NEW k \in rules.required,
               ~(k = "tests" /\ rules.skipDocs /\ paths \subseteq DocPaths)
        PROVE  \E r \in EvidenceFound : r.kind = k /\ Good(r)
    <2>1. k \in Kinds /\ Required(rules, paths, k)
      BY <1>3, <1>4 DEF Required, DocsOnly
    <2>2. /\ StatesOf(EvidenceFound, declared, k) \cap {"pass", "fail"} # {}
          /\ StatesOf(EvidenceFound, declared, k) \cap {"pass", "fail"} # {"fail"}
      BY <1>1, <2>1 DEF Blocked, Reviewed
    <2>3. "pass" \in StatesOf(EvidenceFound, declared, k)
      BY <2>2
    <2> QED
      BY <2>1, <2>3, PassingIsGood
  <1>5. ASSUME NEW rule \in MatchingRules(rules, paths), NEW k \in rule.evidence
        PROVE  \E r \in EvidenceFound : r.kind = k /\ Good(r)
    <2>1. k \in Kinds
      BY <1>3 DEF MatchingRules
    <2>2. "pass" \in StatesOf(EvidenceFound, declared, k)
      BY <1>1, <2>1 DEF Reviewed
    <2> QED
      BY <2>1, <2>2, PassingIsGood
  <1>6. ASSUME declared # "other", NEW r \in EvidenceFound
        PROVE  /\ r.kind \in {"tests", "build"} => r.failed = 0
               /\ r.kind = "coverage" => r.rate >= rules.threshold
               /\ r.kind = "security" => r.found \cap rules.blocked = {}
    <2>1. SourceMatches(declared)
      BY <1>6 DEF SourceMatches, VerifyInv
    <2>2. /\ r.cases \in Nat /\ r.failed \in Nat /\ r.rate \in Nat
          /\ r.failed <= r.cases
      BY EvidenceTyped
    <2>3. \A kind \in {"tests", "build"} :
            "fail" \notin StatesOf(EvidenceFound, declared, kind)
      BY <1>1 DEF Blocked
    <2>4. CASE r.kind = "tests"
      <3>1. State(r, declared) # "fail"
        BY <2>3, <2>4 DEF StatesOf
      <3>2. TestState(r) # "fail"
        BY <2>1, <2>4, <3>1, StateOnHead
      <3> QED
        BY <2>2, <2>4, <3>2 DEF TestState
    <2>5. CASE r.kind = "build"
      <3>1. State(r, declared) # "fail"
        BY <2>3, <2>5 DEF StatesOf
      <3>2. BuildState(r) # "fail"
        BY <2>1, <2>5, <3>1, StateOnHead
      <3> QED
        BY <2>2, <2>5, <3>2 DEF BuildState
    <2>6. CASE r.kind = "coverage"
      <3>1. State(r, declared) # "unknown"
        BY <2>1, <2>6, StateOnHead
      <3>2. ~(r.rate < rules.threshold)
        BY <1>1, <2>6, <3>1 DEF Blocked
      <3> QED
        BY <1>3, <2>2, <2>6, <3>2
    <2>7. CASE r.kind = "security"
      <3>1. State(r, declared) # "unknown"
        BY <2>1, <2>7, StateOnHead DEF SecurityState
      <3>2. r.found \cap rules.blocked = {}
        BY <1>1, <2>7, <3>1 DEF Blocked, SecurityBlocks
      <3> QED
        BY <2>7, <3>2
    <2> QED
      BY <2>4, <2>5, <2>6, <2>7
  <1> QED
    BY <1>2, <1>4, <1>5, <1>6

\* Reports on another commit are all unknown, and decide what none decides.
LEMMA StaleReports ==
    ASSUME declared = "other"
    PROVE  Decision = EvaluateDecision(paths, rules, {}, declared)
  <1>1. \A r : State(r, declared) = "unknown"
    BY DEF State, SourceMatches
  <1>2. \A E, kind : StatesOf(E, declared, kind) \subseteq {"unknown"}
    BY <1>1 DEF StatesOf
  <1>3. \A E : Blocked(paths, rules, E, declared) = FALSE
    BY <1>1, <1>2 DEF Blocked, SecurityBlocks
  <1>4. \A E, F : Reviewed(paths, rules, E, declared) = Reviewed(paths, rules, F, declared)
    BY <1>2 DEF Reviewed
  <1> QED
    BY <1>3, <1>4 DEF Decision, EvaluateDecision

\* The invariant holds at the start, with or without an earlier receipt.
LEMMA VerifyStarts == VerifyInit => VerifyInv
  BY DEF VerifyInit, VerifyInv, Running, NoFile

\* What a decision depends on does not change once there is one, so neither do
\* the receipts made of it.
LEMMA DecisionStands ==
    ASSUME UNCHANGED <<paths, rules, reports, build, declared>>
    PROVE  /\ Decision' = Decision
           /\ \A whole \in BOOLEAN : OurReceipt(whole)' = OurReceipt(whole)
  BY DEF OurReceipt, Decision

\* Every stage, every failure and a cancelled job keep the invariant.
LEMMA VerifyStep == VerifyInv /\ [VerifyNext]_verifyVars => VerifyInv'
  <1> SUFFICES ASSUME VerifyInv, [VerifyNext]_verifyVars PROVE VerifyInv'
    OBVIOUS
  <1>e. Running \notin {0, 2, 3} /\ Killed \notin {0, 2, 3}
          /\ ExitCode("error") \notin {0, 2, 3} /\ 1 \notin {0, 2, 3}
    BY DecisionCodes DEF Running, Killed
  <1>1. ASSUME stage' # "replace", stage' # "summary", exit' \notin {0, 2, 3},
               stage' # "end" => exit' = Running, receipt' = receipt,
               paths' \in ChangeSets \cup {{}}, rules' \in Policies \cup {Builtin},
               reports' \subseteq Reports,
               build' \in {"unknown", "success", "failure"},
               declared' \in {"none", "head", "other"}
        PROVE  VerifyInv'
    BY <1>1 DEF VerifyInv
  <1>2. CASE CollectGitChange
    <2>1. /\ stage' \in {"policy", "end"} /\ paths' \in ChangeSets \cup {{}}
          /\ exit' \notin {0, 2, 3} /\ (stage' # "end" => exit' = Running)
      BY <1>2, <1>e DEF CollectGitChange, End, VerifyInv
    <2> QED
      BY <1>1, <1>2, <2>1 DEF CollectGitChange, VerifyInv
  <1>3. CASE LoadPolicy
    <2>1. /\ stage' \in {"evidence", "end"} /\ rules' \in Policies \cup {Builtin}
          /\ exit' \notin {0, 2, 3} /\ (stage' # "end" => exit' = Running)
      BY <1>3, <1>e DEF LoadPolicy, End, VerifyInv
    <2> QED
      BY <1>1, <1>3, <2>1 DEF LoadPolicy, VerifyInv
  <1>4. CASE CollectArtifacts
    <2>1. /\ stage' \in {"decide", "end"} /\ reports' \subseteq Reports
          /\ build' \in {"unknown", "success", "failure"}
          /\ declared' \in {"none", "head", "other"}
          /\ exit' \notin {0, 2, 3} /\ (stage' # "end" => exit' = Running)
      BY <1>4, <1>e DEF CollectArtifacts, End, VerifyInv
    <2> QED
      BY <1>1, <1>4, <2>1 DEF CollectArtifacts, VerifyInv
  <1>5. ASSUME UNCHANGED <<paths, rules, reports, build, declared>>,
               stage' # "end" => exit' = Running,
               stage' = "replace" => temporary' = OurReceipt(TRUE),
               stage' = "summary" => receipt' = OurReceipt(TRUE),
               receipt' = receipt \/ receipt' = OurReceipt(TRUE),
               exit' \in {0, 2, 3} =>
                 receipt' = OurReceipt(TRUE) /\ exit' = ExitCode(Decision)
        PROVE  VerifyInv'
    <2>1. Decision' = Decision /\ OurReceipt(TRUE)' = OurReceipt(TRUE)
      BY <1>5, DecisionStands
    <2>2. OurReceipt(TRUE).whole
      BY DEF OurReceipt
    <2>3. ExitCode(Decision)' = ExitCode(Decision)
      BY <2>1 DEF ExitCode
    <2> HIDE DEF Decision, OurReceipt, ExitCode
    <2> QED
      BY <1>5, <2>1, <2>2, <2>3 DEF VerifyInv
  <1>6. CASE WriteTemporary
    <2>1. \/ stage' = "replace" /\ temporary' = OurReceipt(TRUE) /\ exit' = exit
          \/ stage' = "end" /\ exit' = ExitCode("error")
      BY <1>6 DEF WriteTemporary, End
    <2>2. stage = "decide" /\ UNCHANGED <<paths, rules, reports, build, declared, receipt>>
      BY <1>6 DEF WriteTemporary
    <2>3. exit = Running
      BY <2>2 DEF VerifyInv
    <2> QED
      BY <1>5, <1>e, <2>1, <2>2, <2>3
  <1>7. CASE ReplaceReceipt
    <2>1. \/ stage' = "summary" /\ receipt' = temporary /\ exit' = exit
          \/ stage' = "end" /\ exit' = ExitCode("error") /\ receipt' = receipt
      BY <1>7 DEF ReplaceReceipt, End
    <2>2. stage = "replace" /\ UNCHANGED <<paths, rules, reports, build, declared>>
      BY <1>7 DEF ReplaceReceipt
    <2>3. exit = Running /\ temporary = OurReceipt(TRUE)
      BY <2>2 DEF VerifyInv
    <2> QED
      BY <1>5, <1>e, <2>1, <2>2, <2>3
  <1>8. CASE AppendSummary
    <2>1. /\ stage' = "end" /\ (exit' = ExitCode(Decision) \/ exit' = ExitCode("error"))
          /\ stage = "summary" /\ receipt' = receipt
          /\ UNCHANGED <<paths, rules, reports, build, declared>>
      BY <1>8 DEF AppendSummary, End
    <2>2. receipt = OurReceipt(TRUE)
      BY <2>1 DEF VerifyInv
    <2> QED
      BY <1>5, <1>e, <2>1, <2>2
  <1>9. CASE Kill
    <2>1. /\ stage' = "end" /\ exit' = Killed /\ receipt' = receipt
          /\ UNCHANGED <<paths, rules, reports, build, declared>>
      BY <1>9 DEF Kill, End
    <2> QED
      BY <1>5, <1>e, <2>1
  <1>10. CASE UNCHANGED verifyVars
    <2>1. /\ UNCHANGED <<paths, rules, reports, build, declared>>
          /\ UNCHANGED <<stage, temporary, receipt, exit>>
      BY <1>10 DEF verifyVars
    <2> QED
      BY <1>5, <2>1 DEF VerifyInv
  <1> QED
    BY <1>2, <1>3, <1>4, <1>6, <1>7, <1>8, <1>9, <1>10 DEF VerifyNext

\* The verification command can be relied on, for any policies, changes and
\* reports: whatever stage fails or the job is cancelled in, exit code 0 means
\* that every required kind of evidence is there and good and nothing blocks,
\* reports on another commit have no say, and the receipt agrees with the exit
\* code.
THEOREM VerdictStaysEarned == VerifySpec => []VerdictIsEarned
  <1>1. VerifyInv => VerdictIsEarned
    <2> SUFFICES ASSUME VerifyInv PROVE VerdictIsEarned
      OBVIOUS
    <2>1. PassIsEarned
      <3> SUFFICES ASSUME exit = 0 PROVE PassIsEarned
        BY DEF PassIsEarned
      <3>1. Decision = "pass"
        BY DecisionCodes DEF VerifyInv
      <3> QED
        BY <3>1, PassDecided DEF PassIsEarned, EvidenceFound
    <2>2. StaleDecidesNothing
      BY StaleReports DEF StaleDecidesNothing
    <2>3. ReceiptAnswers
      BY DEF ReceiptAnswers, VerifyInv, OurReceipt
    <2> QED
      BY <2>1, <2>2, <2>3 DEF VerdictIsEarned
  <1> QED
    BY <1>1, VerifyStarts, VerifyStep, PTL DEF VerifySpec

-------------------------------------------------------------------------------
(* ConnectorHealth *)

DeliveryStatus ==
    {"none", "verified", "processing", "ignored", "processed", "failed"}

\* Numbers with a bound have a greatest one, and Max is it.
LEMMA MaxOfBounded ==
    ASSUME NEW n \in Nat, NEW T, T \subseteq 0..n, T # {}
    PROVE  Max(T) \in T /\ \A y \in T : Max(T) >= y
  <1> DEFINE U == {n - x : x \in T}
  <1>1. \A x \in T : n - x \in U
    OBVIOUS
  <1>2. \A u \in U : \E x \in T : u = n - x
    OBVIOUS
  <1> HIDE DEF U
  <1>3. \A x \in T : x \in 0..n
    OBVIOUS
  <1>4. \A x \in T : x \in Nat /\ n - x \in Nat
    BY <1>3
  <1>5. U \subseteq Nat /\ U # {}
    BY <1>1, <1>2, <1>4
  <1>6. PICK m \in U : \A y \in U : ~ (<<y, m>> \in OpToRel(<, Nat))
    BY <1>5, NatLessThanWellFounded, WFMin
  <1>7. PICK x \in T : m = n - x
    BY <1>2
  <1>8. ASSUME NEW y \in T PROVE x >= y
    <2>1. n - y \in U /\ n - y \in Nat /\ m \in Nat
      BY <1>1, <1>4, <1>5
    <2>2. ~(n - y < m)
      BY <1>6, <2>1 DEF OpToRel
    <2>3. x \in Nat /\ y \in Nat
      BY <1>4
    <2> QED
      BY <1>7, <2>2, <2>3
  <1> QED
    BY <1>8 DEF Max

Links == {"pending_verification", "connected", "revoked"}

HealthInv ==
    /\ tick \in 1..LastTick /\ fault \in BOOLEAN /\ lost \in BOOLEAN /\ link \in Links
    /\ delivery \in [Deliveries -> [status : DeliveryStatus, created : 0..LastTick]]
    /\ view \in [step : Reading \cup {"none", "answered"}, link : Links, fault : BOOLEAN,
                 cutoff : 0..LastTick, success : 0..LastTick, failure : 0..LastTick,
                 stuck : BOOLEAN, lost : BOOLEAN]
    /\ during \in [Deliveries -> SUBSET DeliveryStatus]

\* A recorded delivery has a time, and one that is not recorded was not before
HistoryIsKept ==
    \A d \in Deliveries :
      /\ delivery[d].status # "none" => delivery[d].created >= 1
      /\ delivery[d].status = "none" => during[d] \subseteq {"none"}
      /\ view.step # "none" => delivery[d].status \in during[d]

\* What each statement read is borne out by what was committed since the first
SuccessIsWitnessed ==
    (view.step \in {"success", "failure", "stuck", "answered"} /\ view.success # Never) =>
      \E e \in Deliveries : /\ during[e] \cap Successful # {}
                            /\ delivery[e].created = view.success

FailuresAreSeen ==
    view.step \in {"failure", "stuck", "answered"} =>
      \A d \in Deliveries :
        during[d] = {"failed"} => delivery[d].created <= view.failure

StuckAreCounted ==
    view.step \in {"stuck", "answered"} =>
      \A d \in Deliveries :
        during[d] = {"processing"} =>
          view.stuck \/ delivery[d].created + StaleAfter >= view.cutoff

LossIsCurrent == view.step = "answered" => view.lost = lost

ViewInv ==
    /\ HealthInv /\ HistoryIsKept /\ SuccessIsWitnessed /\ FailuresAreSeen
    /\ StuckAreCounted /\ LossIsCurrent

\* No request has read anything yet.
LEMMA HealthBegins == HealthInit => ViewInv
  <1> SUFFICES ASSUME HealthInit PROVE ViewInv
    OBVIOUS
  <1>1. HealthInv
    <2>1. /\ tick \in 1..LastTick /\ fault \in BOOLEAN /\ lost \in BOOLEAN
          /\ link \in Links
      <3>1. 1 \in 1..LastTick
        BY HealthAssumption
      <3> QED
        BY <3>1 DEF HealthInit, Links
    <2>2. delivery \in [Deliveries -> [status : DeliveryStatus, created : 0..LastTick]]
      BY HealthAssumption DEF HealthInit, NotSent, Never, DeliveryStatus
    <2>3. view \in [step : Reading \cup {"none", "answered"}, link : Links,
                    fault : BOOLEAN, cutoff : 0..LastTick, success : 0..LastTick,
                    failure : 0..LastTick, stuck : BOOLEAN, lost : BOOLEAN]
      <3>1. Never \in 0..LastTick
        BY HealthAssumption DEF Never
      <3> QED
        BY <3>1 DEF HealthInit, Links
    <2>4. during \in [Deliveries -> SUBSET DeliveryStatus]
      BY DEF HealthInit
    <2> QED
      BY <2>1, <2>2, <2>3, <2>4 DEF HealthInv
  <1>2. /\ HistoryIsKept /\ SuccessIsWitnessed /\ FailuresAreSeen
        /\ StuckAreCounted /\ LossIsCurrent
    BY DEF HealthInit, HistoryIsKept, SuccessIsWitnessed, FailuresAreSeen,
           StuckAreCounted, LossIsCurrent, NotSent
  <1> QED
    BY <1>1, <1>2 DEF ViewInv

\* What is recorded of a delivery is its time, which stays.
LEMMA DeliveriesMove ==
    ASSUME HealthInv, HistoryIsKept, Meanwhile
    PROVE  /\ tick' \in 1..LastTick /\ fault' \in BOOLEAN /\ lost' \in BOOLEAN
           /\ link' \in Links
           /\ delivery' \in [Deliveries -> [status : DeliveryStatus, created : 0..LastTick]]
           /\ \A d \in Deliveries :
                /\ delivery[d].status # "none" => delivery'[d].created = delivery[d].created
                /\ delivery'[d].status # "none" => delivery'[d].created >= 1
                /\ delivery'[d].status = "none" => delivery[d].status = "none"
  <1> DEFINE Row == [status : DeliveryStatus, created : 0..LastTick]
             HoldsFast(d) ==
               /\ delivery[d].status # "none" => delivery'[d].created = delivery[d].created
               /\ delivery'[d].status # "none" => delivery'[d].created >= 1
               /\ delivery'[d].status = "none" => delivery[d].status = "none"
  <1>1. /\ tick \in 1..LastTick /\ LastTick \in Nat /\ delivery \in [Deliveries -> Row]
        /\ fault \in BOOLEAN /\ lost \in BOOLEAN /\ link \in Links
    BY HealthAssumption DEF HealthInv
  <1>2. \A d \in Deliveries : delivery[d].status # "none" => delivery[d].created >= 1
    BY DEF HistoryIsKept
  <1>3. ASSUME NEW d \in Deliveries, InstallationEvent(d) \/ Receive(d)
        PROVE  /\ tick' = tick /\ fault' = fault /\ lost' = lost
               /\ link' \in Links
               /\ delivery' \in [Deliveries -> Row] /\ \A e \in Deliveries : HoldsFast(e)
    <2>1. PICK s \in DeliveryStatus \ {"none"} :
            delivery' = [delivery EXCEPT ![d] = [status |-> s, created |-> tick]]
      BY <1>3 DEF InstallationEvent, Receive, DeliveryStatus
    <2>2. /\ tick' = tick /\ fault' = fault /\ lost' = lost /\ link' \in Links
          /\ delivery[d].status = "none"
      BY <1>1, <1>3 DEF InstallationEvent, Receive, Links, NotSent
    <2>3. [status |-> s, created |-> tick] \in Row
      BY <1>1
    <2>4. delivery' \in [Deliveries -> Row]
      BY <1>1, <2>1, <2>3
    <2>5. \A e \in Deliveries : HoldsFast(e)
      BY <1>1, <1>2, <2>1, <2>2
    <2> QED
      BY <2>2, <2>4, <2>5
  <1>4. ASSUME NEW d \in Deliveries, Redeliver(d) \/ FinishDelivery(d)
        PROVE  /\ tick' = tick /\ fault' = fault /\ lost' = lost /\ link' = link
               /\ delivery' \in [Deliveries -> Row] /\ \A e \in Deliveries : HoldsFast(e)
    <2>1. PICK s \in DeliveryStatus \ {"none"} :
            delivery' = [delivery EXCEPT ![d].status = s]
      BY <1>4 DEF Redeliver, FinishDelivery, DeliveryStatus
    <2>2. /\ tick' = tick /\ fault' = fault /\ lost' = lost /\ link' = link
          /\ delivery[d].status # "none"
      BY <1>4 DEF Redeliver, FinishDelivery
    <2>3. delivery[d] \in Row
      BY <1>1
    <2>4. [delivery[d] EXCEPT !.status = s] \in Row
      BY <2>3
    <2>5. delivery' \in [Deliveries -> Row]
      BY <1>1, <2>1, <2>4
    <2>6. \A e \in Deliveries : HoldsFast(e)
      BY <1>1, <1>2, <2>1, <2>2
    <2> QED
      BY <2>2, <2>5, <2>6
  <1>5. CASE Publish \/ PassTime
    <2>1. /\ delivery' = delivery /\ link' = link
          /\ fault' \in BOOLEAN /\ lost' \in BOOLEAN
      BY <1>1, <1>5 DEF Publish, PassTime
    <2>2. tick' \in 1..LastTick
      BY <1>1, <1>5 DEF Publish, PassTime
    <2> QED
      BY <1>1, <1>2, <2>1, <2>2
  <1>6. CASE \E d \in Deliveries : \/ InstallationEvent(d) \/ Receive(d)
                                   \/ Redeliver(d) \/ FinishDelivery(d)
    <2>1. PICK d \in Deliveries : \/ InstallationEvent(d) \/ Receive(d)
                                  \/ Redeliver(d) \/ FinishDelivery(d)
      BY <1>6
    <2>2. CASE InstallationEvent(d) \/ Receive(d)
      BY <1>1, <1>3, <2>2
    <2>3. CASE Redeliver(d) \/ FinishDelivery(d)
      BY <1>1, <1>4, <2>3
    <2> QED
      BY Zenon, <2>1, <2>2, <2>3
  <1> QED
    BY <1>5, <1>6 DEF Meanwhile

\* What goes on between two statements adds to the history and takes nothing away.
LEMMA MeanwhileKeepsView ==
    ASSUME ViewInv, view.step # "answered", Meanwhile, Witness, view' = view
    PROVE  ViewInv'
  <1> DEFINE Row == [status : DeliveryStatus, created : 0..LastTick]
  <1>1. HealthInv /\ HistoryIsKept
    BY DEF ViewInv
  <1>2. /\ tick' \in 1..LastTick /\ fault' \in BOOLEAN /\ lost' \in BOOLEAN
        /\ link' \in Links /\ delivery' \in [Deliveries -> Row]
    BY <1>1, DeliveriesMove
  <1>3. \A d \in Deliveries :
          /\ delivery[d].status # "none" => delivery'[d].created = delivery[d].created
          /\ delivery'[d].status # "none" => delivery'[d].created >= 1
          /\ delivery'[d].status = "none" => delivery[d].status = "none"
    BY <1>1, DeliveriesMove
  <1>4. during \in [Deliveries -> SUBSET DeliveryStatus]
    BY <1>1 DEF HealthInv
  <1>5. CASE view.step = "none"
    <2>1. during' = during
      BY <1>5 DEF Witness, Reading
    <2>2. HealthInv'
      BY <1>1, <1>2, <2>1 DEF HealthInv
    <2>3. HistoryIsKept'
      BY <1>1, <1>3, <1>5, <2>1 DEF HistoryIsKept
    <2>4. SuccessIsWitnessed' /\ FailuresAreSeen' /\ StuckAreCounted' /\ LossIsCurrent'
      BY <1>5 DEF SuccessIsWitnessed, FailuresAreSeen, StuckAreCounted, LossIsCurrent
    <2> QED
      BY <2>2, <2>3, <2>4 DEF ViewInv
  <1>6. CASE view.step \in Reading
    <2>1. during' = [d \in Deliveries |-> during[d] \cup {delivery'[d].status}]
      BY <1>6 DEF Witness
    <2>2. \A d \in Deliveries : during'[d] = during[d] \cup {delivery'[d].status}
      BY <2>1
    <2>4. HealthInv'
      <3>1. \A d \in Deliveries : delivery'[d].status \in DeliveryStatus
        BY <1>2
      <3>2. during' \in [Deliveries -> SUBSET DeliveryStatus]
        BY <1>4, <2>1, <3>1
      <3> QED
        BY <1>1, <1>2, <3>2 DEF HealthInv
    <2>5. view.step # "none"
      BY <1>6 DEF Reading
    <2>6. \A d \in Deliveries : delivery[d].status \in during[d]
      BY <1>1, <2>5 DEF HistoryIsKept
    <2>7. HistoryIsKept'
      BY <1>1, <1>3, <2>2, <2>5 DEF HistoryIsKept
    <2>8. SuccessIsWitnessed'
      <3> SUFFICES ASSUME view.step \in {"success", "failure", "stuck", "answered"},
                          view.success # Never
                   PROVE  \E e \in Deliveries : /\ during'[e] \cap Successful # {}
                                                /\ delivery'[e].created = view.success
        BY DEF SuccessIsWitnessed
      <3>1. PICK e \in Deliveries : /\ during[e] \cap Successful # {}
                                    /\ delivery[e].created = view.success
        BY DEF ViewInv, SuccessIsWitnessed
      <3>2. delivery[e].status # "none"
        BY <1>1, <3>1 DEF HistoryIsKept, Successful
      <3> QED
        BY <1>3, <2>2, <3>1, <3>2
    <2>9. ASSUME NEW d \in Deliveries, NEW s, s # "none", during'[d] = {s}
          PROVE  during[d] = {s} /\ delivery'[d].created = delivery[d].created
      <3>1. during[d] = {s}
        BY <2>2, <2>6, <2>9
      <3>2. delivery[d].status # "none"
        BY <2>6, <2>9, <3>1
      <3> QED
        BY <1>3, <3>1, <3>2
    <2>10. FailuresAreSeen'
      BY <2>9 DEF ViewInv, FailuresAreSeen
    <2>11. StuckAreCounted'
      BY <2>9 DEF ViewInv, StuckAreCounted
    <2>12. LossIsCurrent'
      BY <1>6 DEF LossIsCurrent, Reading
    <2> QED
      BY <2>4, <2>7, <2>8, <2>10, <2>11, <2>12 DEF ViewInv
  <1> QED
    BY <1>1, <1>5, <1>6 DEF HealthInv

\* The greatest time of the deliveries with one of the statuses, if there is one.
LEMMA LatestIsLatest ==
    ASSUME HealthInv, NEW statuses
    PROVE  /\ Latest(statuses) \in 0..LastTick
           /\ \A t \in TimesOf(statuses) : t <= Latest(statuses)
           /\ Latest(statuses) # Never => Latest(statuses) \in TimesOf(statuses)
  <1> DEFINE T == TimesOf(statuses)
  <1>1. T \subseteq 0..LastTick
    BY DEF TimesOf, HealthInv
  <1>2. Latest(statuses) = IF T = {} THEN 0 ELSE Max(T)
    BY DEF Latest, Never
  <1>3. LastTick \in Nat
    BY HealthAssumption
  <1> HIDE DEF T
  <1>4. CASE T = {}
    BY <1>2, <1>3, <1>4 DEF Never, T
  <1>5. CASE T # {}
    <2>1. Max(T) \in T /\ \A y \in T : Max(T) >= y
      BY <1>1, <1>3, <1>5, MaxOfBounded
    <2>2. \A y \in T : y \in Nat
      BY <1>1, <1>3
    <2>3. \A y \in T : y <= Max(T)
      BY <2>1, <2>2
    <2>4. Latest(statuses) = Max(T)
      BY <1>2, <1>5
    <2> QED
      BY <1>1, <2>1, <2>3, <2>4 DEF T
  <1> QED
    BY <1>4, <1>5

\* Every statement of the request reads what the invariant says of it.
LEMMA RequestKeepsView ==
    ASSUME ViewInv, Request, UNCHANGED worldVars
    PROVE  ViewInv'
  <1>1. HealthInv /\ HistoryIsKept
    BY DEF ViewInv
  <1>2. /\ tick' = tick /\ link' = link /\ fault' = fault /\ delivery' = delivery
        /\ lost' = lost
    BY DEF worldVars
  <1>3. /\ tick \in 0..LastTick /\ LastTick \in Nat /\ StaleAfter \in Nat
        /\ \A d \in Deliveries : /\ delivery[d].status \in DeliveryStatus
                                 /\ delivery[d].created \in Nat
    BY <1>1, HealthAssumption DEF HealthInv
  <1>4. CASE ReadConnection
    <2>1. /\ view' = [step |-> "connection", link |-> link, fault |-> fault,
                      cutoff |-> tick, success |-> Never, failure |-> Never,
                      stuck |-> FALSE, lost |-> FALSE]
          /\ during' = [d \in Deliveries |-> {delivery[d].status}]
      BY <1>4 DEF ReadConnection
    <2>2. HealthInv'
      <3>1. view' \in [step : Reading \cup {"none", "answered"}, link : Links,
                       fault : BOOLEAN, cutoff : 0..LastTick, success : 0..LastTick,
                       failure : 0..LastTick, stuck : BOOLEAN, lost : BOOLEAN]
        BY <1>1, <1>3, <2>1 DEF HealthInv, Reading, Never
      <3>2. during' \in [Deliveries -> SUBSET DeliveryStatus]
        BY <1>3, <2>1
      <3> QED
        BY <1>1, <1>2, <3>1, <3>2 DEF HealthInv
    <2>3. HistoryIsKept'
      BY <1>1, <1>2, <2>1 DEF HistoryIsKept
    <2>4. SuccessIsWitnessed' /\ FailuresAreSeen' /\ StuckAreCounted'
      BY <2>1 DEF SuccessIsWitnessed, FailuresAreSeen, StuckAreCounted
    <2>5. LossIsCurrent'
      BY <2>1 DEF LossIsCurrent
    <2> QED
      BY <2>2, <2>3, <2>4, <2>5 DEF ViewInv
  <1>5. CASE ReadSuccess
    <2>1. /\ view.step = "connection" /\ during' = during
          /\ view' = [view EXCEPT !.step = "success", !.success = Latest(Successful)]
      BY <1>5 DEF ReadSuccess
    <2>2. /\ Latest(Successful) \in 0..LastTick
          /\ Latest(Successful) # Never => Latest(Successful) \in TimesOf(Successful)
      BY <1>1, LatestIsLatest
    <2>3. HealthInv'
      BY <1>1, <1>2, <2>1, <2>2 DEF HealthInv, Reading
    <2>4. view'.step = "success" /\ view'.success = Latest(Successful)
          /\ view'.link = view.link /\ view'.fault = view.fault
      BY <1>1, <2>1 DEF HealthInv
    <2>5. HistoryIsKept'
      BY <1>1, <1>2, <2>1, <2>4 DEF HistoryIsKept
    <2>6. SuccessIsWitnessed'
      BY <1>1, <1>2, <2>1, <2>2, <2>4 DEF SuccessIsWitnessed, TimesOf, HistoryIsKept
    <2>7. FailuresAreSeen' /\ StuckAreCounted'
      BY <2>4 DEF FailuresAreSeen, StuckAreCounted
    <2>8. LossIsCurrent'
      BY <2>4 DEF LossIsCurrent
    <2> QED
      BY <2>3, <2>5, <2>6, <2>7, <2>8 DEF ViewInv
  <1>6. CASE ReadFailure
    <2>1. /\ view.step = "success" /\ during' = during
          /\ view' = [view EXCEPT !.step = "failure", !.failure = Latest({"failed"})]
      BY <1>6 DEF ReadFailure
    <2>2. /\ Latest({"failed"}) \in 0..LastTick
          /\ \A t \in TimesOf({"failed"}) : t <= Latest({"failed"})
      BY <1>1, LatestIsLatest
    <2>3. HealthInv'
      BY <1>1, <1>2, <2>1, <2>2 DEF HealthInv, Reading
    <2>4. /\ view'.step = "failure" /\ view'.failure = Latest({"failed"})
          /\ view'.success = view.success
          /\ view'.link = view.link /\ view'.fault = view.fault
      BY <1>1, <2>1 DEF HealthInv
    <2>5. HistoryIsKept'
      BY <1>1, <1>2, <2>1, <2>4 DEF HistoryIsKept
    <2>6. SuccessIsWitnessed'
      BY <1>2, <2>1, <2>4 DEF ViewInv, SuccessIsWitnessed
    <2>7. FailuresAreSeen'
      BY <1>1, <1>2, <2>1, <2>2, <2>4 DEF FailuresAreSeen, TimesOf, HistoryIsKept
    <2>8. StuckAreCounted'
      BY <2>4 DEF StuckAreCounted
    <2>9. LossIsCurrent'
      BY <2>4 DEF LossIsCurrent
    <2> QED
      BY <2>3, <2>5, <2>6, <2>7, <2>8, <2>9 DEF ViewInv
  <1>7. CASE CountStuck
    <2> DEFINE Old == \E t \in TimesOf({"processing"}) : t + StaleAfter < view.cutoff
    <2>1. /\ view.step = "failure" /\ during' = during
          /\ view' = [view EXCEPT !.step = "stuck", !.stuck = Old]
      BY <1>7 DEF CountStuck
    <2>2. HealthInv'
      BY <1>1, <1>2, <2>1 DEF HealthInv, Reading
    <2>3. /\ view'.step = "stuck" /\ view'.stuck = Old /\ view'.failure = view.failure
          /\ view'.success = view.success /\ view'.cutoff = view.cutoff
          /\ view'.link = view.link /\ view'.fault = view.fault
          /\ view.cutoff \in Nat
      BY <1>1, <2>1, HealthAssumption DEF HealthInv
    <2>4. HistoryIsKept'
      BY <1>1, <1>2, <2>1, <2>3 DEF HistoryIsKept
    <2>5. SuccessIsWitnessed' /\ FailuresAreSeen'
      BY <1>2, <2>1, <2>3 DEF ViewInv, SuccessIsWitnessed, FailuresAreSeen
    <2>6. StuckAreCounted'
      <3> SUFFICES ASSUME NEW d \in Deliveries, during[d] = {"processing"}, ~Old
                   PROVE  delivery[d].created + StaleAfter >= view.cutoff
        BY <1>2, <2>1, <2>3 DEF StuckAreCounted
      <3>1. delivery[d].status = "processing"
        BY <1>1, <2>1 DEF HistoryIsKept
      <3>2. delivery[d].created \in TimesOf({"processing"})
        BY <3>1 DEF TimesOf
      <3> QED
        BY <1>3, <2>3, <3>2
    <2>7. LossIsCurrent'
      BY <2>3 DEF LossIsCurrent
    <2> QED
      BY <2>2, <2>4, <2>5, <2>6, <2>7 DEF ViewInv
  <1>8. CASE CountLost
    <2>1. /\ view.step = "stuck" /\ during' = during
          /\ view' = [view EXCEPT !.step = "answered", !.lost = lost]
      BY <1>8 DEF CountLost
    <2>2. HealthInv'
      BY <1>1, <1>2, <2>1 DEF HealthInv
    <2>3. /\ view'.step = "answered" /\ view'.lost = lost /\ view'.failure = view.failure
          /\ view'.success = view.success /\ view'.cutoff = view.cutoff
          /\ view'.link = view.link /\ view'.fault = view.fault
          /\ view'.stuck = view.stuck
      BY <1>1, <2>1 DEF HealthInv
    <2>4. HistoryIsKept'
      BY <1>1, <1>2, <2>1, <2>3 DEF HistoryIsKept
    <2>5. SuccessIsWitnessed' /\ FailuresAreSeen' /\ StuckAreCounted'
      BY <1>2, <2>1, <2>3 DEF ViewInv, SuccessIsWitnessed, FailuresAreSeen, StuckAreCounted
    <2>6. LossIsCurrent'
      BY <1>2, <2>3 DEF LossIsCurrent
    <2> QED
      BY <2>2, <2>4, <2>5, <2>6 DEF ViewInv
  <1> QED
    BY <1>4, <1>5, <1>6, <1>7, <1>8 DEF Request

\* So the invariant holds at every step, of the request or of what it reads.
LEMMA HealthStep == ViewInv /\ [HealthNext]_healthVars => ViewInv'
  <1> SUFFICES ASSUME ViewInv, [HealthNext]_healthVars PROVE ViewInv'
    OBVIOUS
  <1>1. CASE view.step # "answered" /\ Meanwhile /\ Witness /\ UNCHANGED view
    BY <1>1, MeanwhileKeepsView
  <1>2. CASE Request /\ UNCHANGED worldVars
    BY <1>2, RequestKeepsView
  <1>3. CASE UNCHANGED healthVars
    BY <1>3 DEF healthVars, worldVars, ViewInv, HealthInv, HistoryIsKept,
       SuccessIsWitnessed, FailuresAreSeen, StuckAreCounted, LossIsCurrent
  <1> QED
    BY <1>1, <1>2, <1>3 DEF HealthNext

\* A connector is shown as healthy only if what was committed while the request
\* ran says so, for any deliveries and in whatever order they arrive, end and are
\* sent again between its statements.  The time of the newest success is that of a
\* delivery that had succeeded then, the newest failure is no older than any that
\* was failed all along, and each later statement leaves this as it is.
THEOREM HealthStaysEarned == HealthSpec => []HealthyIsEarned
  <1>1. ViewInv => HealthyIsEarned
    <2> SUFFICES ASSUME ViewInv, view.step = "answered", HealthStatus = "healthy"
                 PROVE  /\ view.link = "connected" /\ ~view.fault /\ ~lost
                        /\ \A d \in Deliveries :
                             /\ during[d] = {"failed"} =>
                                  \E e \in Deliveries :
                                    /\ during[e] \cap Successful # {}
                                    /\ delivery[e].created >= delivery[d].created
                             /\ during[d] = {"processing"} =>
                                  delivery[d].created + StaleAfter >= view.cutoff
      BY DEF HealthyIsEarned
    <2>1. Reasons = {}
      BY DEF HealthStatus
    <2>2. /\ view.link = "connected" /\ ~view.fault /\ ~LatestFailed /\ ~view.stuck
          /\ ~view.lost
      BY <2>1 DEF Reasons
    <2>3. ~lost
      BY <2>2 DEF ViewInv, LossIsCurrent
    <2>4. /\ view.success \in Nat /\ view.failure \in Nat
          /\ \A d \in Deliveries : delivery[d].created \in Nat
      BY HealthAssumption DEF ViewInv, HealthInv
    <2>5. ASSUME NEW d \in Deliveries, during[d] = {"failed"}
          PROVE  \E e \in Deliveries : /\ during[e] \cap Successful # {}
                                       /\ delivery[e].created >= delivery[d].created
      <3>1. delivery[d].status # "none"
        BY <2>5 DEF ViewInv, HistoryIsKept
      <3>2. delivery[d].created >= 1 /\ delivery[d].created <= view.failure
        BY <2>5, <3>1 DEF ViewInv, HistoryIsKept, FailuresAreSeen
      <3>3. view.success # Never /\ view.failure <= view.success
        BY <2>2, <2>4, <3>2 DEF LatestFailed, Never
      <3>4. PICK e \in Deliveries : /\ during[e] \cap Successful # {}
                                    /\ delivery[e].created = view.success
        BY <3>3 DEF ViewInv, SuccessIsWitnessed
      <3> QED
        BY <2>4, <3>2, <3>3, <3>4
    <2>6. ASSUME NEW d \in Deliveries, during[d] = {"processing"}
          PROVE  delivery[d].created + StaleAfter >= view.cutoff
      BY <2>2, <2>6 DEF ViewInv, StuckAreCounted
    <2> QED
      BY <2>2, <2>3, <2>5, <2>6
  <1> QED
    BY <1>1, HealthBegins, HealthStep, PTL DEF HealthSpec

-------------------------------------------------------------------------------
(* ChangeAnalysis *)

\* An analysis that is stored, or about to be, is the one its identifier says
Fits(record) == record.hit = Hit(record.id[2], record.id[3])

AnalysisInv ==
    /\ \A r \in stored : Fits(r)
    /\ asking = [c \in Analysts |-> asking[c]]
    /\ \A c \in Analysts :
         asking[c] # NoAnalysis =>
           /\ Fits(asking[c].record)
           /\ asking[c].answer.hit = Hit(asking[c].answer.roots, asking[c].answer.edges)
    /\ AnswerFitsCatalog

\* Without roots nothing is hit.
LEMMA NothingHit == Hit({}, {}) = {}
  <1> DEFINE Way(f) ==
        [k \in 0..4 |-> IF k = 0 THEN {}
                        ELSE f[k - 1] \cup {e[2] : e \in {x \in {} : x[1] \in f[k - 1]}}]
             chosen == CHOOSE f : f = Way(f)
  <1>1. Hit({}, {}) = chosen[4]
    BY DEF Hit, MaxWay
  <1>2. [k \in 0..4 |-> {}] = Way([k \in 0..4 |-> {}])
    OBVIOUS
  <1>3. chosen = Way(chosen)
    BY <1>2
  <1> HIDE DEF chosen
  <1>4. chosen[0] = {}
    BY <1>3
  <1>5. chosen[1] = {}
    BY <1>3, <1>4
  <1>6. chosen[2] = {}
    BY <1>3, <1>5
  <1>7. chosen[3] = {}
    BY <1>3, <1>6
  <1>8. chosen[4] = {}
    BY <1>3, <1>7
  <1> QED
    BY <1>1, <1>8

\* Edits, requests that find an analysis, compute one, store it or lose the race
\* for the identifier keep the invariant.
LEMMA AnalysisStep == AnalysisInv /\ [AnalysisNext]_analysisVars => AnalysisInv'
  <1> SUFFICES ASSUME AnalysisInv, [AnalysisNext]_analysisVars PROVE AnalysisInv'
    OBVIOUS
  <1>1. ASSUME NEW c \in Analysts, asking' = [asking EXCEPT ![c] = NoAnalysis],
               \A r \in stored' : Fits(r), answer'.hit = Hit(answer'.roots, answer'.edges)
        PROVE  AnalysisInv'
    <2>1. \A d \in Analysts : asking'[d] = NoAnalysis \/ asking'[d] = asking[d]
      BY <1>1 DEF AnalysisInv
    <2>2. asking' = [d \in Analysts |-> asking'[d]]
      BY <1>1 DEF AnalysisInv
    <2> QED
      BY <1>1, <2>1, <2>2 DEF AnalysisInv, AnswerFitsCatalog, Fits
  <1>2. ASSUME NEW s \in Entries, EditCatalog(s) PROVE AnalysisInv'
    BY <1>2 DEF EditCatalog, AnalysisInv, AnswerFitsCatalog, Fits
  <1>3. ASSUME NEW c \in Analysts, Analyse(c) PROVE AnalysisInv'
    <2>1. PICK request \in SUBSET Names \ {{}} :
            LET found == {r \in stored : r.id = Identifier(request)}
                fresh == [id |-> Identifier(request),
                          hit |-> Hit(Roots(request), Edges)]
            IN  IF found # {}
                THEN /\ Told(c, CHOOSE r \in found : TRUE)
                     /\ UNCHANGED stored
                ELSE /\ asking' = [asking EXCEPT ![c] =
                                     [step |-> "insert", record |-> fresh,
                                      answer |-> [request |-> request,
                                                  hit |-> fresh.hit,
                                                  edges |-> Edges,
                                                  roots |-> Roots(request)]]]
                     /\ UNCHANGED <<stored, answer>>
      BY <1>3 DEF Analyse
    <2> DEFINE found == {r \in stored : r.id = Identifier(request)}
               fresh == [id |-> Identifier(request), hit |-> Hit(Roots(request), Edges)]
               told == CHOOSE r \in found : TRUE
    <2>2. /\ Identifier(request)[1] = request /\ Identifier(request)[2] = Roots(request)
          /\ Identifier(request)[3] = Edges
      BY DEF Identifier
    <2>3. CASE found # {}
      <3>1. told \in stored /\ told.id = Identifier(request)
        BY <2>3
      <3>2. told.hit = Hit(Roots(request), Edges)
        BY <2>2, <3>1 DEF AnalysisInv, Fits
      <3>3. Told(c, told) /\ stored' = stored
        BY <2>1, <2>3
      <3> HIDE DEF told
      <3>4. /\ answer'.hit = told.hit /\ answer'.edges = Edges
            /\ answer'.roots = Roots(request)
            /\ asking' = [asking EXCEPT ![c] = NoAnalysis]
        BY <2>2, <3>1, <3>3 DEF Told
      <3>5. \A r \in stored' : Fits(r)
        BY <3>3 DEF AnalysisInv
      <3> QED
        BY <1>1, <3>2, <3>4, <3>5
    <2>4. CASE found = {}
      <3>1. /\ asking' = [asking EXCEPT ![c] =
                            [step |-> "insert", record |-> fresh,
                             answer |-> [request |-> request, hit |-> fresh.hit,
                                         edges |-> Edges, roots |-> Roots(request)]]]
            /\ stored' = stored /\ answer' = answer
        BY <2>1, <2>4
      <3>2. Fits(fresh)
        BY <2>2 DEF Fits
      <3>3. /\ asking'[c].record = fresh
            /\ asking'[c].answer.hit = Hit(Roots(request), Edges)
            /\ asking'[c].answer.edges = Edges /\ asking'[c].answer.roots = Roots(request)
        BY <3>1 DEF AnalysisInv
      <3>4. \A d \in Analysts \ {c} : asking'[d] = asking[d]
        BY <3>1 DEF AnalysisInv
      <3>5. asking' = [d \in Analysts |-> asking'[d]]
        BY <3>1 DEF AnalysisInv
      <3> HIDE DEF fresh
      <3>6. ASSUME NEW d \in Analysts, asking'[d] # NoAnalysis
            PROVE  /\ Fits(asking'[d].record)
                   /\ asking'[d].answer.hit
                        = Hit(asking'[d].answer.roots, asking'[d].answer.edges)
        BY <3>2, <3>3, <3>4, <3>6 DEF AnalysisInv
      <3> QED
        BY <3>1, <3>5, <3>6 DEF AnalysisInv, AnswerFitsCatalog, Fits
    <2> QED
      BY <2>3, <2>4
  <1>4. ASSUME NEW c \in Analysts, InsertAnalysis(c) PROVE AnalysisInv'
    <2>1. asking[c] # NoAnalysis
      BY <1>4 DEF InsertAnalysis, NoAnalysis
    <2>2. /\ Fits(asking[c].record)
          /\ asking[c].answer.hit = Hit(asking[c].answer.roots, asking[c].answer.edges)
      BY <2>1 DEF AnalysisInv
    <2>3. /\ asking' = [asking EXCEPT ![c] = NoAnalysis]
          /\ \/ stored' = stored /\ answer' = answer
             \/ stored' = stored \cup {asking[c].record} /\ answer' = asking[c].answer
      BY <1>4 DEF InsertAnalysis
    <2>4. \A r \in stored' : Fits(r)
      BY <2>2, <2>3 DEF AnalysisInv
    <2>5. answer'.hit = Hit(answer'.roots, answer'.edges)
      BY <2>2, <2>3 DEF AnalysisInv, AnswerFitsCatalog
    <2> QED
      BY <1>1, <2>3, <2>4, <2>5
  <1>5. ASSUME NEW c \in Analysts, DropAnalysis(c) PROVE AnalysisInv'
    BY <1>1, <1>5 DEF DropAnalysis, AnalysisInv, AnswerFitsCatalog
  <1>6. CASE UNCHANGED analysisVars
    BY <1>6 DEF analysisVars, AnalysisInv, AnswerFitsCatalog, Fits
  <1> QED
    BY <1>2, <1>3, <1>4, <1>5, <1>6 DEF AnalysisNext

\* Whatever an analyst is told is the analysis of the catalog as the request read
\* it, for any catalog, any edits and any number of requests at a time: a stored
\* analysis is found only under an identifier that contains all of its inputs.
THEOREM AnswersFit == AnalysisSpec => []AnswerFitsCatalog
  <1>1. AnalysisInit => AnalysisInv
    BY NothingHit DEF AnalysisInit, AnalysisInv, AnswerFitsCatalog, NoAnswer, NoAnalysis
  <1>2. AnalysisInv => AnswerFitsCatalog
    BY DEF AnalysisInv
  <1> QED
    BY <1>1, <1>2, AnalysisStep, PTL DEF AnalysisSpec

-------------------------------------------------------------------------------
(* RiskScore *)

\* Rounding a fraction to an integer, halves to even, keeps the order and stays
\* within one half.
LEMMA RoundKeepsOrder ==
    ASSUME NEW a \in Nat, NEW b \in Nat, a <= b,
           NEW den \in {12, 20, 100}
    PROVE  /\ Round(a, den) \in Nat /\ Round(b, den) \in Nat
           /\ Round(a, den) <= Round(b, den)
           /\ 2 * den * Round(a, den) <= 2 * a + den
  <1>1. CASE den = 12
    BY <1>1 DEF Round
  <1>2. CASE den = 20
    BY <1>2 DEF Round
  <1>3. CASE den = 100
    BY <1>3 DEF Round
  <1> QED
    BY <1>1, <1>2, <1>3

\* Clamping keeps the order and the bounds.
LEMMA ClampKeepsOrder ==
    ASSUME NEW a \in Int, NEW b \in Int, a <= b
    PROVE  /\ Clamp(a, 0, 100) \in 0..100 /\ Clamp(b, 0, 100) \in 0..100
           /\ Clamp(a, 0, 100) <= Clamp(b, 0, 100)
           /\ a >= 0 => Clamp(a, 0, 100) <= a
           /\ a <= 100 => a <= Clamp(a, 0, 100)
  BY DEF Clamp

\* The greatest of more numbers is no smaller.
LEMMA MaxKeepsOrder ==
    ASSUME NEW n \in Nat, NEW T, NEW U, T \subseteq U, U \subseteq 0..n, T # {}
    PROVE  Max(T) \in 0..n /\ Max(U) \in 0..n /\ Max(T) <= Max(U)
  <1>1. Max(T) \in T
    BY MaxOfBounded
  <1>2. Max(U) \in U /\ \A y \in U : Max(U) >= y
    BY MaxOfBounded
  <1>3. Max(T) \in 0..n /\ Max(U) \in 0..n /\ Max(U) >= Max(T)
    BY <1>1, <1>2
  <1> QED
    BY <1>3

\* How many there are beyond the first.
LEMMA BeyondFirst ==
    ASSUME NEW n \in Nat
    PROVE  /\ Max({0, n - 1}) \in Nat
           /\ n = 0 => Max({0, n - 1}) = 0
           /\ n > 0 => Max({0, n - 1}) = n - 1
  <1>1. CASE n = 0
    <2>1. {0, n - 1} = {0, -1}
      BY <1>1
    <2>2. Max({0, -1}) = 0
      BY DEF Max
    <2> QED
      BY <1>1, <2>1, <2>2
  <1>2. CASE n > 0
    <2>1. n - 1 \in Nat /\ \A y \in {0, n - 1} : n - 1 >= y
      BY <1>2
    <2>2. \A x \in {0, n - 1} : (\A y \in {0, n - 1} : x >= y) => x = n - 1
      BY <2>1
    <2>3. Max({0, n - 1}) = n - 1
      BY <2>1, <2>2 DEF Max
    <2> QED
      BY <1>2, <2>1, <2>3
  <1> QED
    BY <1>1, <1>2

\* What a change may be, field by field.
LEMMA ChangeFields ==
    ASSUME NEW c \in Change
    PROVE  /\ c.files \in Nat /\ c.lines \in Nat
           /\ c.services \subseteq Component /\ IsFiniteSet(c.services)
           /\ Cardinality(c.services) \in Nat
           /\ c.flags \subseteq Flags /\ IsFiniteSet(c.flags)
           /\ Cardinality(c.flags) \in Nat
           /\ c.coverage \in -1..100 /\ c.observability \in -1..100
           /\ c.rollback \in {"ready", "missing", "unknown"}
           /\ c.failures = -1 \/ c.failures \in Nat
  <1>1. /\ c.files \in Nat /\ c.lines \in Nat
        /\ c.coverage \in -1..100 /\ c.observability \in -1..100
        /\ c.rollback \in {"ready", "missing", "unknown"}
        /\ c.failures = -1 \/ c.failures \in Nat
    <2>1. /\ c.files \in Files /\ c.lines \in Lines
          /\ c.coverage \in Shares \cup {-1} /\ c.observability \in Shares \cup {-1}
          /\ c.rollback \in {"ready", "missing", "unknown"}
          /\ c.failures \in Failures \cup {-1}
      BY DEF Change, Unknown
    <2>2. \A s \in Shares \cup {-1} : s \in -1..100
      BY RiskAssumption
    <2> QED
      BY <2>1, <2>2, RiskAssumption
  <1>2. c.services \subseteq Component /\ c.flags \subseteq Flags
    BY DEF Change
  <1>3. IsFiniteSet(c.services) /\ IsFiniteSet(c.flags)
    BY <1>2, RiskAssumption, FS_Subset
  <1> QED
    BY <1>1, <1>2, <1>3, FS_CardinalityType

\* A larger change has no lower score for its size.
LEMMA SizeKeepsOrder ==
    ASSUME NEW b \in Change, NEW c \in Change, AtLeast(c, b)
    PROVE  /\ SizeScore(b) \in 0..100 /\ SizeScore(c) \in 0..100
           /\ SizeScore(b) <= SizeScore(c)
  <1> DEFINE x == 36 * b.files + b.lines
             y == 36 * c.files + c.lines
  <1>1. x \in Nat /\ y \in Nat /\ x <= y
    BY ChangeFields DEF AtLeast
  <1> HIDE DEF x, y
  <1>2. Round(x, 12) \in Nat /\ Round(y, 12) \in Nat /\ Round(x, 12) <= Round(y, 12)
    BY <1>1, RoundKeepsOrder
  <1>3. /\ Clamp(Round(x, 12), 0, 100) \in 0..100 /\ Clamp(Round(y, 12), 0, 100) \in 0..100
        /\ Clamp(Round(x, 12), 0, 100) <= Clamp(Round(y, 12), 0, 100)
    BY <1>2, ClampKeepsOrder
  <1> QED
    BY <1>3 DEF SizeScore, x, y

\* Nor for its scope.
LEMMA ScopeKeepsOrder ==
    ASSUME NEW b \in Change, NEW c \in Change, AtLeast(c, b)
    PROVE  /\ ScopeScore(b) \in 0..100 /\ ScopeScore(c) \in 0..100
           /\ ScopeScore(b) <= ScopeScore(c)
  <1> DEFINE m == Cardinality(b.services)
             n == Cardinality(c.services)
             T == {TierBonus(s) : s \in b.services} \cup {0}
             U == {TierBonus(s) : s \in c.services} \cup {0}
             x == 18 * m + 8 * Max({0, m - 1}) + Max(T)
             y == 18 * n + 8 * Max({0, n - 1}) + Max(U)
  <1>1. m \in Nat /\ n \in Nat /\ m <= n
    BY ChangeFields, FS_Subset DEF AtLeast
  <1>2. T \subseteq U
    BY DEF AtLeast
  <1>3. \A s : TierBonus(s) \in 0..25
    BY DEF TierBonus
  <1>4. U \subseteq 0..25 /\ T # {}
    BY <1>3
  <1>5. ScopeScore(b) = Clamp(x, 0, 100) /\ ScopeScore(c) = Clamp(y, 0, 100)
    BY DEF ScopeScore
  <1> HIDE DEF m, n, T, U
  <1>6. Max(T) \in 0..25 /\ Max(U) \in 0..25 /\ Max(T) <= Max(U)
    BY <1>2, <1>4, MaxKeepsOrder
  <1>7. /\ Max({0, m - 1}) \in Nat /\ Max({0, n - 1}) \in Nat
        /\ Max({0, m - 1}) <= Max({0, n - 1})
    BY <1>1, BeyondFirst
  <1>8. x \in Int /\ y \in Int /\ x <= y
    BY <1>1, <1>6, <1>7
  <1> HIDE DEF x, y
  <1> QED
    BY <1>5, <1>8, ClampKeepsOrder

\* Nor for what kind of change it is.
LEMMA TypeKeepsOrder ==
    ASSUME NEW b \in Change, NEW c \in Change, AtLeast(c, b)
    PROVE  /\ TypeScore(b) \in 0..100 /\ TypeScore(c) \in 0..100
           /\ TypeScore(b) <= TypeScore(c)
  <1> DEFINE m == Cardinality(b.flags)
             n == Cardinality(c.flags)
             T == {RiskOfFlag(f) : f \in b.flags}
             U == {RiskOfFlag(f) : f \in c.flags}
             base == IF b.flags = {} THEN 20 ELSE Max(T)
             more == IF c.flags = {} THEN 20 ELSE Max(U)
             x == base + 4 * Max({0, m - 1})
             y == more + 4 * Max({0, n - 1})
  <1>1. m \in Nat /\ n \in Nat /\ m <= n
    BY ChangeFields, FS_Subset DEF AtLeast
  <1>2. /\ T \subseteq U /\ (b.flags = {} <=> c.flags = {})
        /\ b.flags # {} => T # {}
    BY DEF AtLeast
  <1>3. \A f : RiskOfFlag(f) \in 0..96
    BY DEF RiskOfFlag, FlagRisk
  <1>4. U \subseteq 0..96
    BY <1>3
  <1>5. TypeScore(b) = Clamp(x, 0, 100) /\ TypeScore(c) = Clamp(y, 0, 100)
    BY DEF TypeScore
  <1> HIDE DEF m, n, T, U
  <1>6. b.flags # {} => Max(T) \in 0..96 /\ Max(U) \in 0..96 /\ Max(T) <= Max(U)
    BY <1>2, <1>4, MaxKeepsOrder
  <1>7. base \in 0..96 /\ more \in 0..96 /\ base <= more
    BY <1>2, <1>6
  <1> HIDE DEF base, more
  <1>8. /\ Max({0, m - 1}) \in Nat /\ Max({0, n - 1}) \in Nat
        /\ Max({0, m - 1}) <= Max({0, n - 1})
    BY <1>1, BeyondFirst
  <1>9. x \in Int /\ y \in Int /\ x <= y
    BY <1>7, <1>8
  <1> HIDE DEF x, y
  <1> QED
    BY <1>5, <1>9, ClampKeepsOrder

\* Nor for its tests and its history.
LEMMA TestsKeepOrder ==
    ASSUME NEW b \in Change, NEW c \in Change, AtLeast(c, b)
    PROVE  /\ TestScore(b) \in 0..100 /\ TestScore(c) \in 0..100
           /\ TestScore(b) <= TestScore(c)
           /\ HistoryScore(b) \in 0..100 /\ HistoryScore(c) \in 0..100
           /\ HistoryScore(b) <= HistoryScore(c)
  <1>1. /\ TestScore(b) \in 0..100 /\ TestScore(c) \in 0..100
        /\ TestScore(b) <= TestScore(c)
    <2>1. /\ b.coverage \in -1..100 /\ c.coverage \in -1..100
          /\ c.coverage <= b.coverage
          /\ c.coverage = -1 <=> b.coverage = -1
      BY ChangeFields DEF AtLeast, Unknown
    <2>2. CASE b.coverage = -1
      BY <2>1, <2>2 DEF TestScore, Unknown
    <2>3. CASE b.coverage # -1
      <3>1. /\ b.coverage \in Int /\ b.coverage >= 0 /\ b.coverage <= 100
            /\ c.coverage \in Int /\ c.coverage >= 0 /\ c.coverage <= 100
        BY <2>1, <2>3
      <3> QED
        BY <2>1, <2>3, <3>1 DEF TestScore, Unknown
    <2> QED
      BY <2>2, <2>3
  <1>2. /\ HistoryScore(b) \in 0..100 /\ HistoryScore(c) \in 0..100
        /\ HistoryScore(b) <= HistoryScore(c)
    <2>1. CASE b.failures = Unknown
      BY <2>1 DEF AtLeast, HistoryScore
    <2>2. CASE b.failures # Unknown
      <3>1. /\ b.failures \in Nat /\ c.failures \in Nat
            /\ c.failures >= b.failures
            /\ b.failures # Unknown /\ c.failures # Unknown
        BY <2>2, ChangeFields DEF AtLeast, Unknown
      <3>2. 25 * b.failures \in Int /\ 25 * c.failures \in Int
              /\ 25 * b.failures <= 25 * c.failures
        BY <3>1
      <3> QED
        BY <3>1, <3>2, ClampKeepsOrder DEF HistoryScore
    <2> QED
      BY <2>1, <2>2
  <1> QED
    BY <1>1, <1>2

\* The rollback's share of the safety score, in twentieths, and the telemetry's
RollbackPart(c) ==
    CASE c.rollback = "ready" -> 0 [] c.rollback = "missing" -> 1300
      [] c.rollback = "unknown" -> 650

TelemetryPart(c) ==
    IF c.observability = Unknown THEN 350 ELSE 7 * (100 - c.observability)

\* Nor for its safety; and one that can be rolled back and is observed scores
\* little.
LEMMA SafetyKeepsOrder ==
    ASSUME NEW b \in Change, NEW c \in Change, AtLeast(c, b)
    PROVE  /\ SafetyScore(b) \in 0..100 /\ SafetyScore(c) \in 0..100
           /\ SafetyScore(b) <= SafetyScore(c)
           /\ b.rollback = "ready" /\ b.observability >= 70 => SafetyScore(b) <= 11
  <1> DEFINE x == RollbackPart(b) + TelemetryPart(b)
             y == RollbackPart(c) + TelemetryPart(c)
  <1>1. /\ RollbackPart(b) \in Nat /\ RollbackPart(c) \in Nat
        /\ RollbackPart(b) <= RollbackPart(c)
        /\ b.rollback = "ready" => RollbackPart(b) = 0
    <2>1. /\ b.rollback \in {"ready", "missing", "unknown"}
          /\ c.rollback \in {"ready", "missing", "unknown"}
      BY ChangeFields
    <2>2. c.rollback = b.rollback \/ c.rollback = "missing" \/ b.rollback = "ready"
      BY DEF AtLeast
    <2> QED
      BY <2>1, <2>2 DEF RollbackPart
  <1>2. /\ TelemetryPart(b) \in Nat /\ TelemetryPart(c) \in Nat
        /\ TelemetryPart(b) <= TelemetryPart(c)
        /\ b.observability >= 70 => TelemetryPart(b) <= 210
    <2>1. /\ b.observability \in -1..100 /\ c.observability \in -1..100
          /\ c.observability <= b.observability
          /\ c.observability = -1 <=> b.observability = -1
      BY ChangeFields DEF AtLeast, Unknown
    <2>2. CASE b.observability = -1
      BY <2>1, <2>2 DEF TelemetryPart, Unknown
    <2>3. CASE b.observability # -1
      <3>1. /\ b.observability \in Int /\ b.observability >= 0 /\ b.observability <= 100
            /\ c.observability \in Int /\ c.observability >= 0 /\ c.observability <= 100
        BY <2>1, <2>3
      <3> QED
        BY <2>1, <2>3, <3>1 DEF TelemetryPart, Unknown
    <2> QED
      BY <2>2, <2>3
  <1>3. /\ x \in Nat /\ y \in Nat /\ x <= y
        /\ b.rollback = "ready" /\ b.observability >= 70 => x <= 210
    BY <1>1, <1>2
  <1>4. /\ SafetyScore(b) = Clamp(Round(x, 20), 0, 100)
        /\ SafetyScore(c) = Clamp(Round(y, 20), 0, 100)
    BY DEF SafetyScore, RollbackPart, TelemetryPart
  <1> HIDE DEF x, y
  <1>5. /\ Round(x, 20) \in Nat /\ Round(y, 20) \in Nat /\ Round(x, 20) <= Round(y, 20)
        /\ 2 * 20 * Round(x, 20) <= 2 * x + 20
    BY <1>3, RoundKeepsOrder
  <1>6. b.rollback = "ready" /\ b.observability >= 70 => Round(x, 20) <= 11
    BY <1>3, <1>5
  <1>7. /\ Clamp(Round(x, 20), 0, 100) \in 0..100 /\ Clamp(Round(y, 20), 0, 100) \in 0..100
        /\ Clamp(Round(x, 20), 0, 100) <= Clamp(Round(y, 20), 0, 100)
        /\ Clamp(Round(x, 20), 0, 100) <= Round(x, 20)
    BY <1>5, ClampKeepsOrder
  <1> QED
    BY <1>4, <1>5, <1>6, <1>7

\* A sum with the weights of the factors
SumOf(scores) ==
    25 * scores[1] + 20 * scores[2] + 20 * scores[3] + 15 * scores[4]
      + 10 * scores[5] + 10 * scores[6]

\* The weighted sum, in hundredths, before it is rounded
Weighted(c) ==
    SumOf(<<SizeScore(c), ScopeScore(c), TypeScore(c), TestScore(c),
            HistoryScore(c), SafetyScore(c)>>)

\* The sum grows with its terms.
LEMMA SumGrows ==
    ASSUME NEW s \in [1..6 -> 0..100], NEW t \in [1..6 -> 0..100],
           \A i \in 1..6 : s[i] <= t[i]
    PROVE  SumOf(s) \in Nat /\ SumOf(t) \in Nat /\ SumOf(s) <= SumOf(t)
  <1>1. /\ 25 * s[1] \in Nat /\ 25 * t[1] \in Nat /\ 25 * s[1] <= 25 * t[1]
        /\ 20 * s[2] \in Nat /\ 20 * t[2] \in Nat /\ 20 * s[2] <= 20 * t[2]
    <2>1. s[1] \in 0..100 /\ t[1] \in 0..100 /\ s[1] <= t[1]
      OBVIOUS
    <2>2. s[2] \in 0..100 /\ t[2] \in 0..100 /\ s[2] <= t[2]
      OBVIOUS
    <2> QED
      BY <2>1, <2>2
  <1>2. /\ 20 * s[3] \in Nat /\ 20 * t[3] \in Nat /\ 20 * s[3] <= 20 * t[3]
        /\ 15 * s[4] \in Nat /\ 15 * t[4] \in Nat /\ 15 * s[4] <= 15 * t[4]
    <2>1. s[3] \in 0..100 /\ t[3] \in 0..100 /\ s[3] <= t[3]
      OBVIOUS
    <2>2. s[4] \in 0..100 /\ t[4] \in 0..100 /\ s[4] <= t[4]
      OBVIOUS
    <2> QED
      BY <2>1, <2>2
  <1>3. /\ 10 * s[5] \in Nat /\ 10 * t[5] \in Nat /\ 10 * s[5] <= 10 * t[5]
        /\ 10 * s[6] \in Nat /\ 10 * t[6] \in Nat /\ 10 * s[6] <= 10 * t[6]
    <2>1. s[5] \in 0..100 /\ t[5] \in 0..100 /\ s[5] <= t[5]
      OBVIOUS
    <2>2. s[6] \in 0..100 /\ t[6] \in 0..100 /\ s[6] <= t[6]
      OBVIOUS
    <2> QED
      BY <2>1, <2>2
  <1> DEFINE u1 == 25 * s[1] + 20 * s[2]
             u2 == u1 + 20 * s[3] + 15 * s[4]
             v1 == 25 * t[1] + 20 * t[2]
             v2 == v1 + 20 * t[3] + 15 * t[4]
  <1>4. u1 \in Nat /\ v1 \in Nat /\ u1 <= v1
    BY <1>1
  <1> HIDE DEF u1, v1
  <1>5. u2 \in Nat /\ v2 \in Nat /\ u2 <= v2
    BY <1>2, <1>4
  <1> HIDE DEF u2, v2
  <1>6. /\ u2 + 10 * s[5] + 10 * s[6] \in Nat /\ v2 + 10 * t[5] + 10 * t[6] \in Nat
        /\ u2 + 10 * s[5] + 10 * s[6] <= v2 + 10 * t[5] + 10 * t[6]
    BY <1>3, <1>5
  <1> QED
    BY <1>6 DEF SumOf, u1, u2, v1, v2

\* A change is at least as serious as itself.
LEMMA AtLeastItself == \A c \in Change : AtLeast(c, c)
  <1> SUFFICES ASSUME NEW c \in Change PROVE AtLeast(c, c)
    OBVIOUS
  <1>1. /\ c.files \in Int /\ c.lines \in Int /\ c.coverage \in Int
        /\ c.observability \in Int /\ c.failures \in Int
    BY ChangeFields
  <1> QED
    BY <1>1 DEF AtLeast

\* The score of a change that is worse is no lower.
LEMMA OverallKeepsOrder ==
    ASSUME NEW b \in Change, NEW c \in Change, AtLeast(c, b)
    PROVE  /\ Overall(b) \in 0..100 /\ Overall(c) \in 0..100
           /\ Overall(b) <= Overall(c)
           /\ 200 * Overall(b) <= 2 * Weighted(b) + 100
           /\ Weighted(b) \in Nat
  <1>1. Weighted(b) \in Nat /\ Weighted(c) \in Nat /\ Weighted(b) <= Weighted(c)
    <2>1. /\ SizeScore(b) \in 0..100 /\ SizeScore(c) \in 0..100
          /\ SizeScore(b) <= SizeScore(c)
      BY SizeKeepsOrder
    <2>2. /\ ScopeScore(b) \in 0..100 /\ ScopeScore(c) \in 0..100
          /\ ScopeScore(b) <= ScopeScore(c)
      BY ScopeKeepsOrder
    <2>3. /\ TypeScore(b) \in 0..100 /\ TypeScore(c) \in 0..100
          /\ TypeScore(b) <= TypeScore(c)
      BY TypeKeepsOrder
    <2>4. /\ TestScore(b) \in 0..100 /\ TestScore(c) \in 0..100
          /\ TestScore(b) <= TestScore(c)
          /\ HistoryScore(b) \in 0..100 /\ HistoryScore(c) \in 0..100
          /\ HistoryScore(b) <= HistoryScore(c)
      BY TestsKeepOrder
    <2>5. /\ SafetyScore(b) \in 0..100 /\ SafetyScore(c) \in 0..100
          /\ SafetyScore(b) <= SafetyScore(c)
      BY SafetyKeepsOrder
    <2> QED
      <3> DEFINE s == <<SizeScore(b), ScopeScore(b), TypeScore(b), TestScore(b),
                        HistoryScore(b), SafetyScore(b)>>
                 t == <<SizeScore(c), ScopeScore(c), TypeScore(c), TestScore(c),
                        HistoryScore(c), SafetyScore(c)>>
      <3>1. s \in [1..6 -> 0..100] /\ t \in [1..6 -> 0..100]
        BY <2>1, <2>2, <2>3, <2>4, <2>5
      <3>2. \A i \in 1..6 : s[i] <= t[i]
        BY <2>1, <2>2, <2>3, <2>4, <2>5
      <3> HIDE DEF s, t
      <3>3. SumOf(s) \in Nat /\ SumOf(t) \in Nat /\ SumOf(s) <= SumOf(t)
        BY <3>1, <3>2, SumGrows
      <3> QED
        BY <3>3 DEF Weighted, s, t
  <1> DEFINE x == Weighted(b)
             y == Weighted(c)
  <1>2. Overall(b) = Clamp(Round(x, 100), 0, 100) /\ Overall(c) = Clamp(Round(y, 100), 0, 100)
    BY DEF Overall, Weighted, SumOf
  <1>3. x \in Nat /\ y \in Nat /\ x <= y
    BY <1>1
  <1> HIDE DEF x, y
  <1>4. /\ Round(x, 100) \in Nat /\ Round(y, 100) \in Nat /\ Round(x, 100) <= Round(y, 100)
        /\ 2 * 100 * Round(x, 100) <= 2 * x + 100
    BY <1>3, RoundKeepsOrder
  <1>5. /\ Clamp(Round(x, 100), 0, 100) \in 0..100 /\ Clamp(Round(y, 100), 0, 100) \in 0..100
        /\ Clamp(Round(x, 100), 0, 100) <= Clamp(Round(y, 100), 0, 100)
        /\ Clamp(Round(x, 100), 0, 100) <= Round(x, 100)
    BY <1>4, ClampKeepsOrder
  <1>6. 200 * Clamp(Round(x, 100), 0, 100) <= 2 * x + 100
    BY <1>3, <1>4, <1>5
  <1> QED
    BY <1>2, <1>3, <1>5, <1>6 DEF x, y

\* A change for which nothing is recommended is not critical: at most 67.
LEMMA NothingAskedIsNotCritical ==
    ASSUME NEW c \in Change, AskedFor(c) = {}
    PROVE  Overall(c) \in 0..100 /\ Overall(c) < 70
  <1>1. /\ "owner review" \notin AskedFor(c) /\ "test evidence" \notin AskedFor(c)
        /\ "tests" \notin AskedFor(c) /\ "staged rollout" \notin AskedFor(c)
        /\ "rollback" \notin AskedFor(c) /\ "telemetry" \notin AskedFor(c)
    OBVIOUS
  <1>2. /\ ~(TypeScore(c) >= 70) /\ c.coverage # Unknown /\ ~(TestScore(c) >= 35)
        /\ ~(ScopeScore(c) >= 60) /\ c.rollback = "ready" /\ ~(c.observability < 70)
    BY <1>1 DEF AskedFor
  <1>3. AtLeast(c, c)
    BY AtLeastItself
  <1>4. /\ SizeScore(c) \in 0..100 /\ ScopeScore(c) \in 0..100 /\ TypeScore(c) \in 0..100
        /\ TestScore(c) \in 0..100 /\ HistoryScore(c) \in 0..100
        /\ SafetyScore(c) \in 0..100
    BY <1>3, SizeKeepsOrder, ScopeKeepsOrder, TypeKeepsOrder, TestsKeepOrder,
       SafetyKeepsOrder
  <1>5. c.observability >= 70
    BY <1>2, ChangeFields
  <1>6. SafetyScore(c) <= 11
    BY <1>2, <1>3, <1>5, SafetyKeepsOrder
  <1>7. Weighted(c) <= 6680
    <2>1. TypeScore(c) <= 69 /\ TestScore(c) <= 34 /\ ScopeScore(c) <= 59
      BY <1>2, <1>4
    <2> QED
      <3> DEFINE s == <<SizeScore(c), ScopeScore(c), TypeScore(c), TestScore(c),
                        HistoryScore(c), SafetyScore(c)>>
                 t == <<100, 59, 69, 34, 100, 11>>
      <3>1. s \in [1..6 -> 0..100] /\ t \in [1..6 -> 0..100]
        BY <1>4
      <3>2. \A i \in 1..6 : s[i] <= t[i]
        BY <1>4, <1>6, <2>1
      <3>3. SumOf(t) = 6680
        BY DEF SumOf
      <3> HIDE DEF s, t
      <3>4. SumOf(s) <= SumOf(t)
        BY <3>1, <3>2, SumGrows
      <3> QED
        BY <3>3, <3>4 DEF Weighted, s
  <1>8. Overall(c) \in 0..100 /\ 200 * Overall(c) <= 2 * Weighted(c) + 100
          /\ Weighted(c) \in Nat
    BY <1>3, OverallKeepsOrder
  <1> QED
    BY <1>7, <1>8

RiskInv == change \in Change /\ ledger = CalculateChangeRisk(change)

\* A critical score never comes with nothing to do.
LEMMA CriticalExplained ==
    ASSUME NEW c \in Change, Level(Overall(c)) = "critical"
    PROVE  CalculateChangeRisk(c).recommendations # {"proceed"}
  <1>1. Overall(c) \in 0..100
    BY AtLeastItself, OverallKeepsOrder
  <1>2. ~(Overall(c) < 70)
    BY <1>1 DEF Level
  <1>3. AskedFor(c) # {}
    BY <1>2, NothingAskedIsNotCritical
  <1>4. "proceed" \notin AskedFor(c)
    BY DEF AskedFor
  <1>5. CalculateChangeRisk(c).recommendations = AskedFor(c)
    BY <1>3 DEF CalculateChangeRisk
  <1> QED
    BY <1>3, <1>4, <1>5

\* The first analysis is that of a change.
LEMMA RiskStarts == RiskInit => RiskInv
  <1> SUFFICES ASSUME RiskInit PROVE RiskInv
    OBVIOUS
  <1>1. \A T : T \subseteq Nat /\ T # {} => Min(T) \in T
    <2> SUFFICES ASSUME NEW T, T \subseteq Nat, T # {} PROVE Min(T) \in T
      OBVIOUS
    <2>1. PICK m \in T : \A y \in T : ~ (<<y, m>> \in OpToRel(<, Nat))
      BY NatLessThanWellFounded, WFMin
    <2>2. m \in Nat /\ \A y \in T : y \in Nat /\ ~(y < m)
      BY <2>1 DEF OpToRel
    <2>3. \A y \in T : m <= y
      BY <2>2
    <2> QED
      BY <2>3 DEF Min
  <1>2. Min(Files) \in Files /\ Min(Lines) \in Lines
    BY <1>1, RiskAssumption
  <1> QED
    BY <1>2 DEF RiskInit, RiskInv, Change

\* Every analysis is that of a change.
LEMMA RiskStep == RiskInv /\ [RiskNext]_riskVars => RiskInv'
  <1> SUFFICES ASSUME RiskInv, [RiskNext]_riskVars PROVE RiskInv'
    OBVIOUS
  <1>1. CASE UNCHANGED riskVars
    BY <1>1 DEF riskVars, RiskInv
  <1>2. CASE RiskNext
    <2>1. ledger' = CalculateChangeRisk(change')
      BY <1>2 DEF RiskNext, Reanalyse
    <2>2. change' \in Change
      BY <1>2 DEF RiskNext, Reanalyse, RiskInv, Change
    <2> QED
      BY <2>1, <2>2 DEF RiskInv
  <1> QED
    BY <1>1, <1>2

\* For any change, any services and any flags: analysing a change that got worse
\* never lowers its score, and a critical score comes with something to do about
\* it, because size and history alone reach at most 67.
THEOREM ScoresStaySound == RiskSpec => ScoresAreSound
  <1>1. RiskInv /\ RiskInv' => MonotoneRisk /\ CriticalIsExplained'
    <2> SUFFICES ASSUME RiskInv, RiskInv' PROVE MonotoneRisk /\ CriticalIsExplained'
      OBVIOUS
    <2>1. /\ change \in Change /\ change' \in Change
          /\ ledger = CalculateChangeRisk(change)
          /\ ledger' = CalculateChangeRisk(change')
      BY DEF RiskInv
    <2>2. ledger.overall = Overall(change) /\ ledger'.overall = Overall(change')
      BY <2>1 DEF CalculateChangeRisk
    <2>3. MonotoneRisk
      <3> SUFFICES ASSUME AtLeast(change', change) PROVE ledger'.overall >= ledger.overall
        BY DEF MonotoneRisk
      <3>1. /\ Overall(change) \in 0..100 /\ Overall(change') \in 0..100
            /\ Overall(change) <= Overall(change')
        BY <2>1, OverallKeepsOrder
      <3> QED
        BY <2>2, <3>1
    <2>4. CriticalIsExplained'
      <3> SUFFICES ASSUME ledger'.level = "critical"
                   PROVE  ledger'.recommendations # {"proceed"}
        BY DEF CriticalIsExplained
      <3>1. Level(Overall(change')) = "critical"
        BY <2>1 DEF CalculateChangeRisk
      <3> QED
        BY <2>1, <3>1, CriticalExplained
    <2> QED
      BY <2>3, <2>4
  <1>2. RiskInv /\ RiskInv' /\ [RiskNext]_riskVars
          => [MonotoneRisk /\ CriticalIsExplained']_riskVars
    BY <1>1
  <1> QED
    BY <1>2, RiskStarts, RiskStep, PTL DEF RiskSpec, ScoresAreSound

-------------------------------------------------------------------------------
(* Retention *)

SweepStep == {"idle", "count", "select", "delete", "report", "done", "failed"}

SweepState ==
    [step : SweepStep, apply : BOOLEAN, counted : Nat, deleted : Nat,
     batch : SUBSET Rows]

RetentionTypes ==
    /\ present \subseteq Rows /\ gone \subseteq Rows \ present /\ IsFiniteSet(gone)
    /\ sweep \in [Sweeps -> SweepState] /\ IsFiniteSet(log)

\* A run has deleted no more than it counted and has selected no more than it
\* may still delete; only a run that was announced deletes
RunFits(r) ==
    /\ sweep[r].deleted <= sweep[r].counted
    /\ sweep[r].step \in {"idle", "count"} => sweep[r].deleted = 0
    /\ sweep[r].step = "delete" =>
         /\ IsFiniteSet(sweep[r].batch)
         /\ sweep[r].deleted + Cardinality(sweep[r].batch) <= sweep[r].counted
    /\ sweep[r].step = "select" => sweep[r].deleted < sweep[r].counted
    /\ sweep[r].step \in {"select", "delete"} \/ sweep[r].deleted > 0 => sweep[r].apply
    /\ sweep[r].apply => \E e \in log : e.event = "started" /\ e.run = r

\* What a completed run says is what it deleted
EntryFits(e) ==
    e.event = "completed" =>
      /\ e.run \in Sweeps /\ sweep[e.run].step = "done"
      /\ e = [event |-> "completed", run |-> e.run, deleted |-> sweep[e.run].deleted]

\* took says which of the deleted rows each run deleted
Portions(took) ==
    /\ \A r \in Sweeps : Cardinality(took[r]) = sweep[r].deleted
    /\ \A r, q \in Sweeps : r # q => took[r] \cap took[q] = {}
    /\ \A n \in gone : \E r \in Sweeps : n \in took[r]

RetentionInv ==
    /\ RetentionTypes
    /\ \A r \in Sweeps : RunFits(r)
    /\ \A e \in log : EntryFits(e)
    /\ \E took \in [Sweeps -> SUBSET gone] : Portions(took)

\* The oldest of a set of numbers, as many as a limit says, are no more than the
\* limit: no two of them have the same number of older ones.
LEMMA OldestAreFew ==
    ASSUME NEW S \in SUBSET Nat, IsFiniteSet(S), NEW limit \in Nat
    PROVE  LET oldest == {n \in S : Cardinality({k \in S : k < n}) < limit}
           IN  IsFiniteSet(oldest) /\ Cardinality(oldest) <= limit
  <1> DEFINE Older(n) == {k \in S : k < n}
             oldest == {n \in S : Cardinality(Older(n)) < limit}
             rank == [n \in oldest |-> Cardinality(Older(n))]
  <1>1. \A n \in S : IsFiniteSet(Older(n)) /\ Cardinality(Older(n)) \in Nat
    <2> SUFFICES ASSUME NEW n \in S
                 PROVE  IsFiniteSet(Older(n)) /\ Cardinality(Older(n)) \in Nat
      OBVIOUS
    <2>1. Older(n) \in SUBSET S
      OBVIOUS
    <2>2. IsFiniteSet(Older(n))
      BY <2>1, FS_Subset
    <2> QED
      BY <2>2, FS_CardinalityType
  <1>2. ASSUME NEW m \in S, NEW n \in S, m < n
        PROVE  Cardinality(Older(m)) # Cardinality(Older(n))
    <2>1. Older(m) \in SUBSET Older(n)
      <3>1. \A k \in S : k \in Nat
        OBVIOUS
      <3>2. \A k \in S : k < m => k < n
        BY <1>2, <3>1
      <3> QED
        BY <3>2
    <2>2. m \in Older(n) /\ m \notin Older(m)
      BY <1>2
    <2> QED
      BY <1>1, <2>1, <2>2, FS_Subset
  <1>3. limit - 1 \in Int /\ IsFiniteSet(0 .. limit - 1)
          /\ Cardinality(0 .. limit - 1) = limit
    BY FS_Interval
  <1>4. rank \in [oldest -> 0 .. limit - 1]
    <2> SUFFICES ASSUME NEW n \in oldest PROVE Cardinality(Older(n)) \in 0 .. limit - 1
      OBVIOUS
    <2>1. Cardinality(Older(n)) \in Nat /\ Cardinality(Older(n)) < limit
      BY <1>1
    <2> QED
      BY <2>1
  <1>5. \A m, n \in oldest : rank[m] = rank[n] => m = n
    <2> SUFFICES ASSUME NEW m \in oldest, NEW n \in oldest, m # n
                 PROVE  rank[m] # rank[n]
      OBVIOUS
    <2>1. m \in S /\ n \in S /\ (m < n \/ n < m)
      OBVIOUS
    <2> QED
      BY <1>2, <2>1
  <1>6. rank \in Injection(oldest, 0 .. limit - 1)
    BY <1>4, <1>5 DEF Injection, IsInjective
  <1> QED
    BY <1>3, <1>6, FS_Injection

\* The expired rows are finitely many.
LEMMA ExpiredFinite ==
    ASSUME RetentionTypes, NEW r \in Sweeps
    PROVE  /\ Expired(r) \in SUBSET Nat /\ IsFiniteSet(Expired(r))
           /\ Expired(r) \subseteq Rows /\ Cardinality(Expired(r)) \in Nat
  <1>1. Cutoffs[r] \in Nat /\ Expired(r) \in SUBSET Nat /\ Expired(r) \subseteq Rows
    BY RetentionAssumption DEF RetentionTypes, Expired
  <1>2. \A n \in Expired(r) : n <= Cutoffs[r]
    BY <1>1 DEF Expired
  <1>3. IsFiniteSet(Expired(r))
    BY <1>1, <1>2, FS_BoundedSetOfNaturals
  <1> QED
    BY <1>1, <1>3, FS_CardinalityType

\* The sum of what a set of entries says, as the fold computes it
Adding(entries, g) ==
    [s \in SUBSET entries |->
       IF s = {} THEN 0
       ELSE LET x == CHOOSE x \in s : TRUE IN x.deleted + g[s \ {x}]]

\* The fold has only one result.
LEMMA AddingIsUnique ==
    ASSUME NEW E, IsFiniteSet(E), NEW f, f = Adding(E, f), NEW g, g = Adding(E, g)
    PROVE  f[E] = g[E]
  <1> DEFINE Differ == {s \in SUBSET E : f[s] # g[s]}
  <1> SUFFICES ASSUME Differ # {} PROVE FALSE
    OBVIOUS
  <1>1. Differ \subseteq FiniteSubsetsOf(E)
    BY FS_Subset DEF FiniteSubsetsOf
  <1>2. PICK s \in Differ : \A t \in Differ : ~(<<t, s>> \in StrictSubsetOrdering(E))
    BY <1>1, FS_StrictSubsetOrderingWellFounded, WFMin
  <1> DEFINE x == CHOOSE x \in s : TRUE
  <1>3. s \in SUBSET E /\ f[s] # g[s]
    OBVIOUS
  <1>4. s # {}
    <2>1. f[{}] = 0 /\ g[{}] = 0
      BY DEF Adding
    <2> QED
      BY <1>3, <2>1
  <1>5. x \in s
    BY <1>4
  <1> HIDE DEF x
  <1>6. f[s] = x.deleted + f[s \ {x}] /\ g[s] = x.deleted + g[s \ {x}]
    BY <1>3, <1>4 DEF Adding, x
  <1>7. s \ {x} \in SUBSET E /\ f[s \ {x}] # g[s \ {x}]
    BY <1>3, <1>6
  <1>8. <<s \ {x}, s>> \in StrictSubsetOrdering(E)
    BY <1>3, <1>5 DEF StrictSubsetOrdering
  <1> QED
    BY <1>2, <1>7, <1>8

\* The entries of runs that took different rows add up to the rows they took.
LEMMA EntriesAddUp ==
    ASSUME NEW E, IsFiniteSet(E), NEW G, IsFiniteSet(G), NEW took,
           \A e \in E : took[e.run] \subseteq G /\ Cardinality(took[e.run]) = e.deleted,
           \A d, e \in E : d # e => took[d.run] \cap took[e.run] = {}
    PROVE  (CHOOSE g : g = Adding(E, g))[E] = Cardinality(UNION {took[e.run] : e \in E})
  <1> DEFINE Taken(s) == UNION {took[e.run] : e \in s}
             W == [s \in SUBSET E |-> Cardinality(Taken(s))]
             chosen == CHOOSE g : g = Adding(E, g)
  <1>1. ASSUME NEW s \in SUBSET E
        PROVE  W[s] = IF s = {} THEN 0
                      ELSE LET x == CHOOSE x \in s : TRUE IN x.deleted + W[s \ {x}]
    <2>1. CASE s = {}
      <3>1. Taken(s) = {}
        BY <2>1
      <3> QED
        BY <2>1, <3>1, FS_EmptySet
    <2>2. CASE s # {}
      <3> DEFINE x == CHOOSE x \in s : TRUE
                 rest == s \ {x}
      <3>1. x \in s
        BY <2>2
      <3> HIDE DEF x
      <3>2. x \in E /\ rest \in SUBSET E /\ s = rest \cup {x}
        BY <3>1
      <3>3. Taken(s) = took[x.run] \cup Taken(rest)
        BY <3>1
      <3>4. took[x.run] \cap Taken(rest) = {}
        BY <3>2
      <3>5. took[x.run] \in SUBSET G /\ Taken(rest) \in SUBSET G
        BY <3>2
      <3>6. IsFiniteSet(took[x.run]) /\ IsFiniteSet(Taken(rest))
        BY <3>5, FS_Subset
      <3> HIDE DEF rest, Taken
      <3>7. /\ Cardinality(took[x.run]) \in Nat /\ Cardinality(Taken(rest)) \in Nat
            /\ Cardinality({}) = 0
        BY <3>6, FS_CardinalityType, FS_EmptySet
      <3>8. Cardinality(Taken(s))
              = Cardinality(took[x.run]) + Cardinality(Taken(rest))
        <4>1. Cardinality(took[x.run] \cup Taken(rest))
                = Cardinality(took[x.run]) + Cardinality(Taken(rest))
                    - Cardinality(took[x.run] \cap Taken(rest))
          BY <3>6, FS_Union
        <4>2. Cardinality(took[x.run] \cap Taken(rest)) = 0
          BY <3>4, <3>7
        <4> QED
          BY <3>3, <3>7, <4>1, <4>2
      <3>9. Cardinality(took[x.run]) = x.deleted
        BY <3>2
      <3> QED
        BY <2>2, <3>2, <3>8, <3>9 DEF x, rest
    <2> QED
      BY <2>1, <2>2
  <1>2. W = Adding(E, W)
    <2> HIDE DEF W
    <2>1. W = [s \in SUBSET E |-> W[s]]
      BY DEF W
    <2> QED
      BY <1>1, <2>1 DEF Adding
  <1>3. chosen = Adding(E, chosen)
    BY <1>2
  <1> HIDE DEF W, chosen
  <1>4. chosen[E] = W[E]
    BY <1>2, <1>3, AddingIsUnique
  <1> QED
    BY <1>4 DEF W, chosen

\* If the runs that were announced are the completed ones, their entries add up.
LEMMA LogAddsUp == RetentionInv => DeletionsAreAccountedFor
  <1> SUFFICES ASSUME RetentionInv PROVE DeletionsAreAccountedFor
    OBVIOUS
  <1> DEFINE started == {e.run : e \in {f \in log : f.event = "started"}}
             completed == {e \in log : e.event = "completed"}
  <1>1. NoMoreThanCounted
    BY DEF NoMoreThanCounted, RetentionInv, RunFits
  <1>2. ASSUME started = {e.run : e \in completed}
        PROVE  (CHOOSE g : g = Adding(completed, g))[completed] = Cardinality(gone)
    <2>1. PICK took \in [Sweeps -> SUBSET gone] : Portions(took)
      BY DEF RetentionInv
    <2>2. IsFiniteSet(completed) /\ IsFiniteSet(gone)
      <3>1. completed \in SUBSET log /\ IsFiniteSet(log) /\ IsFiniteSet(gone)
        BY DEF RetentionInv, RetentionTypes
      <3> QED
        BY <3>1, FS_Subset
    <2>3. \A e \in completed :
            /\ e.run \in Sweeps
            /\ e = [event |-> "completed", run |-> e.run, deleted |-> sweep[e.run].deleted]
      BY DEF RetentionInv, EntryFits
    <2>4. \A e \in completed :
            took[e.run] \subseteq gone /\ Cardinality(took[e.run]) = e.deleted
      <3> SUFFICES ASSUME NEW e \in completed
                   PROVE  took[e.run] \subseteq gone /\ Cardinality(took[e.run]) = e.deleted
        OBVIOUS
      <3>1. e.run \in Sweeps /\ e.deleted = sweep[e.run].deleted
        BY <2>3
      <3> QED
        BY <2>1, <3>1 DEF Portions
    <2>5. \A d, e \in completed : d # e => took[d.run] \cap took[e.run] = {}
      <3> SUFFICES ASSUME NEW d \in completed, NEW e \in completed, d # e
                   PROVE  took[d.run] \cap took[e.run] = {}
        OBVIOUS
      <3>1. d.run \in Sweeps /\ e.run \in Sweeps /\ d.run # e.run
        BY <2>3
      <3> QED
        BY <2>1, <3>1 DEF Portions
    <2>6. UNION {took[e.run] : e \in completed} = gone
      <3>1. \A e \in completed : took[e.run] \subseteq gone
        BY <2>4
      <3>2. ASSUME NEW n \in gone PROVE \E e \in completed : n \in took[e.run]
        <4>1. PICK r \in Sweeps : n \in took[r]
          BY <2>1 DEF Portions
        <4>2. sweep[r].deleted # 0
          <5>1. took[r] \in SUBSET gone
            BY <2>1
          <5>2. IsFiniteSet(took[r])
            BY <2>2, <5>1, FS_Subset
          <5>3. Cardinality(took[r]) # 0
            BY <4>1, <5>2, FS_EmptySet
          <5> QED
            BY <2>1, <5>3 DEF Portions
        <4>3. sweep[r].deleted \in Nat
          BY DEF RetentionInv, RetentionTypes, SweepState
        <4>4. sweep[r].apply
          BY <4>2, <4>3 DEF RetentionInv, RunFits
        <4>5. r \in started
          BY <4>4 DEF RetentionInv, RunFits
        <4>6. PICK e \in completed : e.run = r
          BY <1>2, <4>5
        <4> QED
          BY <4>1, <4>6
      <3> QED
        BY <3>1, <3>2
    <2> HIDE DEF completed
    <2>7. (CHOOSE g : g = Adding(completed, g))[completed]
            = Cardinality(UNION {took[e.run] : e \in completed})
      BY <2>2, <2>4, <2>5, EntriesAddUp
    <2> QED
      BY <2>6, <2>7
  <1>3. AuditAddsUp
    BY <1>2 DEF AuditAddsUp, MapThenSumSet, MapThenFoldSet, Adding
  <1> QED
    BY <1>1, <1>3 DEF DeletionsAreAccountedFor

\* Nothing is deleted at the start.
LEMMA RetentionStarts == RetentionInit => RetentionInv
  <1> SUFFICES ASSUME RetentionInit PROVE RetentionInv
    OBVIOUS
  <1>1. RetentionTypes
    BY FS_EmptySet DEF RetentionInit, RetentionTypes, NotRun, SweepState, SweepStep
  <1>2. \A r \in Sweeps : RunFits(r)
    BY DEF RetentionInit, RunFits, NotRun
  <1>3. [r \in Sweeps |-> {}] \in [Sweeps -> SUBSET gone]
          /\ Portions([r \in Sweeps |-> {}])
    BY FS_EmptySet DEF RetentionInit, Portions, NotRun
  <1> QED
    BY <1>1, <1>2, <1>3 DEF RetentionInit, RetentionInv

\* What a step of one run must keep: the other runs, the log so far, and what
\* was deleted.
RunMoves(r, new) ==
    /\ new \in SweepState
    /\ sweep' = [sweep EXCEPT ![r] = new]
    /\ present' = present /\ gone' = gone /\ hold' = hold
    /\ new.deleted = sweep[r].deleted
    /\ sweep[r].step # "done"
    /\ log' = log \/ \E e : log' = log \cup {e}

\* A step of a run that deletes nothing keeps the invariant if the run and what
\* it adds to the log fit.
LEMMA RunMovesOn ==
    ASSUME RetentionInv, NEW r \in Sweeps, NEW new, RunMoves(r, new),
           RunFits(r)', \A e \in log' \ log : EntryFits(e)'
    PROVE  RetentionInv'
  <1>1. RetentionTypes'
    <2>1. IsFiniteSet(log')
      <3>1. IsFiniteSet(log)
        BY DEF RetentionInv, RetentionTypes
      <3> QED
        BY <3>1, FS_AddElement DEF RunMoves
    <2>2. /\ sweep' \in [Sweeps -> SweepState] /\ present' = present /\ gone' = gone
      BY DEF RunMoves, RetentionInv, RetentionTypes
    <2> QED
      BY <2>1, <2>2 DEF RetentionInv, RetentionTypes
  <1>2. sweep'[r] = new /\ \A q \in Sweeps \ {r} : sweep'[q] = sweep[q]
    BY DEF RunMoves, RetentionInv, RetentionTypes
  <1>3. log \subseteq log'
    BY DEF RunMoves
  <1>4. \A q \in Sweeps : RunFits(q)'
    <2> SUFFICES ASSUME NEW q \in Sweeps, q # r PROVE RunFits(q)'
      OBVIOUS
    <2>1. RunFits(q) /\ sweep'[q] = sweep[q]
      BY <1>2 DEF RetentionInv
    <2> QED
      BY <1>3, <2>1 DEF RunFits
  <1>5. \A e \in log' : EntryFits(e)'
    <2> SUFFICES ASSUME NEW e \in log PROVE EntryFits(e)'
      OBVIOUS
    <2>1. EntryFits(e)
      BY DEF RetentionInv
    <2>2. e.event = "completed" => e.run \in Sweeps \ {r}
      BY <2>1 DEF EntryFits, RunMoves
    <2> QED
      BY <1>2, <2>1, <2>2 DEF EntryFits
  <1>6. \E took \in [Sweeps -> SUBSET gone'] : Portions(took)'
    <2>1. PICK took \in [Sweeps -> SUBSET gone] : Portions(took)
      BY DEF RetentionInv
    <2>2. gone' = gone /\ \A q \in Sweeps : sweep'[q].deleted = sweep[q].deleted
      BY <1>2 DEF RunMoves
    <2>3. Portions(took)'
      BY <2>1, <2>2 DEF Portions
    <2> QED
      BY <2>1, <2>2, <2>3
  <1> QED
    BY <1>1, <1>4, <1>5, <1>6 DEF RetentionInv

\* A batch is no larger than what the run may still delete.
LEMMA BatchFits ==
    ASSUME RetentionInv, NEW r \in Sweeps, sweep[r].step = "select"
    PROVE  LET batch == {n \in Expired(r) :
                           Cardinality({k \in Expired(r) : k < n}) < BatchLimit(r)}
           IN  /\ batch \subseteq Rows /\ IsFiniteSet(batch)
               /\ sweep[r].deleted + Cardinality(batch) <= sweep[r].counted
  <1> DEFINE S == Expired(r)
             left == sweep[r].counted - sweep[r].deleted
  <1>1. /\ S \in SUBSET Nat /\ IsFiniteSet(S) /\ S \subseteq Rows
    BY ExpiredFinite DEF RetentionInv
  <1>2. /\ sweep[r].counted \in Nat /\ sweep[r].deleted \in Nat
        /\ sweep[r].deleted < sweep[r].counted
    BY DEF RetentionInv, RetentionTypes, SweepState, RunFits
  <1>3. left \in Nat /\ BatchSize \in Nat
    BY <1>2, RetentionAssumption
  <1> DEFINE limit == Min({BatchSize, left})
  <1>4. limit \in Nat /\ limit <= left
    <2> HIDE DEF left
    <2>1. CASE BatchSize <= left
      <3>1. limit = BatchSize
        BY <1>3, <2>1 DEF Min
      <3> QED
        BY <1>3, <2>1, <3>1
    <2>2. CASE ~(BatchSize <= left)
      <3>1. limit = left
        BY <1>3, <2>2 DEF Min
      <3> QED
        BY <1>3, <3>1
    <2> QED
      BY <2>1, <2>2
  <1>5. BatchLimit(r) = limit
    BY DEF BatchLimit
  <1> HIDE DEF S, limit
  <1> DEFINE batch == {n \in S : Cardinality({k \in S : k < n}) < limit}
  <1>6. IsFiniteSet(batch) /\ Cardinality(batch) <= limit
    BY <1>1, <1>4, OldestAreFew
  <1>7. Cardinality(batch) \in Nat
    BY <1>6, FS_CardinalityType
  <1>8. batch \subseteq Rows
    BY <1>1
  <1> HIDE DEF batch
  <1>9. sweep[r].deleted + Cardinality(batch) <= sweep[r].counted
    BY <1>2, <1>4, <1>6, <1>7
  <1> QED
    BY <1>5, <1>6, <1>8, <1>9 DEF batch, S

\* The delete of a batch keeps the invariant: what other runs deleted before it
\* is neither counted nor deleted again.
LEMMA DeleteKeeps ==
    ASSUME RetentionInv, NEW r \in Sweeps, DeleteBatch(r)
    PROVE  RetentionInv'
  <1> DEFINE victims == sweep[r].batch \cap present
             total == sweep[r].deleted + Cardinality(victims)
             next == IF total < sweep[r].counted THEN "select" ELSE "report"
             new == [sweep[r] EXCEPT !.deleted = total, !.batch = {}, !.step = next]
  <1>1. /\ RetentionTypes /\ sweep[r] \in SweepState /\ sweep[r].step = "delete"
        /\ RunFits(r)
    BY DEF RetentionInv, RetentionTypes, DeleteBatch
  <1>2. /\ sweep[r].deleted \in Nat /\ sweep[r].counted \in Nat
        /\ sweep[r].batch \subseteq Rows
    BY <1>1 DEF SweepState
  <1>3. /\ IsFiniteSet(sweep[r].batch)
        /\ sweep[r].deleted + Cardinality(sweep[r].batch) <= sweep[r].counted
        /\ sweep[r].apply /\ \E e \in log : e.event = "started" /\ e.run = r
    BY <1>1 DEF RunFits
  <1>4. /\ IsFiniteSet(victims) /\ Cardinality(victims) \in Nat
        /\ Cardinality(sweep[r].batch) \in Nat
        /\ Cardinality(victims) <= Cardinality(sweep[r].batch)
    <2>1. victims \in SUBSET sweep[r].batch
      OBVIOUS
    <2>2. IsFiniteSet(victims) /\ Cardinality(victims) <= Cardinality(sweep[r].batch)
      BY <1>3, <2>1, FS_Subset
    <2> QED
      BY <1>3, <2>2, FS_CardinalityType
  <1>5. /\ sweep' = [sweep EXCEPT ![r] = new]
        /\ present' = present \ sweep[r].batch
        /\ gone' = gone \cup victims /\ log' = log
    BY <1>1 DEF DeleteBatch, Rowcount
  <1>6. /\ victims \subseteq Rows /\ victims \cap gone = {}
        /\ victims \subseteq present
    BY <1>1, <1>2 DEF RetentionTypes
  <1> HIDE DEF victims
  <1>7. total \in Nat /\ total <= sweep[r].counted /\ total >= sweep[r].deleted
    BY <1>2, <1>3, <1>4
  <1> HIDE DEF total
  <1>8. next \in {"select", "report"} /\ (next = "select" => total < sweep[r].counted)
    OBVIOUS
  <1> HIDE DEF next
  <1>9. /\ new \in SweepState /\ new.deleted = total /\ new.counted = sweep[r].counted
        /\ new.step = next /\ new.apply = sweep[r].apply
    BY <1>1, <1>7, <1>8 DEF SweepState, SweepStep
  <1>10. sweep'[r] = new /\ \A q \in Sweeps \ {r} : sweep'[q] = sweep[q]
    BY <1>1, <1>5 DEF RetentionTypes
  <1> HIDE DEF new
  <1>11. RetentionTypes'
    <2>1. IsFiniteSet(gone')
      BY <1>1, <1>4, <1>5, FS_Union DEF RetentionTypes
    <2>2. present' \subseteq Rows /\ gone' \subseteq Rows \ present'
      <3>1. victims \subseteq sweep[r].batch
        BY DEF victims
      <3> QED
        BY <1>1, <1>5, <1>6, <3>1 DEF RetentionTypes
    <2> QED
      BY <1>1, <1>5, <1>9, <2>1, <2>2 DEF RetentionTypes
  <1>12. \A q \in Sweeps : RunFits(q)'
    <2> SUFFICES ASSUME NEW q \in Sweeps PROVE RunFits(q)'
      OBVIOUS
    <2>1. CASE q = r
      <3>1. /\ sweep'[q].deleted = total /\ sweep'[q].counted = sweep[r].counted
            /\ sweep'[q].step = next /\ sweep'[q].apply = sweep[r].apply
        BY <1>9, <1>10, <2>1
      <3> QED
        BY <1>3, <1>5, <1>7, <1>8, <2>1, <3>1 DEF RunFits
    <2>2. CASE q # r
      BY <1>5, <1>10, <2>2 DEF RetentionInv, RunFits
    <2> QED
      BY <2>1, <2>2
  <1>13. \A e \in log' : EntryFits(e)'
    <2> SUFFICES ASSUME NEW e \in log PROVE EntryFits(e)'
      BY <1>5
    <2>1. EntryFits(e)
      BY DEF RetentionInv
    <2>2. e.event = "completed" => e.run \in Sweeps \ {r}
      BY <1>1, <2>1 DEF EntryFits
    <2> QED
      BY <1>10, <2>1, <2>2 DEF EntryFits
  <1>14. \E took \in [Sweeps -> SUBSET gone'] : Portions(took)'
    <2>1. PICK took \in [Sweeps -> SUBSET gone] : Portions(took)
      BY DEF RetentionInv
    <2>2. PICK more \in [Sweeps -> SUBSET gone'] :
            more[r] = took[r] \cup victims /\ \A q \in Sweeps \ {r} : more[q] = took[q]
      <3> DEFINE m == [took EXCEPT ![r] = took[r] \cup victims]
      <3>1. m \in [Sweeps -> SUBSET gone']
        BY <1>5, <2>1
      <3>2. m[r] = took[r] \cup victims /\ \A q \in Sweeps \ {r} : m[q] = took[q]
        BY <2>1
      <3> QED
        BY <3>1, <3>2
    <2>4. \A q \in Sweeps : took[q] \cap victims = {}
      BY <1>6, <2>1
    <2>5. ASSUME NEW q \in Sweeps PROVE Cardinality(more[q]) = sweep'[q].deleted
      <3>1. CASE q = r
        <4>1. took[r] \in SUBSET gone /\ IsFiniteSet(gone)
          BY <1>1, <2>1 DEF RetentionTypes
        <4>2. IsFiniteSet(took[r])
          BY <4>1, FS_Subset
        <4>3. Cardinality(took[r] \cup victims)
                = Cardinality(took[r]) + Cardinality(victims)
                    - Cardinality(took[r] \cap victims)
          BY <1>4, <4>2, FS_Union
        <4>4. Cardinality(took[r] \cap victims) = 0
          BY <2>4, FS_EmptySet
        <4>5. Cardinality(took[r]) = sweep[r].deleted
          BY <2>1 DEF Portions
        <4>6. Cardinality(more[r]) = sweep[r].deleted + Cardinality(victims)
          BY <1>2, <1>4, <2>2, <4>3, <4>4, <4>5
        <4> QED
          BY <1>9, <1>10, <3>1, <4>6 DEF total
      <3>2. CASE q # r
        BY <1>10, <2>1, <2>2, <3>2 DEF Portions
      <3> QED
        BY <3>1, <3>2
    <2>6. ASSUME NEW p \in Sweeps, NEW q \in Sweeps, p # q
          PROVE  more[p] \cap more[q] = {}
      <3>1. took[p] \cap took[q] = {}
        BY <2>1, <2>6 DEF Portions
      <3> QED
        BY <2>2, <2>4, <2>6, <3>1
    <2>7. ASSUME NEW n \in gone' PROVE \E q \in Sweeps : n \in more[q]
      <3>1. CASE n \in victims
        BY <2>2, <3>1
      <3>2. CASE n \in gone
        <4>1. PICK q \in Sweeps : n \in took[q]
          BY <2>1, <3>2 DEF Portions
        <4> QED
          BY <2>2, <4>1
      <3> QED
        BY <1>5, <2>7, <3>1, <3>2
    <2>8. Portions(more)'
      BY <2>5, <2>6, <2>7 DEF Portions
    <2> QED
      BY <2>2, <2>8
  <1> QED
    BY <1>11, <1>12, <1>13, <1>14 DEF RetentionInv

\* Every step keeps the invariant.
LEMMA RetentionStep == RetentionInv /\ [RetentionNext]_retentionVars => RetentionInv'
  <1> SUFFICES ASSUME RetentionInv, [RetentionNext]_retentionVars PROVE RetentionInv'
    OBVIOUS
  <1>1. RetentionTypes /\ \A r \in Sweeps : RunFits(r) /\ sweep[r] \in SweepState
    BY DEF RetentionInv, RetentionTypes
  <1>2. ASSUME UNCHANGED <<gone, sweep, log>>, present' \subseteq Rows,
               present' \cap gone = {}
        PROVE  RetentionInv'
    <2>1. RetentionTypes'
      BY <1>1, <1>2 DEF RetentionTypes
    <2>2. \A r \in Sweeps : RunFits(r)'
      BY <1>1, <1>2 DEF RunFits
    <2>3. \A e \in log' : EntryFits(e)'
      BY <1>2 DEF RetentionInv, EntryFits
    <2>4. \E took \in [Sweeps -> SUBSET gone'] : Portions(took)'
      BY <1>2 DEF RetentionInv, Portions
    <2> QED
      BY <2>1, <2>2, <2>3, <2>4 DEF RetentionInv
  <1>3. CASE WriteRow
    BY <1>1, <1>2, <1>3 DEF WriteRow, RetentionTypes
  <1>4. CASE ChangeHold
    BY <1>1, <1>2, <1>4 DEF ChangeHold, RetentionTypes
  <1>5. CASE UNCHANGED retentionVars
    BY <1>1, <1>2, <1>5 DEF retentionVars, RetentionTypes
  <1>6. ASSUME NEW r \in Sweeps, StartSweep(r) PROVE RetentionInv'
    <2>1. sweep[r].step = "idle" /\ sweep[r].deleted = 0 /\ sweep[r].counted \in Nat
      BY <1>1, <1>6 DEF StartSweep, RunFits, SweepState
    <2>2. PICK new \in SweepState :
            /\ sweep' = [sweep EXCEPT ![r] = new]
            /\ new.deleted = 0 /\ new.counted = sweep[r].counted
            /\ \/ new.step = "count" /\ new.apply /\ log' = log \cup {Entry("started", r)}
               \/ /\ new.step \in {"count", "failed"} /\ new.apply = sweep[r].apply
                  /\ log' = log
      <3>1. CASE /\ sweep' = [sweep EXCEPT ![r].step = "count", ![r].apply = TRUE]
                 /\ log' = log \cup {Entry("started", r)}
        <4> DEFINE m == [sweep[r] EXCEPT !.step = "count", !.apply = TRUE]
        <4>1. m \in SweepState /\ m.deleted = 0 /\ m.counted = sweep[r].counted
                /\ m.step = "count" /\ m.apply
          BY <1>1, <2>1 DEF SweepState, SweepStep
        <4>2. sweep' = [sweep EXCEPT ![r] = m]
          BY <3>1
        <4> QED
          BY <3>1, <4>1, <4>2
      <3>2. ASSUME NEW s \in {"count", "failed"},
                   sweep' = [sweep EXCEPT ![r].step = s], log' = log
            PROVE  \E new \in SweepState :
                     /\ sweep' = [sweep EXCEPT ![r] = new]
                     /\ new.deleted = 0 /\ new.counted = sweep[r].counted
                     /\ new.step \in {"count", "failed"} /\ new.apply = sweep[r].apply
        <4> DEFINE m == [sweep[r] EXCEPT !.step = s]
        <4>1. m \in SweepState /\ m.deleted = 0 /\ m.counted = sweep[r].counted
                /\ m.step = s /\ m.apply = sweep[r].apply
          BY <1>1, <2>1 DEF SweepState, SweepStep
        <4>2. sweep' = [sweep EXCEPT ![r] = m]
          BY <3>2
        <4> QED
          BY <4>1, <4>2
      <3>3. CASE log' = log /\ \E s \in {"count", "failed"} :
                                  sweep' = [sweep EXCEPT ![r].step = s]
        BY <3>2, <3>3
      <3> QED
        BY <1>6, <3>1, <3>3 DEF StartSweep
    <2>3. RunMoves(r, new)
      BY <1>6, <2>1, <2>2 DEF RunMoves, StartSweep
    <2>4. sweep'[r] = new /\ log \subseteq log'
      BY <1>1, <2>2 DEF RetentionTypes
    <2>5. RunFits(r)'
      <3>1. new.deleted <= new.counted /\ new.step \notin {"select", "delete"}
        BY <2>1, <2>2
      <3>2. new.apply => \E e \in log' : e.event = "started" /\ e.run = r
        <4>1. CASE log' = log \cup {Entry("started", r)}
          <5>1. Entry("started", r).event = "started" /\ Entry("started", r).run = r
            BY DEF Entry
          <5> QED
            BY <4>1, <5>1
        <4>2. CASE log' = log /\ new.apply = sweep[r].apply
          BY <1>1, <4>2 DEF RunFits
        <4> QED
          BY <2>2, <4>1, <4>2
      <3> QED
        BY <2>2, <2>4, <3>1, <3>2 DEF RunFits
    <2>6. \A e \in log' \ log : EntryFits(e)'
      BY <2>2 DEF EntryFits, Entry
    <2> QED
      BY <2>3, <2>5, <2>6, RunMovesOn
  <1>7. ASSUME NEW r \in Sweeps, CountRows(r) PROVE RetentionInv'
    <2> DEFINE counted == Cardinality(Expired(r))
               next == IF ~sweep[r].apply THEN "done"
                       ELSE IF counted = 0 THEN "report" ELSE "select"
               new == [sweep[r] EXCEPT !.counted = counted, !.step = next]
    <2>1. sweep[r].step = "count" /\ sweep[r].deleted = 0 /\ sweep[r].apply \in BOOLEAN
      BY <1>1, <1>7 DEF CountRows, RunFits, SweepState
    <2>2. counted \in Nat
      BY <1>1, ExpiredFinite
    <2>3. sweep' = [sweep EXCEPT ![r] = new]
      BY <1>7 DEF CountRows
    <2> HIDE DEF counted
    <2>4. /\ next \in {"done", "report", "select"}
          /\ next = "select" => sweep[r].apply /\ counted # 0
      OBVIOUS
    <2> HIDE DEF next
    <2>5. /\ new \in SweepState /\ new.deleted = 0 /\ new.counted = counted
          /\ new.step = next /\ new.apply = sweep[r].apply
      BY <1>1, <2>1, <2>2, <2>4 DEF SweepState, SweepStep
    <2>6. sweep'[r] = new
      BY <1>1, <2>3 DEF RetentionTypes
    <2> HIDE DEF new
    <2>7. RunMoves(r, new) /\ log' = log
      BY <1>7, <2>1, <2>3, <2>5 DEF RunMoves, CountRows
    <2>8. RunFits(r)'
      BY <1>1, <2>1, <2>2, <2>4, <2>5, <2>6, <2>7 DEF RunFits
    <2> QED
      BY <2>7, <2>8, RunMovesOn
  <1>8. ASSUME NEW r \in Sweeps, SelectBatch(r) PROVE RetentionInv'
    <2> DEFINE batch == {n \in Expired(r) :
                           Cardinality({k \in Expired(r) : k < n}) < BatchLimit(r)}
               next == IF batch = {} THEN "report" ELSE "delete"
               new == [sweep[r] EXCEPT !.batch = batch, !.step = next]
    <2>1. sweep[r].step = "select"
      BY <1>8 DEF SelectBatch
    <2>2. /\ batch \subseteq Rows /\ IsFiniteSet(batch)
          /\ sweep[r].deleted + Cardinality(batch) <= sweep[r].counted
      BY <2>1, BatchFits
    <2>3. sweep' = [sweep EXCEPT ![r] = new]
      BY <1>8 DEF SelectBatch
    <2> HIDE DEF batch
    <2>4. next \in {"report", "delete"}
      OBVIOUS
    <2> HIDE DEF next
    <2>5. /\ new \in SweepState /\ new.deleted = sweep[r].deleted
          /\ new.counted = sweep[r].counted /\ new.batch = batch
          /\ new.step = next /\ new.apply = sweep[r].apply
      BY <1>1, <2>2, <2>4 DEF SweepState, SweepStep
    <2>6. sweep'[r] = new
      BY <1>1, <2>3 DEF RetentionTypes
    <2> HIDE DEF new
    <2>7. RunMoves(r, new) /\ log' = log
      BY <1>8, <2>1, <2>3, <2>5 DEF RunMoves, SelectBatch
    <2>8. RunFits(r)'
      BY <1>1, <2>1, <2>2, <2>4, <2>5, <2>6, <2>7 DEF RunFits
    <2> QED
      BY <2>7, <2>8, RunMovesOn
  <1>9. ASSUME NEW r \in Sweeps, ReportSweep(r) PROVE RetentionInv'
    <2> DEFINE new == [sweep[r] EXCEPT !.step = "done"]
    <2>1. sweep[r].step = "report"
      BY <1>9 DEF ReportSweep
    <2>2. sweep' = [sweep EXCEPT ![r] = new] /\ log' = log \cup {Entry("completed", r)}
      BY <1>9 DEF ReportSweep
    <2>3. /\ new \in SweepState /\ new.deleted = sweep[r].deleted
          /\ new.counted = sweep[r].counted /\ new.step = "done"
          /\ new.apply = sweep[r].apply
      BY <1>1 DEF SweepState, SweepStep
    <2>4. sweep'[r] = new
      BY <1>1, <2>2 DEF RetentionTypes
    <2> HIDE DEF new
    <2>5. RunMoves(r, new)
      BY <1>9, <2>1, <2>2, <2>3 DEF RunMoves, ReportSweep
    <2>6. RunFits(r)'
      BY <1>1, <2>1, <2>2, <2>3, <2>4 DEF RunFits
    <2>7. \A e \in log' \ log : EntryFits(e)'
      BY <2>2, <2>3, <2>4 DEF EntryFits, Entry
    <2> QED
      BY <2>5, <2>6, <2>7, RunMovesOn
  <1>10. ASSUME NEW r \in Sweeps, FailSweep(r) PROVE RetentionInv'
    <2> DEFINE new == [sweep[r] EXCEPT !.step = "failed", !.batch = {}]
    <2>1. sweep[r].step \in {"count", "select", "delete", "report"}
      BY <1>10 DEF FailSweep
    <2>2. /\ sweep' = [sweep EXCEPT ![r] = new]
          /\ log' = log \/ log' = log \cup {[Entry("failed", r) EXCEPT !.deleted = 0]}
      BY <1>10 DEF FailSweep
    <2>3. /\ new \in SweepState /\ new.deleted = sweep[r].deleted
          /\ new.counted = sweep[r].counted /\ new.step = "failed"
          /\ new.apply = sweep[r].apply
      BY <1>1 DEF SweepState, SweepStep
    <2>4. sweep'[r] = new
      BY <1>1, <2>2 DEF RetentionTypes
    <2> HIDE DEF new
    <2>5. RunMoves(r, new)
      BY <1>10, <2>1, <2>2, <2>3 DEF RunMoves, FailSweep
    <2>6. RunFits(r)'
      BY <1>1, <2>1, <2>2, <2>3, <2>4 DEF RunFits
    <2>7. \A e \in log' \ log : EntryFits(e)'
      BY <2>2 DEF EntryFits, Entry
    <2> QED
      BY <2>5, <2>6, <2>7, RunMovesOn
  <1> QED
    BY <1>3, <1>4, <1>5, <1>6, <1>7, <1>8, <1>9, <1>10, DeleteKeeps DEF RetentionNext

\* However many runs of the retention script overlap, on however many rows, and
\* whatever the application writes meanwhile: a run deletes no more than it
\* counted, and when every run that was announced has completed, the numbers in
\* the audit log add up to the rows that are gone.
THEOREM DeletionsStayAccountedFor == RetentionSpec => []DeletionsAreAccountedFor
  <1> QED
    BY LogAddsUp, RetentionStarts, RetentionStep, PTL DEF RetentionSpec

-------------------------------------------------------------------------------
(* DoraMetrics *)

\* The sum of a function over a set, as the fold computes it
Totalling(f, S, g) ==
    [s \in SUBSET S |->
       IF s = {} THEN 0
       ELSE LET x == CHOOSE x \in s : TRUE IN f[x] + g[s \ {x}]]

Total(f, S) == (CHOOSE g : g = Totalling(f, S, g))[S]

\* The same, for the subsets of at most n elements
TotallingUpTo(n, f, S, g) ==
    [s \in {t \in SUBSET S : Cardinality(t) <= n} |->
       IF s = {} THEN 0
       ELSE LET x == CHOOSE x \in s : TRUE IN f[x] + g[s \ {x}]]

\* A finite set can be summed up, one size of subsets after the other.
LEMMA TotalExists ==
    ASSUME NEW f, NEW S, IsFiniteSet(S)
    PROVE  \E g : g = Totalling(f, S, g)
  <1> DEFINE Missing == {n \in Nat : ~ \E g : g = TotallingUpTo(n, f, S, g)}
  <1>1. \A s \in SUBSET S :
          /\ IsFiniteSet(s) /\ Cardinality(s) \in Nat
          /\ Cardinality(s) <= Cardinality(S)
          /\ Cardinality(s) = 0 <=> s = {}
          /\ \A x \in s : Cardinality(s \ {x}) = Cardinality(s) - 1
    <2> SUFFICES ASSUME NEW s \in SUBSET S
                 PROVE  /\ IsFiniteSet(s) /\ Cardinality(s) \in Nat
                        /\ Cardinality(s) <= Cardinality(S)
                        /\ Cardinality(s) = 0 <=> s = {}
                        /\ \A x \in s : Cardinality(s \ {x}) = Cardinality(s) - 1
      OBVIOUS
    <2>1. IsFiniteSet(s) /\ Cardinality(s) <= Cardinality(S)
      BY FS_Subset
    <2> QED
      BY <2>1, FS_CardinalityType, FS_EmptySet, FS_RemoveElement
  <1>2. Missing = {}
    <2> SUFFICES ASSUME Missing # {} PROVE FALSE
      OBVIOUS
    <2>1. PICK n \in Missing : \A m \in Missing : ~(<<m, n>> \in OpToRel(<, Nat))
      BY NatLessThanWellFounded, WFMin
    <2>2. n \in Nat
      OBVIOUS
    <2>3. \A m \in Nat : m < n => m \notin Missing
      BY <2>1, <2>2 DEF OpToRel
    <2>4. CASE n = 0
      <3> DEFINE g == [s \in {t \in SUBSET S : Cardinality(t) <= 0} |-> 0]
      <3>1. \A s \in SUBSET S : Cardinality(s) <= 0 => s = {}
        BY <1>1
      <3>2. g = TotallingUpTo(0, f, S, g)
        BY <3>1 DEF TotallingUpTo
      <3> QED
        BY <2>4, <3>2
    <2>5. CASE n # 0
      <3>1. n - 1 \in Nat /\ n - 1 < n
        BY <2>2, <2>5
      <3>2. PICK g : g = TotallingUpTo(n - 1, f, S, g)
        BY <2>3, <3>1
      <3> DEFINE h == TotallingUpTo(n, f, S, g)
                 Small == {t \in SUBSET S : Cardinality(t) <= n}
      <3>3. \A s \in Small : Cardinality(s) <= n - 1 => h[s] = g[s]
        <4> SUFFICES ASSUME NEW s \in Small, Cardinality(s) <= n - 1 PROVE h[s] = g[s]
          OBVIOUS
        <4>1. s \in {t \in SUBSET S : Cardinality(t) <= n - 1}
          OBVIOUS
        <4> QED
          BY <3>2, <4>1 DEF TotallingUpTo
      <3>4. ASSUME NEW s \in Small, s # {}
            PROVE  LET x == CHOOSE x \in s : TRUE IN h[s \ {x}] = g[s \ {x}]
        <4> DEFINE x == CHOOSE x \in s : TRUE
        <4>1. x \in s
          BY <3>4
        <4> HIDE DEF x
        <4>2. s \in SUBSET S /\ s \ {x} \in SUBSET S
          OBVIOUS
        <4>3. Cardinality(s \ {x}) = Cardinality(s) - 1 /\ Cardinality(s) \in Nat
          BY <1>1, <4>1, <4>2
        <4>4. Cardinality(s) <= n
          OBVIOUS
        <4>5. Cardinality(s \ {x}) <= n - 1 /\ Cardinality(s \ {x}) <= n
          BY <2>2, <4>3, <4>4
        <4>6. s \ {x} \in Small
          BY <4>2, <4>5
        <4>7. h[s \ {x}] = g[s \ {x}]
          BY <3>3, <4>5, <4>6
        <4> QED
          BY <4>7 DEF x
      <3>5. h = TotallingUpTo(n, f, S, h)
        <4> HIDE DEF h
        <4>1. h = TotallingUpTo(n, f, S, g)
          BY DEF h
        <4>2. ASSUME NEW s \in Small
              PROVE  h[s] = IF s = {} THEN 0
                            ELSE LET x == CHOOSE x \in s : TRUE IN f[x] + h[s \ {x}]
          <5>1. h[s] = IF s = {} THEN 0
                       ELSE LET x == CHOOSE x \in s : TRUE IN f[x] + g[s \ {x}]
            BY <4>1 DEF TotallingUpTo
          <5> QED
            BY <3>4, <5>1
        <4>3. h = [s \in Small |-> h[s]]
          BY <4>1 DEF TotallingUpTo
        <4> QED
          BY <4>2, <4>3 DEF TotallingUpTo
      <3> QED
        BY <3>5
    <2> QED
      BY <2>4, <2>5
  <1>3. Cardinality(S) \in Nat
    BY FS_CardinalityType
  <1>4. PICK g : g = TotallingUpTo(Cardinality(S), f, S, g)
    BY <1>2, <1>3
  <1>5. {t \in SUBSET S : Cardinality(t) <= Cardinality(S)} = SUBSET S
    BY <1>1
  <1>6. g = Totalling(f, S, g)
    BY <1>4, <1>5 DEF TotallingUpTo, Totalling
  <1> QED
    BY <1>6

\* It has only one sum.
LEMMA TotalIsUnique ==
    ASSUME NEW f, NEW S, IsFiniteSet(S), NEW g, g = Totalling(f, S, g),
           NEW h, h = Totalling(f, S, h)
    PROVE  g[S] = h[S]
  <1> DEFINE Differ == {s \in SUBSET S : g[s] # h[s]}
  <1> SUFFICES ASSUME Differ # {} PROVE FALSE
    OBVIOUS
  <1>1. Differ \subseteq FiniteSubsetsOf(S)
    BY FS_Subset DEF FiniteSubsetsOf
  <1>2. PICK s \in Differ : \A t \in Differ : ~(<<t, s>> \in StrictSubsetOrdering(S))
    BY <1>1, FS_StrictSubsetOrderingWellFounded, WFMin
  <1> DEFINE x == CHOOSE x \in s : TRUE
  <1>3. s \in SUBSET S /\ g[s] # h[s]
    OBVIOUS
  <1>4. s # {}
    <2>1. g[{}] = 0 /\ h[{}] = 0
      BY DEF Totalling
    <2> QED
      BY <1>3, <2>1
  <1>5. x \in s
    BY <1>4
  <1> HIDE DEF x
  <1>6. g[s] = f[x] + g[s \ {x}] /\ h[s] = f[x] + h[s \ {x}]
    BY <1>3, <1>4 DEF Totalling, x
  <1>7. s \ {x} \in SUBSET S /\ g[s \ {x}] # h[s \ {x}]
    BY <1>3, <1>6
  <1>8. <<s \ {x}, s>> \in StrictSubsetOrdering(S)
    BY <1>3, <1>5 DEF StrictSubsetOrdering
  <1> QED
    BY <1>2, <1>7, <1>8

\* Natural numbers add up to a natural number.
LEMMA TotalIsNatural ==
    ASSUME NEW S, IsFiniteSet(S), NEW f, \A x \in S : f[x] \in Nat
    PROVE  Total(f, S) \in Nat
  <1> DEFINE g == CHOOSE g : g = Totalling(f, S, g)
             Wrong == {s \in SUBSET S : g[s] \notin Nat}
  <1>1. g = Totalling(f, S, g)
    BY TotalExists
  <1> HIDE DEF g
  <1>2. Wrong = {}
    <2> SUFFICES ASSUME Wrong # {} PROVE FALSE
      OBVIOUS
    <2>1. Wrong \subseteq FiniteSubsetsOf(S)
      BY FS_Subset DEF FiniteSubsetsOf
    <2>2. PICK s \in Wrong : \A t \in Wrong : ~(<<t, s>> \in StrictSubsetOrdering(S))
      BY <2>1, FS_StrictSubsetOrderingWellFounded, WFMin
    <2> DEFINE x == CHOOSE x \in s : TRUE
    <2>3. s \in SUBSET S /\ g[s] \notin Nat
      OBVIOUS
    <2>4. s # {}
      <3>1. g[{}] = 0
        BY <1>1 DEF Totalling
      <3> QED
        BY <2>3, <3>1
    <2>5. x \in s
      BY <2>4
    <2> HIDE DEF x
    <2>6. g[s] = f[x] + g[s \ {x}]
      BY <1>1, <2>3, <2>4 DEF Totalling, x
    <2>7. f[x] \in Nat /\ s \ {x} \in SUBSET S
      BY <2>3, <2>5
    <2>8. <<s \ {x}, s>> \in StrictSubsetOrdering(S)
      BY <2>3, <2>5 DEF StrictSubsetOrdering
    <2>9. g[s \ {x}] \in Nat
      BY <2>2, <2>7, <2>8
    <2> QED
      BY <2>3, <2>6, <2>7, <2>9
  <1>3. g[S] \in Nat
    BY <1>2
  <1> QED
    BY <1>3 DEF Total, g

\* What is added up is what the metrics add up
LeadFolds ==
    \A S : IsFiniteSet(S) =>
      MapThenSumSet(LeadTime, S) = Total([d \in S |-> LeadTime(d)], S)

RestoreFolds ==
    \A S : IsFiniteSet(S) =>
      MapThenSumSet(RestoreTime, S) = Total([i \in S |-> RestoreTime(i)], S)

\* The sum of the lead times is the sum of a function.
LEMMA LeadIsTotal == LeadFolds
  <1> SUFFICES ASSUME NEW S, IsFiniteSet(S)
               PROVE  MapThenSumSet(LeadTime, S) = Total([d \in S |-> LeadTime(d)], S)
    BY DEF LeadFolds
  <1> DEFINE f == [d \in S |-> LeadTime(d)]
             Body(g) == [s \in SUBSET S |->
                           IF s = {} THEN 0
                           ELSE LET x == CHOOSE x \in s : TRUE
                                IN  LeadTime(x) + g[s \ {x}]]
             c == CHOOSE g : g = Body(g)
             t == CHOOSE g : g = Totalling(f, S, g)
  <1>1. ASSUME NEW g PROVE Body(g) = Totalling(f, S, g)
    <2>1. ASSUME NEW s \in SUBSET S, s # {}
          PROVE  LET x == CHOOSE x \in s : TRUE IN f[x] = LeadTime(x)
      <3>1. (CHOOSE x \in s : TRUE) \in S
        BY <2>1
      <3> QED
        BY <3>1
    <2> HIDE DEF f
    <2> QED
      BY <2>1 DEF Totalling
  <1>2. t = Totalling(f, S, t)
    BY TotalExists
  <1> HIDE DEF t, f, Body
  <1>3. t = Body(t)
    BY <1>1, <1>2
  <1>4. c = Body(c)
    BY <1>3
  <1> HIDE DEF c
  <1>5. c = Totalling(f, S, c)
    BY <1>1, <1>4
  <1>6. c[S] = t[S]
    BY <1>2, <1>5, TotalIsUnique
  <1>7. MapThenSumSet(LeadTime, S) = c[S]
    BY DEF MapThenSumSet, MapThenFoldSet, c, Body
  <1> QED
    BY <1>6, <1>7 DEF Total, t, f

\* So is the sum of the restore times.
LEMMA RestoreIsTotal == RestoreFolds
  <1> SUFFICES ASSUME NEW S, IsFiniteSet(S)
               PROVE  MapThenSumSet(RestoreTime, S) = Total([i \in S |-> RestoreTime(i)], S)
    BY DEF RestoreFolds
  <1> DEFINE f == [i \in S |-> RestoreTime(i)]
             Body(g) == [s \in SUBSET S |->
                           IF s = {} THEN 0
                           ELSE LET x == CHOOSE x \in s : TRUE
                                IN  RestoreTime(x) + g[s \ {x}]]
             c == CHOOSE g : g = Body(g)
             t == CHOOSE g : g = Totalling(f, S, g)
  <1>1. ASSUME NEW g PROVE Body(g) = Totalling(f, S, g)
    <2>1. ASSUME NEW s \in SUBSET S, s # {}
          PROVE  LET x == CHOOSE x \in s : TRUE IN f[x] = RestoreTime(x)
      <3>1. (CHOOSE x \in s : TRUE) \in S
        BY <2>1
      <3> QED
        BY <3>1
    <2> HIDE DEF f
    <2> QED
      BY <2>1 DEF Totalling
  <1>2. t = Totalling(f, S, t)
    BY TotalExists
  <1> HIDE DEF t, f, Body
  <1>3. t = Body(t)
    BY <1>1, <1>2
  <1>4. c = Body(c)
    BY <1>3
  <1> HIDE DEF c
  <1>5. c = Totalling(f, S, c)
    BY <1>1, <1>4
  <1>6. c[S] = t[S]
    BY <1>2, <1>5, TotalIsUnique
  <1>7. MapThenSumSet(RestoreTime, S) = c[S]
    BY DEF MapThenSumSet, MapThenFoldSet, c, Body
  <1> QED
    BY <1>6, <1>7 DEF Total, t, f

\* The rows, whatever they are
DoraTypes ==
    /\ deploys \in [Deploys -> DeployRow \cup {Absent}]
    /\ outages \in [Outages -> OutageRow \cup {Absent}]

\* The changes with a lead time and the incidents with a restore time
Measured == {d \in Deployed : Marks(d) # {}}

RestoredOnes ==
    {i \in Seen : Restored(i) # None /\ Restored(i) >= outages[i].started}

\* RatesAreRates, of any response
RatesOf(m) ==
    /\ m.failures <= m.deployments /\ m.rollbacks <= m.deployments
    /\ m.lead.count <= m.deployments /\ m.restore.count <= m.incidents
    /\ m.lead.sum >= 0 /\ m.restore.sum >= 0

\* Every row is synthetic or absent
Synthetic ==
    \A r \in {deploys[d] : d \in Deploys} \cup {outages[i] : i \in Outages} :
      r.mode # "connected"

\* The last response was one of these rows, and still is the one a request
\* would get if they are a demonstration
DoraInv == DoraTypes /\ RatesOf(metrics) /\ (Synthetic => metrics = Metrics)

\* What the metrics count is finite.
LEMMA CountedIsFinite ==
    /\ IsFiniteSet(Deployed) /\ IsFiniteSet(Seen) /\ IsFiniteSet(Measured)
    /\ IsFiniteSet(RestoredOnes)
  <1>1. /\ Deployed \in SUBSET Deploys /\ Seen \in SUBSET Outages
        /\ Measured \in SUBSET Deploys /\ RestoredOnes \in SUBSET Outages
    BY DEF Deployed, Seen, Measured, RestoredOnes
  <1> QED
    BY <1>1, DoraAssumption, FS_Subset

\* The metrics, with the sums written as sums of functions
MetricsFit ==
    Metrics = [deployments |-> Cardinality(Deployed),
               failures |-> Cardinality(Failed),
               rollbacks |-> Cardinality({d \in Deployed :
                                            deploys[d].status = "rolled_back"}),
               incidents |-> Cardinality(Seen),
               lead |-> [sum |-> Total([d \in Measured |-> LeadTime(d)], Measured),
                         count |-> Cardinality(Measured)],
               restore |-> [sum |-> Total([i \in RestoredOnes |-> RestoreTime(i)],
                                          RestoredOnes),
                            count |-> Cardinality(RestoredOnes)]]

\* This is what get_dora_metrics answers.
LEMMA MetricsAre == MetricsFit
  <1>1. /\ MapThenSumSet(LeadTime, Measured)
             = Total([d \in Measured |-> LeadTime(d)], Measured)
        /\ MapThenSumSet(RestoreTime, RestoredOnes)
             = Total([i \in RestoredOnes |-> RestoreTime(i)], RestoredOnes)
    BY CountedIsFinite, LeadIsTotal, RestoreIsTotal DEF LeadFolds, RestoreFolds
  <1> QED
    BY <1>1 DEF MetricsFit, Metrics, Measured, RestoredOnes

\* Lead times and restore times are natural numbers.
LEMMA DurationsAreNatural ==
    ASSUME DoraTypes
    PROVE  /\ \A d \in Measured : LeadTime(d) \in Nat
           /\ \A i \in RestoredOnes : RestoreTime(i) \in Nat
  <1>1. ASSUME NEW d \in Measured PROVE LeadTime(d) \in Nat
    <2> DEFINE marks == Marks(d)
               made == deploys[d].created
    <2>1. d \in Deploys /\ deploys[d] \in DeployRow /\ marks # {}
      BY DEF Measured, Deployed, DoraTypes
    <2>2. made \in Nat
      BY <2>1, DoraAssumption DEF DeployRow, Times
    <2>3. \A m \in marks : m \in Nat /\ m >= made
      <3> SUFFICES ASSUME NEW m \in marks PROVE m \in Nat /\ m >= made
        OBVIOUS
      <3>1. PICK i \in Seen : m = outages[i].deployMark
        BY DEF Marks
      <3>2. outages[i] \in OutageRow
        BY DEF Seen, DoraTypes
      <3>3. m \in Times
        BY <3>1, <3>2 DEF Marks, OutageRow
      <3> QED
        BY <3>3, DoraAssumption DEF Marks, Times
    <2> HIDE DEF marks, made
    <2>4. PICK m \in marks : \A n \in marks : ~(<<n, m>> \in OpToRel(<, Nat))
      BY <2>1, <2>3, NatLessThanWellFounded, WFMin
    <2>5. ASSUME NEW n \in marks PROVE m <= n
      <3>1. m \in Nat /\ n \in Nat
        BY <2>3
      <3>2. ~(n < m)
        BY <2>4, <3>1 DEF OpToRel
      <3> QED
        BY <3>1, <3>2
    <2>6. Min(marks) \in marks
      BY <2>5 DEF Min
    <2>7. LeadTime(d) = Min(marks) - made
      BY DEF LeadTime, marks, made
    <2>8. Min(marks) \in Nat /\ Min(marks) >= made
      BY <2>3, <2>6
    <2> QED
      BY <2>2, <2>7, <2>8
  <1>2. ASSUME NEW i \in RestoredOnes PROVE RestoreTime(i) \in Nat
    <2>1. /\ outages[i] \in OutageRow /\ Restored(i) # None
          /\ Restored(i) >= outages[i].started
      BY DEF RestoredOnes, Seen, DoraTypes
    <2>2. outages[i].started \in Nat
      BY <2>1, DoraAssumption DEF OutageRow, Times
    <2>3. Restored(i) \in Times
      BY <2>1 DEF Restored, OutageRow
    <2>4. Restored(i) \in Nat
      BY <2>3, DoraAssumption DEF Times
    <2> QED
      BY <2>1, <2>2, <2>4 DEF RestoreTime
  <1> QED
    BY <1>1, <1>2

\* The metrics of any rows are rates and durations.
LEMMA MetricsAreRates == ASSUME DoraTypes PROVE RatesOf(Metrics)
  <1>1. /\ IsFiniteSet(Deployed) /\ IsFiniteSet(Seen) /\ IsFiniteSet(Measured)
        /\ IsFiniteSet(RestoredOnes)
    BY CountedIsFinite
  <1> DEFINE back == {d \in Deployed : deploys[d].status = "rolled_back"}
  <1>2. /\ Failed \in SUBSET Deployed /\ back \in SUBSET Deployed
        /\ Measured \in SUBSET Deployed /\ RestoredOnes \in SUBSET Seen
    BY DEF Failed, Measured, RestoredOnes
  <1>3. /\ Cardinality(Failed) <= Cardinality(Deployed)
        /\ Cardinality(back) <= Cardinality(Deployed)
        /\ Cardinality(Measured) <= Cardinality(Deployed)
        /\ Cardinality(RestoredOnes) <= Cardinality(Seen)
    BY <1>1, <1>2, FS_Subset
  <1> DEFINE leads == [d \in Measured |-> LeadTime(d)]
             restores == [i \in RestoredOnes |-> RestoreTime(i)]
  <1>4. Total(leads, Measured) \in Nat
    <2>1. \A d \in Measured : leads[d] \in Nat
      BY DurationsAreNatural
    <2> HIDE DEF leads
    <2> QED
      BY <1>1, <2>1, TotalIsNatural
  <1>5. Total(restores, RestoredOnes) \in Nat
    <2>1. \A i \in RestoredOnes : restores[i] \in Nat
      BY DurationsAreNatural
    <2> HIDE DEF restores
    <2> QED
      BY <1>1, <2>1, TotalIsNatural
  <1>6. Total(leads, Measured) >= 0 /\ Total(restores, RestoredOnes) >= 0
    BY <1>4, <1>5
  <1> QED
    BY <1>3, <1>6, MetricsAre DEF RatesOf, MetricsFit

\* Time alone changes nothing if it does not change which rows count.
LEMMA SameRowsSameMetrics ==
    ASSUME deploys' = deploys, outages' = outages, Deployed' = Deployed, Seen' = Seen,
           MetricsFit, MetricsFit'
    PROVE  Metrics' = Metrics
  <1>1. Failed' = Failed
    BY DEF Failed
  <1>2. \A d : Marks(d)' = Marks(d)
    BY DEF Marks
  <1>3. Measured' = Measured
    BY <1>2 DEF Measured
  <1>4. \A d : LeadTime(d)' = LeadTime(d)
    BY <1>2 DEF LeadTime
  <1>5. \A i : Restored(i)' = Restored(i)
    BY DEF Restored
  <1>6. RestoredOnes' = RestoredOnes
    BY <1>5 DEF RestoredOnes
  <1>7. \A i : RestoreTime(i)' = RestoreTime(i)
    BY <1>5 DEF RestoreTime
  <1>8. [d \in Measured |-> LeadTime(d)]' = [d \in Measured |-> LeadTime(d)]
    BY <1>3, <1>4
  <1>9. [i \in RestoredOnes |-> RestoreTime(i)]'
          = [i \in RestoredOnes |-> RestoreTime(i)]
    BY <1>6, <1>7
  <1>10. {d \in Deployed : deploys[d].status = "rolled_back"}'
           = {d \in Deployed : deploys[d].status = "rolled_back"}
    OBVIOUS
  <1> QED
    BY <1>1, <1>3, <1>6, <1>8, <1>9, <1>10 DEF MetricsFit

\* The window of a demonstration does not move, or there is nothing in it.
LEMMA SyntheticStays ==
    ASSUME DoraTypes, Synthetic, deploys' = deploys, outages' = outages
    PROVE  Deployed' = Deployed /\ Seen' = Seen
  <1> DEFINE all == {deploys[d] : d \in Deploys} \cup {outages[i] : i \in Outages}
             there == all \ {Absent}
  <1>1. CASE there = {}
    <2>1. \A d \in Deploys : deploys[d] = Absent
      BY <1>1
    <2>2. \A i \in Outages : outages[i] = Absent
      BY <1>1
    <2>3. Deployed = {} /\ Seen = {} /\ Deployed' = {} /\ Seen' = {}
      BY <2>1, <2>2 DEF Deployed, Seen
    <2> QED
      BY <2>3
  <1>2. CASE there # {}
    <2>1. \A r \in there : r.mode = "synthetic"
      <3> SUFFICES ASSUME NEW r \in there PROVE r.mode = "synthetic"
        OBVIOUS
      <3>1. r \in DeployRow \cup OutageRow /\ r.mode # "connected"
        BY DEF DoraTypes, Synthetic
      <3> QED
        BY <3>1 DEF DeployRow, OutageRow
    <2> DEFINE newest ==
                 Max({deploys[d].created : d \in {e \in Deploys : deploys[e] # Absent}}
                     \cup {outages[i].started : i \in {o \in Outages : outages[o] # Absent}})
    <2>2. WindowEnd = newest
      BY <1>2, <2>1 DEF WindowEnd
    <2>3. WindowEnd' = newest
      BY <1>2, <2>1 DEF WindowEnd
    <2> QED
      BY <2>2, <2>3 DEF Deployed, Seen, InWindow
  <1> QED
    BY <1>1, <1>2

\* A day that passes and a request that is answered keep the invariant.
LEMMA DoraStep == DoraInv /\ [DoraNext]_doraVars /\ MetricsFit /\ MetricsFit' => DoraInv'
  <1> SUFFICES ASSUME DoraInv, [DoraNext]_doraVars, MetricsFit, MetricsFit' PROVE DoraInv'
    OBVIOUS
  <1>1. deploys' = deploys /\ outages' = outages /\ (metrics' = metrics \/ metrics' = Metrics)
    BY DEF DoraNext, AskMetrics, NextDay, doraVars
  <1>2. DoraTypes /\ DoraTypes'
    BY <1>1 DEF DoraInv, DoraTypes
  <1>3. RatesOf(metrics')
    BY <1>1, <1>2, MetricsAreRates DEF DoraInv
  <1>4. ASSUME Synthetic' PROVE metrics' = Metrics'
    <2>1. Synthetic
      BY <1>1, <1>4 DEF Synthetic
    <2>2. Metrics' = Metrics
      BY <1>1, <1>2, <2>1, SyntheticStays, SameRowsSameMetrics
    <2> QED
      BY <1>1, <2>1, <2>2 DEF DoraInv
  <1> QED
    BY <1>2, <1>3, <1>4 DEF DoraInv, RatesOf

\* Whatever rows get_dora_metrics finds, and however many: its rates are rates,
\* its durations are not negative, and the metrics of a dataset that is synthetic
\* throughout do not change as time passes.
THEOREM MetricsStayCoherent == DoraSpec => []MetricsAreCoherent
  <1>1. DoraInit => DoraInv
    <2> SUFFICES ASSUME DoraInit PROVE DoraInv
      OBVIOUS
    <2>1. DoraTypes /\ metrics = Metrics
      BY DEF DoraInit, DoraTypes
    <2> QED
      BY <2>1, MetricsAreRates DEF DoraInv
  <1>2. DoraInv => MetricsAreCoherent
    BY DEF DoraInv, RatesOf, MetricsAreCoherent, RatesAreRates, SyntheticStandsStill, Synthetic
  <1> QED
    BY <1>1, <1>2, DoraStep, MetricsAre, PTL DEF DoraSpec

-------------------------------------------------------------------------------
(* Sorting *)

\* R puts the elements of S in an order
Orders(R, S) ==
    /\ \A x \in S : <<x, x>> \notin R
    /\ \A x, y \in S : x # y => <<x, y>> \in R \/ <<y, x>> \in R
    /\ \A x, y, z \in S : <<x, y>> \in R /\ <<y, z>> \in R => <<x, z>> \in R

\* s has the elements of S in the order R
Lists(s, R, S) ==
    /\ s \in [1..Cardinality(S) -> S]
    /\ \A i, j \in 1..Cardinality(S) : i < j => <<s[i], s[j]>> \in R

\* Those that come before x
Earlier(x, R, S) == {y \in S : <<y, x>> \in R}

\* Those that come before an element are fewer than those that come before a
\* later one.
LEMMA EarlierGrows ==
    ASSUME NEW S, IsFiniteSet(S), NEW R, Orders(R, S), NEW x \in S
    PROVE  /\ Cardinality(Earlier(x, R, S)) \in Nat
           /\ Cardinality(Earlier(x, R, S)) < Cardinality(S)
           /\ \A y \in S : <<x, y>> \in R =>
                Cardinality(Earlier(x, R, S)) < Cardinality(Earlier(y, R, S))
  <1>1. \A z \in S : IsFiniteSet(Earlier(z, R, S))
    <2> SUFFICES ASSUME NEW z \in S PROVE IsFiniteSet(Earlier(z, R, S))
      OBVIOUS
    <2>1. Earlier(z, R, S) \in SUBSET S
      BY DEF Earlier
    <2> QED
      BY <2>1, FS_Subset
  <1>2. ASSUME NEW T, IsFiniteSet(T), Earlier(x, R, S) \subseteq T, x \in T
        PROVE  Cardinality(Earlier(x, R, S)) < Cardinality(T)
    <2>1. x \notin Earlier(x, R, S)
      BY DEF Earlier, Orders
    <2>2. Earlier(x, R, S) \in SUBSET T /\ Earlier(x, R, S) # T
      BY <1>2, <2>1
    <2>3. /\ Cardinality(Earlier(x, R, S)) <= Cardinality(T)
          /\ Cardinality(Earlier(x, R, S)) # Cardinality(T)
      BY <1>2, <2>2, FS_Subset
    <2>4. Cardinality(Earlier(x, R, S)) \in Nat /\ Cardinality(T) \in Nat
      BY <1>1, <1>2, FS_CardinalityType
    <2> QED
      BY <2>3, <2>4
  <1>3. ASSUME NEW y \in S, <<x, y>> \in R
        PROVE  Cardinality(Earlier(x, R, S)) < Cardinality(Earlier(y, R, S))
    <2>1. Earlier(x, R, S) \subseteq Earlier(y, R, S) /\ x \in Earlier(y, R, S)
      BY <1>3 DEF Earlier, Orders
    <2> QED
      BY <1>1, <1>2, <2>1
  <1>4. Earlier(x, R, S) \subseteq S
    BY DEF Earlier
  <1> QED
    BY <1>1, <1>2, <1>3, <1>4, FS_CardinalityType

\* A finite set can be listed in an order.
LEMMA ListExists ==
    ASSUME NEW S, IsFiniteSet(S), NEW R, Orders(R, S)
    PROVE  \E s : Lists(s, R, S)
  <1> DEFINE n == Cardinality(S)
             rank == [x \in S |-> Cardinality(Earlier(x, R, S)) + 1]
             s == [i \in 1..n |-> CHOOSE x \in S : rank[x] = i]
  <1>1. n \in Nat /\ IsFiniteSet(1..n) /\ Cardinality(1..n) = n
    <2>1. n \in Nat
      BY FS_CardinalityType
    <2> HIDE DEF n
    <2>2. IsFiniteSet(1..n) /\ Cardinality(1..n) = IF 1 > n THEN 0 ELSE n - 1 + 1
      BY <2>1, FS_Interval
    <2> QED
      BY <2>1, <2>2
  <1>2. \A x, y \in S : <<x, y>> \in R => rank[x] < rank[y]
    <2> SUFFICES ASSUME NEW x \in S, NEW y \in S, <<x, y>> \in R PROVE rank[x] < rank[y]
      OBVIOUS
    <2>1. /\ Cardinality(Earlier(x, R, S)) \in Nat /\ Cardinality(Earlier(y, R, S)) \in Nat
          /\ Cardinality(Earlier(x, R, S)) < Cardinality(Earlier(y, R, S))
      BY EarlierGrows
    <2> QED
      BY <2>1
  <1>3. rank \in [S -> 1..n]
    <2> SUFFICES ASSUME NEW x \in S PROVE Cardinality(Earlier(x, R, S)) + 1 \in 1..n
      OBVIOUS
    <2>1. /\ Cardinality(Earlier(x, R, S)) \in Nat
          /\ Cardinality(Earlier(x, R, S)) < n
      BY EarlierGrows
    <2> QED
      BY <1>1, <2>1
  <1> HIDE DEF rank
  <1>4. \A x \in S : rank[x] \in Nat
    BY <1>1, <1>3
  <1>5. \A x, y \in S : rank[x] = rank[y] => x = y
    <2> SUFFICES ASSUME NEW x \in S, NEW y \in S, x # y PROVE rank[x] # rank[y]
      OBVIOUS
    <2>1. rank[x] < rank[y] \/ rank[y] < rank[x]
      BY <1>2 DEF Orders
    <2> QED
      BY <1>4, <2>1
  <1>6. rank \in Injection(S, 1..n)
    BY <1>3, <1>5 DEF Injection, IsInjective
  <1>7. rank \in Surjection(S, 1..n)
    BY <1>1, <1>6, FS_Injection
  <1>8. \A i \in 1..n : \E x \in S : rank[x] = i
    BY <1>7 DEF Surjection
  <1>9. \A i \in 1..n : s[i] \in S /\ rank[s[i]] = i
    BY <1>8
  <1> HIDE DEF s
  <1>10. s \in [1..n -> S]
    BY <1>9 DEF s
  <1>11. ASSUME NEW i \in 1..n, NEW j \in 1..n, i < j PROVE <<s[i], s[j]>> \in R
    <2>1. s[i] \in S /\ s[j] \in S /\ rank[s[i]] = i /\ rank[s[j]] = j
      BY <1>9
    <2>2. ~(j < i) /\ i # j
      BY <1>1, <1>11
    <2>3. <<s[j], s[i]>> \notin R /\ s[i] # s[j]
      BY <1>2, <2>1, <2>2
    <2> QED
      BY <2>1, <2>3 DEF Orders
  <1> QED
    BY <1>10, <1>11 DEF Lists

\* Each element is in the list, behind those that come before it.
LEMMA ListPlaces ==
    ASSUME NEW S, IsFiniteSet(S), NEW R, Orders(R, S), NEW s, Lists(s, R, S)
    PROVE  /\ \A x \in S : \E i \in 1..Cardinality(S) : s[i] = x
           /\ \A i \in 1..Cardinality(S) : Cardinality(Earlier(s[i], R, S)) = i - 1
  <1> DEFINE n == Cardinality(S)
  <1>1. n \in Nat /\ IsFiniteSet(1..n) /\ Cardinality(1..n) = n
    <2>1. n \in Nat
      BY FS_CardinalityType
    <2> HIDE DEF n
    <2>2. IsFiniteSet(1..n) /\ Cardinality(1..n) = IF 1 > n THEN 0 ELSE n - 1 + 1
      BY <2>1, FS_Interval
    <2> QED
      BY <2>1, <2>2
  <1>2. s \in [1..n -> S] /\ \A i, j \in 1..n : i < j => <<s[i], s[j]>> \in R
    BY DEF Lists
  <1> HIDE DEF n
  <1>3. \A i, j \in 1..n : i # j => s[i] # s[j]
    <2> SUFFICES ASSUME NEW i \in 1..n, NEW j \in 1..n, i < j PROVE s[i] # s[j]
      OBVIOUS
    <2>1. <<s[i], s[j]>> \in R /\ s[i] \in S
      BY <1>2
    <2> QED
      BY <2>1 DEF Orders
  <1>4. s \in Injection(1..n, S)
    BY <1>2, <1>3 DEF Injection, IsInjective
  <1>5. s \in Surjection(1..n, S)
    BY <1>1, <1>4, FS_Injection DEF n
  <1>6. \A x \in S : \E i \in 1..n : s[i] = x
    BY <1>5 DEF Surjection
  <1>7. ASSUME NEW i \in 1..n PROVE Cardinality(Earlier(s[i], R, S)) = i - 1
    <2> DEFINE before == 1..(i - 1)
               E == Earlier(s[i], R, S)
               f == [j \in before |-> s[j]]
    <2>1. i \in Nat /\ i >= 1 /\ \A j \in before : j \in 1..n /\ j < i
      BY <1>1
    <2>2. \A j \in before : s[j] \in E
      BY <1>2, <2>1 DEF Earlier
    <2>3. \A x \in E : \E j \in before : s[j] = x
      <3> SUFFICES ASSUME NEW x \in E PROVE \E j \in before : s[j] = x
        OBVIOUS
      <3>1. x \in S /\ <<x, s[i]>> \in R
        BY DEF Earlier
      <3>2. PICK j \in 1..n : s[j] = x
        BY <1>6, <3>1
      <3>3. j # i
        BY <3>1, <3>2 DEF Orders
      <3>4. ~(i < j)
        <4> SUFFICES ASSUME i < j PROVE FALSE
          OBVIOUS
        <4>1. <<s[i], s[j]>> \in R /\ s[i] \in S
          BY <1>2
        <4>2. <<x, x>> \in R
          BY <3>1, <3>2, <4>1 DEF Orders
        <4> QED
          BY <3>1, <4>2 DEF Orders
      <3>5. j \in before
        BY <1>1, <2>1, <3>3, <3>4
      <3> QED
        BY <3>2, <3>5
    <2>4. \A j, k \in before : s[j] = s[k] => j = k
      BY <1>3, <2>1
    <2> HIDE DEF before, E
    <2>5. f \in Bijection(before, E)
      BY <2>2, <2>3, <2>4 DEF Bijection, Injection, Surjection, IsInjective
    <2>6. IsFiniteSet(before) /\ Cardinality(before) = i - 1
      <3>1. /\ IsFiniteSet(1..(i - 1))
            /\ Cardinality(1..(i - 1)) = IF 1 > i - 1 THEN 0 ELSE (i - 1) - 1 + 1
        BY <2>1, FS_Interval
      <3> QED
        BY <2>1, <3>1 DEF before
    <2>7. Cardinality(E) = Cardinality(before)
      BY <2>5, <2>6, FS_Bijection DEF ExistsBijection
    <2> QED
      BY <2>6, <2>7 DEF E
  <1> QED
    BY <1>6, <1>7 DEF n

\* A function on 1..n is a sequence of n elements.
LEMMA ListIsASequence ==
    ASSUME NEW S, NEW n \in Nat, NEW s \in [1..n -> S]
    PROVE  s \in Seq(S) /\ Len(s) = n /\ DOMAIN s = 1..n
  <1>1. s \in Seq(S)
    BY SeqDef
  <1> QED
    BY <1>1, LenProperties

\* The lesser of two numbers.
LEMMA MinOfTwo ==
    ASSUME NEW a \in Int, NEW b \in Int
    PROVE  Min({a, b}) = IF a <= b THEN a ELSE b
  <1>1. CASE a <= b
    <2>1. \A x \in {a, b} : (\A y \in {a, b} : x <= y) <=> x = a
      BY <1>1
    <2> QED
      BY <1>1, <2>1 DEF Min
  <1>2. CASE ~(a <= b)
    <2>1. \A x \in {a, b} : (\A y \in {a, b} : x <= y) <=> x = b
      BY <1>2
    <2> QED
      BY <1>2, <2>1 DEF Min
  <1> QED
    BY <1>1, <1>2

-------------------------------------------------------------------------------
(* EvidenceSynthesis *)

Sound == {h \in Theories : cites[h] # {} /\ cites[h] \subseteq evidence}

RankedSound == InOrder({h \in Theories : Explicable(h)}, <)

SelectedSound == SubSeq(RankedSound, 1, Min({MaxExplained, Len(RankedSound)}))

\* The hypotheses that can be explained are the sound ones.
LEMMA ExplicableOnes == {h \in Theories : Explicable(h)} = Sound /\ IsFiniteSet(Sound)
  <1>1. {h \in Theories : Explicable(h)} = Sound
    BY DEF Sound, Explicable
  <1>2. Sound \in SUBSET Theories
    BY DEF Sound
  <1> QED
    BY <1>1, <1>2, FS_Subset, SynthesisAssumption

\* Numbers have a least one.
LEMMA LeastOne ==
    ASSUME NEW T, T \subseteq Nat, T # {}
    PROVE  \E m \in T : \A y \in T : m <= y
  <1>1. PICK m \in T : \A y \in T : ~ (<<y, m>> \in OpToRel(<, Nat))
    BY NatLessThanWellFounded, WFMin
  <1>2. m \in Nat /\ \A y \in T : y \in Nat /\ ~(y < m)
    BY <1>1 DEF OpToRel
  <1>3. \A y \in T : m <= y
    BY <1>2
  <1> QED
    BY <1>3

\* An item of the least quality, and of those the first, exists.
LEMMA WeakestIsThere ==
    ASSUME NEW cited \in SUBSET Items, cited # {}
    PROVE  Weakest(cited) \in cited
  <1> DEFINE qualities == {QualityOf[e] : e \in cited}
  <1>1. qualities \subseteq Nat /\ qualities # {}
    BY SynthesisAssumption
  <1>2. PICK q \in qualities : \A r \in qualities : q <= r
    BY <1>1, LeastOne
  <1>3. \A r \in qualities : r >= q
    BY <1>1, <1>2
  <1> DEFINE least == {e \in cited : QualityOf[e] = q}
  <1>4. least \subseteq Nat /\ least # {}
    BY SynthesisAssumption
  <1>5. PICK e \in least : \A f \in least : e <= f
    BY <1>4, LeastOne
  <1>6. \A f \in least : f >= e
    BY <1>4, <1>5
  <1>7. ASSUME NEW f \in cited
        PROVE  \/ QualityOf[e] < QualityOf[f]
               \/ QualityOf[e] = QualityOf[f] /\ e <= f
    <2>1. QualityOf[f] \in Nat /\ q \in Nat /\ QualityOf[f] >= q /\ QualityOf[e] = q
      BY <1>1, <1>3, <1>7
    <2>2. CASE QualityOf[f] = q
      BY <1>4, <1>6, <1>7, <2>1, <2>2
    <2>3. CASE QualityOf[f] # q
      BY <2>1, <2>3
    <2> QED
      BY <2>2, <2>3
  <1> QED
    BY <1>7 DEF Weakest

\* The sound hypotheses are listed by rank, from the first.
LEMMA RankedList ==
    ASSUME Sound # {}
    PROVE  /\ RankedSound \in Seq(Sound) /\ Len(RankedSound) = Cardinality(Sound)
           /\ Cardinality(Sound) \in Nat \ {0}
           /\ RankedSound[1] \in Sound /\ \A h \in Sound : RankedSound[1] <= h
  <1> DEFINE R == {p \in Sound \X Sound : p[1] < p[2]}
             n == Cardinality(Sound)
  <1>1. Sound \subseteq Nat /\ IsFiniteSet(Sound)
    BY SynthesisAssumption, ExplicableOnes DEF Sound
  <1>2. n \in Nat \ {0}
    BY <1>1, FS_CardinalityType, FS_EmptySet
  <1>3. \A x, y \in Sound : <<x, y>> \in R <=> x < y
    OBVIOUS
  <1> HIDE DEF R, n
  <1>4. Orders(R, Sound)
    BY <1>1, <1>3 DEF Orders
  <1>5. PICK t : Lists(t, R, Sound)
    BY <1>1, <1>4, ListExists
  <1>6. t \in [1..n -> Sound] /\ \A i, j \in DOMAIN t : i < j => t[i] < t[j]
    BY <1>3, <1>5 DEF Lists, n
  <1>7. RankedSound = CHOOSE s \in [1..n -> Sound] :
                        \A i, j \in DOMAIN s : i < j => s[i] < s[j]
    BY ExplicableOnes DEF RankedSound, InOrder, n
  <1>8. /\ RankedSound \in [1..n -> Sound]
        /\ \A i, j \in DOMAIN RankedSound : i < j => RankedSound[i] < RankedSound[j]
    BY <1>6, <1>7
  <1>9. Lists(RankedSound, R, Sound)
    BY <1>3, <1>8 DEF Lists, n
  <1>10. 1 \in 1..n
    BY <1>2
  <1>11. ASSUME NEW h \in Sound PROVE RankedSound[1] <= h
    <2>1. PICK i \in 1..n : RankedSound[i] = h
      BY <1>1, <1>4, <1>9, ListPlaces DEF n
    <2>2. i = 1 \/ 1 < i
      BY <1>2
    <2>3. RankedSound[1] \in Nat /\ h \in Nat
      BY <1>1, <1>8, <1>10
    <2> QED
      BY <1>8, <1>10, <2>1, <2>2, <2>3
  <1>12. RankedSound \in Seq(Sound) /\ Len(RankedSound) = n
    BY <1>2, <1>8, ListIsASequence
  <1> QED
    BY <1>2, <1>8, <1>10, <1>11, <1>12 DEF n

\* The explained hypotheses are the first of them.
LEMMA SelectedOnes ==
    ASSUME Sound # {}
    PROVE  /\ SelectedSound \in Seq(Sound) /\ 1 \in DOMAIN SelectedSound
           /\ SelectedSound[1] = RankedSound[1]
           /\ \A i \in DOMAIN SelectedSound : SelectedSound[i] \in Sound
  <1> DEFINE m == Min({MaxExplained, Len(RankedSound)})
  <1>1. RankedSound \in Seq(Sound) /\ Len(RankedSound) \in Nat \ {0}
    BY RankedList
  <1>2. m \in 1..Len(RankedSound)
    BY <1>1, SynthesisAssumption, MinOfTwo
  <1> HIDE DEF m
  <1>3. /\ SubSeq(RankedSound, 1, m) \in Seq(Sound)
        /\ Len(SubSeq(RankedSound, 1, m)) = m
        /\ SubSeq(RankedSound, 1, m)[1] = RankedSound[1]
    BY <1>1, <1>2
  <1>4. SelectedSound = SubSeq(RankedSound, 1, m)
    BY DEF SelectedSound, m
  <1> QED
    BY <1>1, <1>2, <1>3, <1>4

\* The response, with its parts named.
LEMMA BuiltFrom ==
    Built = [refused |-> FALSE, bundle |-> Bundle,
             summary |-> cites[SelectedSound[1]],
             explained |-> [i \in DOMAIN SelectedSound |->
                              [id |-> SelectedSound[i], cited |-> cites[SelectedSound[i]]]],
             uncertainty |-> IF cites[SelectedSound[1]] \cap evidence = {} THEN {}
                             ELSE {Weakest(cites[SelectedSound[1]] \cap evidence)},
             coverage |-> TRUE]
  BY DEF Built, SelectedSound, RankedSound

\* A response built over a sound hypothesis is one the validator accepts.
LEMMA BuiltIsSound ==
    ASSUME SynthesisTypeOK, Sound # {}
    PROVE  /\ Valid(Built) /\ Built.refused = FALSE /\ Built.uncertainty # {}
           /\ Built.explained[1].id = Min(Sound)
           /\ \A i \in DOMAIN Built.explained : Built.explained[i].id \in Sound
  <1> DEFINE sel == SelectedSound
             primary == cites[sel[1]]
  <1>1. /\ 1 \in DOMAIN sel /\ sel[1] = RankedSound[1]
        /\ \A i \in DOMAIN sel : sel[i] \in Sound
    BY SelectedOnes
  <1>2. sel[1] \in Sound /\ \A h \in Sound : sel[1] <= h
    BY <1>1, RankedList
  <1>3. sel[1] = Min(Sound)
    <2>1. Sound \subseteq Nat
      BY SynthesisAssumption DEF Sound
    <2>2. Min(Sound) \in Sound /\ \A y \in Sound : Min(Sound) <= y
      BY <1>2 DEF Min
    <2>3. Min(Sound) <= sel[1] /\ sel[1] <= Min(Sound)
      BY <1>2, <2>2
    <2>4. Min(Sound) \in Nat /\ sel[1] \in Nat
      BY <1>2, <2>1, <2>2
    <2> HIDE DEF sel
    <2> QED
      BY <2>3, <2>4
  <1>4. primary # {} /\ primary \subseteq evidence /\ primary \in SUBSET Items
    BY <1>2 DEF Sound, SynthesisTypeOK
  <1>5. primary \cap evidence = primary
    BY <1>4
  <1>6. Weakest(primary) \in primary
    BY <1>4, WeakestIsThere
  <1>7. \A i \in DOMAIN sel : cites[sel[i]] # {} /\ cites[sel[i]] \subseteq evidence
    BY <1>1 DEF Sound
  <1> HIDE DEF sel, primary
  <1>8. Built = [refused |-> FALSE, bundle |-> Bundle, summary |-> primary,
                 explained |-> [i \in DOMAIN sel |-> [id |-> sel[i], cited |-> cites[sel[i]]]],
                 uncertainty |-> {Weakest(primary)}, coverage |-> TRUE]
    BY <1>4, <1>5, BuiltFrom DEF sel, primary
  <1>9. /\ Built.refused = FALSE /\ Built.bundle = Bundle /\ Built.summary = primary
        /\ Built.uncertainty = {Weakest(primary)} /\ Built.coverage = TRUE
        /\ DOMAIN Built.explained = DOMAIN sel
        /\ \A i \in DOMAIN sel : /\ Built.explained[i].id = sel[i]
                                 /\ Built.explained[i].cited = cites[sel[i]]
    BY <1>8
  <1>10. Valid(Built)
    <2>1. evidence # {}
      BY <1>4
    <2>2. Built.summary \subseteq evidence /\ Built.uncertainty \subseteq evidence
      BY <1>4, <1>6, <1>9
    <2>3. \A i \in DOMAIN Built.explained :
            /\ Built.explained[i].cited \subseteq evidence
            /\ Built.explained[i].cited \subseteq cites[Built.explained[i].id]
            /\ Built.explained[i].cited # {}
      BY <1>7, <1>9
    <2>4. Built.summary # {} /\ Built.uncertainty # {}
      BY <1>4, <1>9
    <2> HIDE DEF primary
    <2> QED
      BY <1>9, <2>1, <2>2, <2>3, <2>4 DEF Valid
  <1> QED
    BY <1>1, <1>3, <1>9, <1>10

\* The evidence and the citations are items, whatever is recorded or asked.
LEMMA SynthesisStep ==
    SynthesisTypeOK /\ [SynthesisNext]_synthesisVars => SynthesisTypeOK'
  <1> SUFFICES ASSUME SynthesisTypeOK, [SynthesisNext]_synthesisVars
               PROVE  SynthesisTypeOK'
    OBVIOUS
  <1>1. CASE Record
    BY <1>1 DEF Record, SynthesisTypeOK
  <1>2. CASE Synthesize
    BY <1>2 DEF Synthesize, SynthesisTypeOK
  <1>3. CASE UNCHANGED synthesisVars
    BY <1>3 DEF synthesisVars, SynthesisTypeOK
  <1> QED
    BY <1>1, <1>2, <1>3 DEF SynthesisNext

\* They are items from the start.
LEMMA SynthesisTyped ==
    /\ SynthesisInit => SynthesisTypeOK
    /\ SynthesisSpec => []SynthesisTypeOK
  <1>1. SynthesisInit => SynthesisTypeOK
    BY DEF SynthesisInit, SynthesisTypeOK
  <1> QED
    BY <1>1, SynthesisStep, PTL DEF SynthesisSpec

\* One hypothesis with broken citations does not cost an incident its
\* explanation, for every bundle of evidence and hypotheses:
\* build_evidence_synthesis refuses only if no hypothesis has citations that
\* are all in the evidence, its response passes validate_evidence_synthesis,
\* and its primary hypothesis is the best ranked of the sound ones.
THEOREM ExplanationsStaySound == SynthesisSpec => OnlySoundOnesAreExplained
  <1>1. ASSUME SynthesisTypeOK, Synthesize
        PROVE  /\ synthesis'.refused <=> Sound = {}
               /\ ~synthesis'.refused =>
                    /\ synthesis'.explained[1].id = Min(Sound)
                    /\ synthesis'.uncertainty # {}
                    /\ \A i \in DOMAIN synthesis'.explained :
                         synthesis'.explained[i].id \in Sound
    <2>1. (\E h \in Theories : Explicable(h)) <=> Sound # {}
      BY ExplicableOnes
    <2>2. CASE Sound = {}
      <3>1. synthesis' = [refused |-> TRUE]
        BY <1>1, <2>1, <2>2 DEF Synthesize, Refused
      <3> QED
        BY <2>2, <3>1
    <2>3. CASE Sound # {}
      <3>1. evidence # {}
        BY <2>3 DEF Sound
      <3>2. synthesis' = Built
        BY <1>1, <2>1, <2>3, <3>1, BuiltIsSound DEF Synthesize
      <3> QED
        BY <1>1, <2>3, <3>2, BuiltIsSound
    <2> QED
      BY <2>2, <2>3
  <1>2. SynthesisTypeOK /\ [SynthesisNext]_synthesisVars =>
          [Synthesize =>
             LET sound == {h \in Theories : cites[h] # {} /\ cites[h] \subseteq evidence}
             IN  /\ synthesis'.refused <=> sound = {}
                 /\ ~synthesis'.refused =>
                      /\ synthesis'.explained[1].id = Min(sound)
                      /\ synthesis'.uncertainty # {}
                      /\ \A i \in DOMAIN synthesis'.explained :
                           synthesis'.explained[i].id \in sound]_synthesisVars
    BY <1>1 DEF Sound
  <1> QED
    BY <1>2, SynthesisTyped, PTL DEF SynthesisSpec, OnlySoundOnesAreExplained

-------------------------------------------------------------------------------
(* HypothesisRanking *)

\* Nothing adds up to nothing, and a set to its first element and the rest.
LEMMA TotalSplits ==
    ASSUME NEW f, NEW S, IsFiniteSet(S)
    PROVE  /\ S = {} => Total(f, S) = 0
           /\ S # {} => LET c == CHOOSE c \in S : TRUE
                        IN  c \in S /\ Total(f, S) = f[c] + Total(f, S \ {c})
  <1> DEFINE g == CHOOSE g : g = Totalling(f, S, g)
  <1>1. g = Totalling(f, S, g)
    BY TotalExists
  <1>2. Total(f, S) = g[S]
    BY DEF Total
  <1> HIDE DEF g
  <1>3. CASE S = {}
    BY <1>1, <1>2, <1>3 DEF Totalling
  <1>4. CASE S # {}
    <2> DEFINE c == CHOOSE c \in S : TRUE
               T == S \ {c}
               r == [s \in SUBSET T |-> g[s]]
               h == CHOOSE h : h = Totalling(f, T, h)
    <2>1. c \in S
      BY <1>4
    <2>2. g[S] = f[c] + g[T]
      BY <1>1, <1>4 DEF Totalling
    <2>3. T \in SUBSET S /\ SUBSET T \subseteq SUBSET S
      OBVIOUS
    <2>4. IsFiniteSet(T)
      BY <2>3, FS_Subset
    <2> HIDE DEF c, T
    <2>5. h = Totalling(f, T, h)
      BY <2>4, TotalExists
    <2>6. Total(f, T) = h[T]
      BY DEF Total
    <2> HIDE DEF h
    <2>7. ASSUME NEW s \in SUBSET T
          PROVE  r[s] = IF s = {} THEN 0
                        ELSE LET x == CHOOSE x \in s : TRUE IN f[x] + r[s \ {x}]
      <3>1. s \in SUBSET S
        BY <2>3
      <3>2. g[s] = IF s = {} THEN 0
                   ELSE LET x == CHOOSE x \in s : TRUE IN f[x] + g[s \ {x}]
        BY <1>1, <3>1 DEF Totalling
      <3>3. \A x : s \ {x} \in SUBSET T
        OBVIOUS
      <3> QED
        BY <3>2, <3>3
    <2>8. r = Totalling(f, T, r)
      <3>1. r = [s \in SUBSET T |-> r[s]]
        OBVIOUS
      <3> HIDE DEF r
      <3> QED
        BY <2>7, <3>1 DEF Totalling
    <2>9. r[T] = h[T]
      BY <2>4, <2>5, <2>8, TotalIsUnique
    <2>10. r[T] = g[T]
      OBVIOUS
    <2> QED
      BY <1>2, <1>4, <2>1, <2>2, <2>6, <2>9, <2>10 DEF c, T
  <1> QED
    BY <1>3, <1>4

\* The sum does not depend on the order: an element more adds its value.
LEMMA TotalAdds ==
    ASSUME NEW S, IsFiniteSet(S), NEW x, x \notin S,
           NEW f, \A y \in S \cup {x} : f[y] \in Nat
    PROVE  Total(f, S \cup {x}) = f[x] + Total(f, S)
  <1> DEFINE W == S \cup {x}
             Wrong == {s \in SUBSET W :
                         \E y \in W \ s : Total(f, s \cup {y}) # f[y] + Total(f, s)}
  <1>1. IsFiniteSet(W)
    BY FS_AddElement
  <1>2. Wrong = {}
    <2> SUFFICES ASSUME Wrong # {} PROVE FALSE
      OBVIOUS
    <2>1. Wrong \subseteq FiniteSubsetsOf(W)
      BY <1>1, FS_Subset DEF FiniteSubsetsOf
    <2>2. PICK s \in Wrong : \A t \in Wrong : ~(<<t, s>> \in StrictSubsetOrdering(W))
      <3> HIDE DEF W, Wrong
      <3>1. IsWellFoundedOn(StrictSubsetOrdering(W), FiniteSubsetsOf(W))
        BY FS_StrictSubsetOrderingWellFounded
      <3> QED
        BY <2>1, <3>1, WFMin
    <2>3. PICK y \in W \ s : Total(f, s \cup {y}) # f[y] + Total(f, s)
      OBVIOUS
    <2>4. s \in SUBSET W /\ \A t \in SUBSET W, z \in W :
            z \notin t /\ t \subseteq s /\ t # s => Total(f, t \cup {z}) = f[z] + Total(f, t)
      <3>1. s \in SUBSET W
        OBVIOUS
      <3> SUFFICES ASSUME NEW t \in SUBSET W, NEW z \in W, z \notin t, t \subseteq s, t # s
                   PROVE  Total(f, t \cup {z}) = f[z] + Total(f, t)
        BY <3>1
      <3>2. <<t, s>> \in StrictSubsetOrdering(W)
        BY <3>1 DEF StrictSubsetOrdering
      <3> QED
        BY <2>2, <3>2
    <2> HIDE DEF Wrong
    <2> DEFINE B == s \cup {y}
               c == CHOOSE c \in B : TRUE
    <2>5. B \in SUBSET W /\ B # {}
      BY <2>4
    <2>6. IsFiniteSet(B)
      BY <1>1, <2>5, FS_Subset
    <2> HIDE DEF B
    <2>7. c \in B /\ Total(f, B) = f[c] + Total(f, B \ {c})
      BY <2>5, <2>6, TotalSplits
    <2> HIDE DEF c
    <2>8. CASE c = y
      <3>1. B \ {c} = s
        BY <2>8 DEF B
      <3> QED
        BY <2>3, <2>7, <2>8, <3>1 DEF B
    <2>9. CASE c # y
      <3> DEFINE t == s \ {c}
      <3>1. c \in s
        BY <2>7, <2>9 DEF B
      <3>2. B \ {c} = t \cup {y} /\ s = t \cup {c}
        BY <2>9, <3>1 DEF B
      <3>3. /\ t \in SUBSET W /\ t \subseteq s /\ t # s
            /\ y \in W /\ y \notin t /\ c \in W /\ c \notin t
        BY <2>4, <3>1
      <3> HIDE DEF t
      <3>4. Total(f, t \cup {y}) = f[y] + Total(f, t) /\ Total(f, t \cup {c}) = f[c] + Total(f, t)
        BY <2>4, <3>3
      <3>5. IsFiniteSet(t) /\ \A z \in t : f[z] \in Nat
        BY <1>1, <3>3, FS_Subset
      <3>6. Total(f, t) \in Nat
        BY <3>5, TotalIsNatural
      <3>7. f[c] \in Nat /\ f[y] \in Nat
        BY <3>3
      <3>8. Total(f, B) = f[c] + (f[y] + Total(f, t))
        BY <2>7, <3>2, <3>4
      <3>9. Total(f, s) = f[c] + Total(f, t)
        BY <3>2, <3>4
      <3>10. Total(f, B) = f[y] + Total(f, s)
        BY <3>6, <3>7, <3>8, <3>9
      <3> QED
        BY <2>3, <3>10 DEF B
    <2> QED
      BY <2>8, <2>9
  <1>3. S \in SUBSET W /\ x \in W \ S
    OBVIOUS
  <1> QED
    BY <1>2, <1>3

Strengths == [e \in Evidence |-> Strength(e)]

Grades == [e \in Evidence |-> ItemQuality(e)]

StrengthFolds ==
    \A S : S \subseteq Evidence /\ IsFiniteSet(S) =>
      MapThenSumSet(Strength, S) = Total(Strengths, S)

QualityFolds ==
    \A S : S \subseteq Evidence /\ IsFiniteSet(S) =>
      MapThenSumSet(ItemQuality, S) = Total(Grades, S)

\* The sum of the strengths is the sum of a function.
LEMMA StrengthIsTotal == StrengthFolds
  <1> SUFFICES ASSUME NEW S, S \subseteq Evidence, IsFiniteSet(S)
               PROVE  MapThenSumSet(Strength, S) = Total(Strengths, S)
    BY DEF StrengthFolds
  <1> DEFINE Body(g) == [s \in SUBSET S |->
                           IF s = {} THEN 0
                           ELSE LET x == CHOOSE x \in s : TRUE
                                IN  Strength(x) + g[s \ {x}]]
             c == CHOOSE g : g = Body(g)
             t == CHOOSE g : g = Totalling(Strengths, S, g)
  <1>1. ASSUME NEW g PROVE Body(g) = Totalling(Strengths, S, g)
    <2>1. ASSUME NEW s \in SUBSET S, s # {}
          PROVE  LET x == CHOOSE x \in s : TRUE IN Strengths[x] = Strength(x)
      <3>1. (CHOOSE x \in s : TRUE) \in Evidence
        BY <2>1
      <3> QED
        BY <3>1 DEF Strengths
    <2> QED
      BY <2>1 DEF Totalling
  <1>2. t = Totalling(Strengths, S, t)
    BY TotalExists
  <1> HIDE DEF t, Body
  <1>3. t = Body(t)
    BY <1>1, <1>2
  <1>4. c = Body(c)
    BY <1>3
  <1> HIDE DEF c
  <1>5. c = Totalling(Strengths, S, c)
    BY <1>1, <1>4
  <1>6. c[S] = t[S]
    BY <1>2, <1>5, TotalIsUnique
  <1>7. MapThenSumSet(Strength, S) = c[S]
    BY DEF MapThenSumSet, MapThenFoldSet, c, Body
  <1> QED
    BY <1>6, <1>7 DEF Total, t

\* So is the sum of the qualities.
LEMMA QualityIsTotal == QualityFolds
  <1> SUFFICES ASSUME NEW S, S \subseteq Evidence, IsFiniteSet(S)
               PROVE  MapThenSumSet(ItemQuality, S) = Total(Grades, S)
    BY DEF QualityFolds
  <1> DEFINE Body(g) == [s \in SUBSET S |->
                           IF s = {} THEN 0
                           ELSE LET x == CHOOSE x \in s : TRUE
                                IN  ItemQuality(x) + g[s \ {x}]]
             c == CHOOSE g : g = Body(g)
             t == CHOOSE g : g = Totalling(Grades, S, g)
  <1>1. ASSUME NEW g PROVE Body(g) = Totalling(Grades, S, g)
    <2>1. ASSUME NEW s \in SUBSET S, s # {}
          PROVE  LET x == CHOOSE x \in s : TRUE IN Grades[x] = ItemQuality(x)
      <3>1. (CHOOSE x \in s : TRUE) \in Evidence
        BY <2>1
      <3> QED
        BY <3>1 DEF Grades
    <2> QED
      BY <2>1 DEF Totalling
  <1>2. t = Totalling(Grades, S, t)
    BY TotalExists
  <1> HIDE DEF t, Body
  <1>3. t = Body(t)
    BY <1>1, <1>2
  <1>4. c = Body(c)
    BY <1>3
  <1> HIDE DEF c
  <1>5. c = Totalling(Grades, S, c)
    BY <1>1, <1>4
  <1>6. c[S] = t[S]
    BY <1>2, <1>5, TotalIsUnique
  <1>7. MapThenSumSet(ItemQuality, S) = c[S]
    BY DEF MapThenSumSet, MapThenFoldSet, c, Body
  <1> QED
    BY <1>6, <1>7 DEF Total, t

\* An item has a strength and a quality.
LEMMA ItemValues ==
    ASSUME NEW e \in Evidence
    PROVE  /\ Strength(e) \in Nat /\ Strengths[e] \in Nat /\ Strengths[e] = Strength(e)
           /\ ItemQuality(e) \in Nat /\ Grades[e] \in Nat
  <1>1. e.quality \in Nat
    BY RankingAssumption
  <1>2. \A t \in DOMAIN Reliability : Reliability[t] \in Nat
    BY DEF Reliability
  <1>3. Strength(e) \in Nat
    <2>1. CASE e.type \in DOMAIN Reliability
      <3>1. Reliability[e.type] \in Nat
        BY <1>2, <2>1
      <3>2. Strength(e) = e.quality * Reliability[e.type]
        BY <2>1 DEF Strength
      <3> QED
        BY <1>1, <3>1, <3>2
    <2>2. CASE e.type \notin DOMAIN Reliability
      BY <1>1, <2>2 DEF Strength
    <2> QED
      BY <2>1, <2>2
  <1> QED
    BY <1>1, <1>3 DEF Strengths, ItemQuality, Grades

\* The parts of a score
Support(E, h) == SupportStrength(Supporting(E, h))

Counter(E, h) == MapThenSumSet(Strength, Contradicting(E, h))

Types(E, h) == Cardinality({e.type : e \in Supporting(E, h)})

Number(E, h) == Cardinality(Supporting(E, h))

\* The items that speak for a hypothesis or against it are some of them.
LEMMA PartsOfEvidence ==
    ASSUME NEW E \in SUBSET Evidence, IsFiniteSet(E), NEW h
    PROVE  /\ Supporting(E, h) \subseteq E /\ IsFiniteSet(Supporting(E, h))
           /\ Contradicting(E, h) \subseteq E /\ IsFiniteSet(Contradicting(E, h))
           /\ IsFiniteSet({e.type : e \in Supporting(E, h)})
           /\ Support(E, h) \in Nat /\ Counter(E, h) \in Nat
           /\ Types(E, h) \in Nat /\ Number(E, h) \in Nat
           /\ MapThenSumSet(ItemQuality, Supporting(E, h)) \in Nat
  <1> DEFINE sup == Supporting(E, h)
             con == Contradicting(E, h)
             T == {e.type : e \in sup}
  <1>1. sup \in SUBSET E /\ con \in SUBSET E
    BY DEF Supporting, Contradicting
  <1>2. IsFiniteSet(sup) /\ IsFiniteSet(con)
    BY <1>1, FS_Subset
  <1>3. sup \subseteq Evidence /\ con \subseteq Evidence
    BY <1>1
  <1> HIDE DEF sup, con
  <1>4. [e \in sup |-> e.type] \in Surjection(sup, T)
    BY DEF Surjection
  <1>5. IsFiniteSet(T)
    BY <1>2, <1>4, FS_Surjection
  <1> HIDE DEF T
  <1>6. \A e \in sup \cup con : Strengths[e] \in Nat /\ Grades[e] \in Nat
    BY <1>3, ItemValues
  <1>7. /\ Total(Strengths, sup) \in Nat /\ Total(Strengths, con) \in Nat
        /\ Total(Grades, sup) \in Nat
    BY <1>2, <1>6, TotalIsNatural
  <1>8. /\ MapThenSumSet(Strength, sup) \in Nat /\ MapThenSumSet(Strength, con) \in Nat
        /\ MapThenSumSet(ItemQuality, sup) \in Nat
    BY <1>2, <1>3, <1>7, StrengthIsTotal, QualityIsTotal DEF StrengthFolds, QualityFolds
  <1>9. Cardinality(T) \in Nat /\ Cardinality(sup) \in Nat
    BY <1>2, <1>5, FS_CardinalityType
  <1> QED
    BY <1>1, <1>2, <1>5, <1>8, <1>9
       DEF Support, SupportStrength, Counter, Types, Number, sup, con, T

\* An item more never lowers a sum of strengths.
LEMMA StrengthGrows ==
    ASSUME NEW S \in SUBSET Evidence, IsFiniteSet(S), NEW e \in Evidence, e \notin S
    PROVE  /\ MapThenSumSet(Strength, S) \in Nat
           /\ MapThenSumSet(Strength, S \cup {e}) \in Nat
           /\ MapThenSumSet(Strength, S) <= MapThenSumSet(Strength, S \cup {e})
  <1> DEFINE T == S \cup {e}
  <1>1. IsFiniteSet(T) /\ T \subseteq Evidence
    BY FS_AddElement
  <1>2. \A x \in T : Strengths[x] \in Nat
    BY <1>1, ItemValues
  <1>3. Total(Strengths, T) = Strengths[e] + Total(Strengths, S)
    BY <1>2, TotalAdds
  <1>4. Total(Strengths, S) \in Nat /\ Strengths[e] \in Nat
    BY <1>2, TotalIsNatural
  <1>5. /\ MapThenSumSet(Strength, S) = Total(Strengths, S)
        /\ MapThenSumSet(Strength, T) = Total(Strengths, T)
    BY <1>1, StrengthIsTotal DEF StrengthFolds
  <1> HIDE DEF T
  <1>6. /\ MapThenSumSet(Strength, S) \in Nat /\ MapThenSumSet(Strength, T) \in Nat
        /\ MapThenSumSet(Strength, S) <= MapThenSumSet(Strength, T)
    BY <1>3, <1>4, <1>5
  <1> QED
    BY <1>6 DEF T

\* The greater of a number and 1.
LEMMA AtLeastOne ==
    ASSUME NEW a \in Nat
    PROVE  Max({1, a}) = IF a <= 1 THEN 1 ELSE a
  <1>1. CASE a <= 1
    <2>1. \A x \in {1, a} : (\A y \in {1, a} : x >= y) <=> x = 1
      BY <1>1
    <2> QED
      BY <1>1, <2>1 DEF Max
  <1>2. CASE ~(a <= 1)
    <2>1. \A x \in {1, a} : (\A y \in {1, a} : x >= y) <=> x = a
      BY <1>2
    <2> QED
      BY <1>2, <2>1 DEF Max
  <1> QED
    BY <1>1, <1>2

\* Quotients keep the order.
LEMMA QuotientKeepsOrder ==
    ASSUME NEW d \in Nat \ {0}, NEW p \in Int, NEW q \in Int, NEW r \in Int, NEW s \in Int,
           0 <= r, r < d, 0 <= s, s < d, d * p + r <= d * q + s
    PROVE  p <= q /\ (p = q => r <= s)
  <1>1. p <= q
    <2> SUFFICES ASSUME q + 1 <= p PROVE FALSE
      OBVIOUS
    <2> DEFINE k == p - (q + 1)
    <2>1. k \in Nat /\ p = q + 1 + k
      OBVIOUS
    <2> HIDE DEF k
    <2>2. d * k \in Nat
      BY <2>1
    <2>3. d * p = d * q + d + d * k
      BY <2>1
    <2>4. d * p \in Int /\ d * q \in Int
      OBVIOUS
    <2> QED
      BY <2>2, <2>3, <2>4
  <1>2. p = q => r <= s
    <2> SUFFICES ASSUME p = q PROVE r <= s
      OBVIOUS
    <2>1. d * p \in Int /\ d * p + r <= d * p + s
      OBVIOUS
    <2> QED
      BY <2>1
  <1> QED
    BY <1>1, <1>2

\* So does rounding, whatever the denominator.
LEMMA RoundsInOrder ==
    ASSUME NEW d \in Nat \ {0}, NEW a \in Int, NEW b \in Int, a <= b
    PROVE  Round(a, d) \in Int /\ Round(b, d) \in Int /\ Round(a, d) <= Round(b, d)
  <1> DEFINE p == a \div d
             r == a % d
             q == b \div d
             s == b % d
  <1>1. p \in Int /\ r \in Int /\ 0 <= r /\ r < d /\ a = d * p + r
    OBVIOUS
  <1>2. q \in Int /\ s \in Int /\ 0 <= s /\ s < d /\ b = d * q + s
    OBVIOUS
  <1>3. /\ Round(a, d) = IF 2 * r > d \/ (2 * r = d /\ p % 2 = 1) THEN p + 1 ELSE p
        /\ Round(b, d) = IF 2 * s > d \/ (2 * s = d /\ q % 2 = 1) THEN q + 1 ELSE q
    BY DEF Round
  <1> HIDE DEF p, q, r, s
  <1>4. d * p + r <= d * q + s
    BY <1>1, <1>2
  <1>5. p <= q /\ (p = q => r <= s)
    BY <1>1, <1>2, <1>4, QuotientKeepsOrder
  <1>6. CASE p = q
    BY <1>1, <1>2, <1>3, <1>5, <1>6
  <1>7. CASE p # q
    BY <1>1, <1>2, <1>3, <1>5, <1>7
  <1> QED
    BY <1>6, <1>7

\* Before it is rounded
RawScore(E, h) ==
    2500 * Prior[h] + Min({550000, 16 * Support(E, h)}) - Min({450000, 28 * Counter(E, h)})
    + Min({100000, 30000 * Types(E, h)}) + Min({60000, 15000 * Number(E, h)})

\* The score is the rounded one.
LEMMA ScoreIsRounded ==
    ASSUME NEW E, NEW h
    PROVE  HypothesisScore(E, h) = Clamp(Round(RawScore(E, h), 10000), 0, 100)
  BY DEF HypothesisScore, RawScore, Support, Counter, Types, Number

\* A hypothesis with more support and less against it does not score less.
LEMMA ScoreGrows ==
    ASSUME NEW h \in Candidate,
           NEW E \in SUBSET Evidence, IsFiniteSet(E), NEW F \in SUBSET Evidence, IsFiniteSet(F),
           Support(E, h) <= Support(F, h), Counter(E, h) >= Counter(F, h),
           Types(E, h) <= Types(F, h), Number(E, h) <= Number(F, h)
    PROVE  /\ HypothesisScore(E, h) \in 0..100 /\ HypothesisScore(F, h) \in 0..100
           /\ HypothesisScore(E, h) <= HypothesisScore(F, h)
  <1> DEFINE s == Support(E, h)
             c == Counter(E, h)
             t == Types(E, h)
             n == Number(E, h)
             sF == Support(F, h)
             cF == Counter(F, h)
             tF == Types(F, h)
             nF == Number(F, h)
  <1>1. /\ s \in Nat /\ c \in Nat /\ t \in Nat /\ n \in Nat
        /\ sF \in Nat /\ cF \in Nat /\ tF \in Nat /\ nF \in Nat
        /\ s <= sF /\ c >= cF /\ t <= tF /\ n <= nF
    BY PartsOfEvidence
  <1>2. Prior[h] \in Nat
    BY RankingAssumption
  <1>3. /\ RawScore(E, h) = 2500 * Prior[h] + Min({550000, 16 * s}) - Min({450000, 28 * c})
                            + Min({100000, 30000 * t}) + Min({60000, 15000 * n})
        /\ RawScore(F, h) = 2500 * Prior[h] + Min({550000, 16 * sF}) - Min({450000, 28 * cF})
                            + Min({100000, 30000 * tF}) + Min({60000, 15000 * nF})
    BY DEF RawScore
  <1> HIDE DEF s, c, t, n, sF, cF, tF, nF
  <1>4. /\ Min({550000, 16 * s}) \in Int /\ Min({550000, 16 * sF}) \in Int
        /\ Min({550000, 16 * s}) <= Min({550000, 16 * sF})
    BY <1>1, MinOfTwo
  <1>5. /\ Min({450000, 28 * c}) \in Int /\ Min({450000, 28 * cF}) \in Int
        /\ Min({450000, 28 * c}) >= Min({450000, 28 * cF})
    BY <1>1, MinOfTwo
  <1>6. /\ Min({100000, 30000 * t}) \in Int /\ Min({100000, 30000 * tF}) \in Int
        /\ Min({100000, 30000 * t}) <= Min({100000, 30000 * tF})
    BY <1>1, MinOfTwo
  <1>7. /\ Min({60000, 15000 * n}) \in Int /\ Min({60000, 15000 * nF}) \in Int
        /\ Min({60000, 15000 * n}) <= Min({60000, 15000 * nF})
    BY <1>1, MinOfTwo
  <1>8. RawScore(E, h) \in Int /\ RawScore(F, h) \in Int /\ RawScore(E, h) <= RawScore(F, h)
    BY <1>2, <1>3, <1>4, <1>5, <1>6, <1>7
  <1>9. /\ Round(RawScore(E, h), 10000) \in Int /\ Round(RawScore(F, h), 10000) \in Int
        /\ Round(RawScore(E, h), 10000) <= Round(RawScore(F, h), 10000)
    BY <1>8, RoundsInOrder
  <1>10. /\ HypothesisScore(E, h) = Clamp(Round(RawScore(E, h), 10000), 0, 100)
         /\ HypothesisScore(F, h) = Clamp(Round(RawScore(F, h), 10000), 0, 100)
    BY ScoreIsRounded
  <1> QED
    BY <1>9, <1>10, ClampKeepsOrder

\* Scores are numbers.
LEMMA ScoreIsANumber ==
    ASSUME NEW h \in Candidate, NEW E \in SUBSET Evidence, IsFiniteSet(E)
    PROVE  HypothesisScore(E, h) \in 0..100
  <1>1. /\ Support(E, h) \in Nat /\ Counter(E, h) \in Nat
        /\ Types(E, h) \in Nat /\ Number(E, h) \in Nat
    BY PartsOfEvidence
  <1>2. /\ Support(E, h) <= Support(E, h) /\ Counter(E, h) >= Counter(E, h)
        /\ Types(E, h) <= Types(E, h) /\ Number(E, h) <= Number(E, h)
    BY <1>1
  <1> QED
    BY <1>2, ScoreGrows

\* An item moves no hypothesis that it does not mention.
LEMMA NotMentioned ==
    ASSUME NEW E, NEW e, NEW h, h \notin e.supports, h \notin e.contradicts
    PROVE  HypothesisScore(E \cup {e}, h) = HypothesisScore(E, h)
  <1>1. /\ Supporting(E \cup {e}, h) = Supporting(E, h)
        /\ Contradicting(E \cup {e}, h) = Contradicting(E, h)
    BY DEF Supporting, Contradicting
  <1>2. /\ Support(E \cup {e}, h) = Support(E, h) /\ Counter(E \cup {e}, h) = Counter(E, h)
        /\ Types(E \cup {e}, h) = Types(E, h) /\ Number(E \cup {e}, h) = Number(E, h)
    BY <1>1 DEF Support, Counter, Types, Number
  <1> DEFINE F == E \cup {e}
  <1> HIDE DEF F
  <1>3. RawScore(F, h) = RawScore(E, h)
    <2>1. /\ Support(F, h) = Support(E, h) /\ Counter(F, h) = Counter(E, h)
          /\ Types(F, h) = Types(E, h) /\ Number(F, h) = Number(E, h)
      BY <1>2 DEF F
    <2> QED
      BY <2>1 DEF RawScore
  <1> QED
    BY <1>3, ScoreIsRounded DEF F

\* An item for a hypothesis does not lower its score.
LEMMA SupportHelps ==
    ASSUME NEW E \in SUBSET Evidence, IsFiniteSet(E), NEW e \in Evidence, e \notin E,
           NEW h \in Candidate, h \in e.supports, h \notin e.contradicts
    PROVE  HypothesisScore(E, h) <= HypothesisScore(E \cup {e}, h)
  <1> DEFINE F == E \cup {e}
             sup == Supporting(E, h)
             T == {x.type : x \in sup}
             T2 == {x.type : x \in Supporting(F, h)}
  <1>1. F \in SUBSET Evidence /\ IsFiniteSet(F)
    BY FS_AddElement
  <1>2. /\ Supporting(F, h) = sup \cup {e} /\ e \notin sup
        /\ Contradicting(F, h) = Contradicting(E, h)
    BY DEF Supporting, Contradicting
  <1>3. sup \in SUBSET Evidence /\ IsFiniteSet(sup) /\ IsFiniteSet(T2)
    BY <1>1, PartsOfEvidence
  <1>4. Support(E, h) <= Support(F, h)
    BY <1>2, <1>3, StrengthGrows DEF Support, SupportStrength
  <1>5. Counter(E, h) \in Nat /\ Counter(E, h) >= Counter(F, h)
    <2>1. Counter(E, h) \in Nat
      BY PartsOfEvidence
    <2>2. Counter(F, h) = Counter(E, h)
      BY <1>2 DEF Counter
    <2> QED
      BY <2>1, <2>2
  <1>6. Types(E, h) <= Types(F, h)
    <2>1. T \in SUBSET T2
      BY <1>2
    <2>2. Cardinality(T) <= Cardinality(T2)
      BY <1>3, <2>1, FS_Subset
    <2> QED
      BY <2>2 DEF Types
  <1>7. Number(E, h) <= Number(F, h)
    <2>1. sup \in SUBSET Supporting(F, h) /\ IsFiniteSet(Supporting(F, h))
      BY <1>1, <1>2, PartsOfEvidence
    <2> QED
      BY <2>1, FS_Subset DEF Number
  <1> HIDE DEF F
  <1>8. HypothesisScore(E, h) <= HypothesisScore(F, h)
    BY <1>1, <1>4, <1>5, <1>6, <1>7, ScoreGrows
  <1> QED
    BY <1>8 DEF F

\* An item against a hypothesis raises neither its score nor its confidence.
LEMMA ContradictionCosts ==
    ASSUME NEW E \in SUBSET Evidence, IsFiniteSet(E), NEW e \in Evidence, e \notin E,
           NEW h \in Candidate, h \notin e.supports, h \in e.contradicts
    PROVE  /\ HypothesisScore(E \cup {e}, h) <= HypothesisScore(E, h)
           /\ Confidence(E \cup {e}, h) <= Confidence(E, h)
  <1> DEFINE F == E \cup {e}
             con == Contradicting(E, h)
             sup == Supporting(E, h)
  <1>1. F \in SUBSET Evidence /\ IsFiniteSet(F)
    BY FS_AddElement
  <1>2. /\ Contradicting(F, h) = con \cup {e} /\ e \notin con
        /\ Supporting(F, h) = sup
    BY DEF Supporting, Contradicting
  <1>3. con \in SUBSET Evidence /\ IsFiniteSet(con)
    BY PartsOfEvidence
  <1>4. Counter(E, h) \in Nat /\ Counter(F, h) \in Nat /\ Counter(F, h) >= Counter(E, h)
    BY <1>2, <1>3, StrengthGrows DEF Counter
  <1>5. /\ Support(E, h) = Support(F, h) /\ Types(E, h) = Types(F, h)
        /\ Number(E, h) = Number(F, h)
    BY <1>2 DEF Support, Types, Number
  <1>6. /\ Support(E, h) \in Nat /\ Types(E, h) \in Nat /\ Number(E, h) \in Nat
        /\ MapThenSumSet(ItemQuality, sup) \in Nat
    BY PartsOfEvidence
  <1> HIDE DEF F, con, sup
  <1>7. /\ HypothesisScore(E, h) \in 0..100 /\ HypothesisScore(F, h) \in 0..100
        /\ HypothesisScore(F, h) <= HypothesisScore(E, h)
    <2>1. /\ Support(F, h) <= Support(E, h) /\ Types(F, h) <= Types(E, h)
          /\ Number(F, h) <= Number(E, h)
      BY <1>5, <1>6
    <2> QED
      BY <1>1, <1>4, <2>1, ScoreGrows
  <1> DEFINE k == Number(E, h)
             n == Max({1, k})
             q == MapThenSumSet(ItemQuality, sup)
             m == Min({2, k})
             a == 150000 + 5500 * HypothesisScore(E, h) + 75000 * m
                  - 12 * Min({10000, Counter(E, h)})
             b == 150000 + 5500 * HypothesisScore(F, h) + 75000 * m
                  - 12 * Min({10000, Counter(F, h)})
  <1>8. /\ Confidence(E, h) = Clamp(Round(n * a + 1000 * q, 10000 * n), 5, 98)
        /\ Confidence(F, h) = Clamp(Round(n * b + 1000 * q, 10000 * n), 5, 98)
    BY <1>2 DEF Confidence, Number, Counter, sup
  <1>9. k \in Nat /\ q \in Nat
    BY <1>6
  <1>10. n \in Nat \ {0} /\ m \in Nat
    BY <1>9, AtLeastOne, MinOfTwo
  <1>11. /\ Min({10000, Counter(E, h)}) \in Nat /\ Min({10000, Counter(F, h)}) \in Nat
         /\ Min({10000, Counter(E, h)}) <= Min({10000, Counter(F, h)})
    BY <1>4, MinOfTwo
  <1> HIDE DEF k, n, q, m
  <1>12. a \in Int /\ b \in Int /\ b <= a
    BY <1>7, <1>10, <1>11
  <1> HIDE DEF a, b
  <1>13. /\ n * b + 1000 * q \in Int /\ n * a + 1000 * q \in Int
         /\ n * b + 1000 * q <= n * a + 1000 * q
    <2> DEFINE j == a - b
    <2>1. j \in Nat /\ a = b + j
      BY <1>12
    <2> HIDE DEF j
    <2>2. n * j \in Nat /\ n * a = n * b + n * j /\ n * b \in Int /\ 1000 * q \in Int
      BY <1>9, <1>10, <1>12, <2>1
    <2> QED
      BY <2>2
  <1>14. 10000 * n \in Nat \ {0}
    BY <1>10
  <1> DEFINE x == n * b + 1000 * q
             y == n * a + 1000 * q
             d == 10000 * n
  <1>15. Round(x, d) \in Int /\ Round(y, d) \in Int /\ Round(x, d) <= Round(y, d)
    <2>1. x \in Int /\ y \in Int /\ x <= y /\ d \in Nat \ {0}
      BY <1>13, <1>14
    <2> HIDE DEF x, y, d
    <2> QED
      BY <2>1, RoundsInOrder
  <1>16. Clamp(Round(x, d), 5, 98) <= Clamp(Round(y, d), 5, 98)
    <2> HIDE DEF x, y, d
    <2> QED
      BY <1>15 DEF Clamp
  <1> QED
    BY <1>7, <1>8, <1>16 DEF F

\* A candidate is ahead of another, over the evidence E
AheadIn(E, g, h) == Ahead(Scores(E), g, h)

\* The order of the candidates
AheadOf(E) == {p \in Candidate \X Candidate : AheadIn(E, p[1], p[2])}

\* How many are ahead of a candidate
AheadCount(E, h) == Cardinality(Earlier(h, AheadOf(E), Candidate))

\* The candidates, in order, and how many of them are reported
Order(E) ==
    CHOOSE s \in [1..Cardinality(Candidate) -> Candidate] :
      \A i, j \in DOMAIN s : i < j => AheadIn(E, s[i], s[j])

\* The report
Ranking(E) == RankHypotheses(E, Scores(E))

Returned == IF Limit <= Cardinality(Candidate) THEN Limit ELSE Cardinality(Candidate)

\* Scores and identifiers put the candidates in an order.
LEMMA CandidatesAreOrdered ==
    ASSUME NEW E \in SUBSET Evidence, IsFiniteSet(E)
    PROVE  Orders(AheadOf(E), Candidate)
  <1>1. \A g, h \in Candidate : <<g, h>> \in AheadOf(E) <=> AheadIn(E, g, h)
    BY DEF AheadOf
  <1>2. \A h \in Candidate : HypothesisScore(E, h) \in Int /\ h \in Int
    <2>1. \A h \in Candidate : HypothesisScore(E, h) \in 0..100
      BY ScoreIsANumber
    <2>2. Candidate \subseteq Nat
      BY RankingAssumption
    <2> QED
      BY <2>1, <2>2
  <1>3. \A h \in Candidate : ~AheadIn(E, h, h)
    BY <1>2 DEF AheadIn, Ahead, Scores
  <1>4. \A g, h \in Candidate : g # h => AheadIn(E, g, h) \/ AheadIn(E, h, g)
    BY <1>2 DEF AheadIn, Ahead, Scores
  <1>5. \A f, g, h \in Candidate : AheadIn(E, f, g) /\ AheadIn(E, g, h) => AheadIn(E, f, h)
    BY <1>2 DEF AheadIn, Ahead, Scores
  <1> QED
    BY <1>1, <1>3, <1>4, <1>5 DEF Orders

\* The list has the candidates in that order.
LEMMA OrderLists ==
    ASSUME NEW E \in SUBSET Evidence, IsFiniteSet(E)
    PROVE  Lists(Order(E), AheadOf(E), Candidate)
  <1> DEFINE n == Cardinality(Candidate)
             P(s) == \A i, j \in DOMAIN s : i < j => AheadIn(E, s[i], s[j])
  <1>1. PICK t : Lists(t, AheadOf(E), Candidate)
    BY CandidatesAreOrdered, ListExists, RankingAssumption
  <1>2. t \in [1..n -> Candidate] /\ P(t)
    <2>1. t \in [1..n -> Candidate] /\ \A i, j \in 1..n : i < j => <<t[i], t[j]>> \in AheadOf(E)
      BY <1>1 DEF Lists
    <2> QED
      BY <2>1 DEF AheadOf
  <1> HIDE DEF P
  <1>3. Order(E) = CHOOSE s \in [1..n -> Candidate] : P(s)
    BY DEF Order, P
  <1>4. Order(E) \in [1..n -> Candidate] /\ P(Order(E))
    BY <1>2, <1>3
  <1>5. \A i, j \in 1..n : i < j => AheadIn(E, Order(E)[i], Order(E)[j])
    BY <1>4 DEF P
  <1>6. \A i \in 1..n : Order(E)[i] \in Candidate
    BY <1>4
  <1>7. \A i, j \in 1..n : i < j => <<Order(E)[i], Order(E)[j]>> \in AheadOf(E)
    BY <1>5, <1>6 DEF AheadOf
  <1> QED
    BY <1>4, <1>7 DEF Lists

\* What is reported.
LEMMA ReportedList ==
    ASSUME NEW E \in SUBSET Evidence, IsFiniteSet(E)
    PROVE  /\ Ranking(E) = [rank \in 1..Returned |->
                [id |-> Order(E)[rank],
                 score |-> Scores(E)[Order(E)[rank]],
                 confidence |-> Confidence(E, Order(E)[rank])]]
           /\ Returned \in Nat /\ Cardinality(Candidate) \in Nat
           /\ Returned <= Cardinality(Candidate)
  <1> DEFINE n == Cardinality(Candidate)
  <1>1. n \in Nat /\ Limit \in Nat
    BY RankingAssumption, FS_CardinalityType
  <1>2. Order(E) \in [1..n -> Candidate]
    BY OrderLists DEF Lists
  <1>3. Len(Order(E)) = n
    BY <1>1, <1>2, ListIsASequence
  <1>4. Min({Limit, n}) = Returned
    BY <1>1, MinOfTwo DEF Returned
  <1>5. Ranking(E) = [rank \in 1..Min({Limit, Len(Order(E))}) |->
          [id |-> Order(E)[rank],
           score |-> Scores(E)[Order(E)[rank]],
           confidence |-> Confidence(E, Order(E)[rank])]]
    BY DEF Ranking, RankHypotheses, InOrder, Order, AheadIn
  <1> QED
    BY <1>1, <1>3, <1>4, <1>5 DEF Returned

\* The place of a candidate is one more than the number of those ahead of it,
\* or the last one.
LEMMA PlaceCounts ==
    ASSUME NEW E \in SUBSET Evidence, IsFiniteSet(E), NEW h \in Candidate
    PROVE  /\ AheadCount(E, h) \in Nat
           /\ Place(Ranking(E), h) =
                IF AheadCount(E, h) < Returned THEN AheadCount(E, h) + 1 ELSE Returned + 1
           /\ \A i \in DOMAIN Ranking(E) :
                Ranking(E)[i].id = h =>
                  Ranking(E)[i].confidence = Confidence(E, h)
  <1> DEFINE n == Cardinality(Candidate)
             l == Ranking(E)
             k == AheadCount(E, h)
             o == Order(E)
             places == {i \in DOMAIN l : l[i].id = h}
  <1>1. n \in Nat /\ Returned \in Nat /\ Returned <= n
    BY ReportedList
  <1>2. /\ DOMAIN l = 1..Returned
        /\ \A i \in 1..Returned : l[i].id = o[i] /\ l[i].confidence = Confidence(E, o[i])
    BY ReportedList
  <1>3. Len(l) = Returned
    <2>1. l \in [1..Returned -> {l[i] : i \in 1..Returned}]
      BY ReportedList
    <2> HIDE DEF l
    <2> QED
      BY <1>1, <2>1, ListIsASequence
  <1>4. /\ \A x \in Candidate : \E i \in 1..n : o[i] = x
        /\ \A i \in 1..n : AheadCount(E, o[i]) = i - 1
    BY OrderLists, CandidatesAreOrdered, ListPlaces, RankingAssumption DEF AheadCount
  <1>5. k \in Nat /\ k < n
    BY CandidatesAreOrdered, EarlierGrows, RankingAssumption DEF AheadCount
  <1>6. Place(l, h) = IF places = {} THEN Len(l) + 1 ELSE CHOOSE i \in places : TRUE
    BY DEF Place
  <1>7. \A i \in 1..n : o[i] = h <=> i = k + 1
    <2>1. PICK m \in 1..n : o[m] = h
      BY <1>4
    <2>2. m = k + 1
      <3>1. k = m - 1
        BY <1>4, <2>1
      <3> HIDE DEF k, n
      <3> QED
        BY <1>1, <1>5, <3>1
    <2>3. ASSUME NEW i \in 1..n, o[i] = h PROVE i = k + 1
      <3>1. k = i - 1
        BY <1>4, <2>3
      <3> HIDE DEF k, n
      <3> QED
        BY <1>1, <1>5, <3>1
    <2> QED
      BY <2>1, <2>2, <2>3
  <1>8. places = {i \in 1..Returned : i = k + 1}
    <2>1. \A i \in 1..Returned : i \in 1..n
      <3> HIDE DEF n
      <3> QED
        BY <1>1
    <2> HIDE DEF l, o, k, n
    <2> QED
      BY <1>2, <1>7, <2>1
  <1> HIDE DEF n, l, k, o, places
  <1>9. Place(l, h) = IF k < Returned THEN k + 1 ELSE Returned + 1
    <2>1. CASE k < Returned
      <3>1. places = {k + 1}
        BY <1>1, <1>5, <1>8, <2>1
      <3> QED
        BY <1>6, <2>1, <3>1
    <2>2. CASE ~(k < Returned)
      <3>1. places = {}
        BY <1>1, <1>5, <1>8, <2>2
      <3> QED
        BY <1>3, <1>6, <2>2, <3>1
    <2> QED
      BY <2>1, <2>2
  <1>10. \A i \in DOMAIN l : l[i].id = h => l[i].confidence = Confidence(E, h)
    BY <1>2
  <1> QED
    BY <1>5, <1>9, <1>10 DEF l, k

\* With fewer ahead of it a candidate has no worse place, and a candidate with
\* a better place is ahead.
LEMMA PlacesFollow ==
    ASSUME NEW E \in SUBSET Evidence, IsFiniteSet(E), NEW F \in SUBSET Evidence, IsFiniteSet(F),
           NEW g \in Candidate, NEW h \in Candidate
    PROVE  /\ AheadCount(E, g) <= AheadCount(F, h) =>
                Place(Ranking(E), g) <= Place(Ranking(F), h)
           /\ Place(Ranking(E), g) < Place(Ranking(E), h) => AheadIn(E, g, h)
           /\ AheadIn(E, g, h) => AheadCount(E, g) <= AheadCount(E, h)
  <1> DEFINE a == AheadCount(E, g)
             b == AheadCount(F, h)
             c == AheadCount(E, h)
             p == Place(Ranking(E), g)
             q == Place(Ranking(F), h)
             r == Place(Ranking(E), h)
  <1>1. /\ a \in Nat /\ p = IF a < Returned THEN a + 1 ELSE Returned + 1
        /\ b \in Nat /\ q = IF b < Returned THEN b + 1 ELSE Returned + 1
        /\ c \in Nat /\ r = IF c < Returned THEN c + 1 ELSE Returned + 1
    BY PlaceCounts
  <1>2. Returned \in Nat
    BY ReportedList
  <1>3. AheadIn(E, g, h) => a < c
    <2>1. AheadIn(E, g, h) => <<g, h>> \in AheadOf(E)
      BY DEF AheadOf
    <2> QED
      BY <2>1, CandidatesAreOrdered, EarlierGrows, RankingAssumption DEF AheadCount
  <1>4. AheadIn(E, h, g) => c < a
    <2>1. AheadIn(E, h, g) => <<h, g>> \in AheadOf(E)
      BY DEF AheadOf
    <2> QED
      BY <2>1, CandidatesAreOrdered, EarlierGrows, RankingAssumption DEF AheadCount
  <1>5. AheadIn(E, g, h) \/ AheadIn(E, h, g) \/ g = h
    BY CandidatesAreOrdered DEF Orders, AheadOf
  <1>6. g = h => a = c
    OBVIOUS
  <1> HIDE DEF a, b, c, p, q, r
  <1>7. a <= b => p <= q
    BY <1>1, <1>2
  <1>8. p < r => a < c
    BY <1>1, <1>2
  <1>9. p < r => AheadIn(E, g, h)
    BY <1>1, <1>4, <1>5, <1>6, <1>8
  <1>10. AheadIn(E, g, h) => a <= c
    BY <1>1, <1>3
  <1> QED
    BY <1>7, <1>9, <1>10 DEF a, b, c, p, q, r

\* If only h changes its score, and does not lose, no more are ahead of it.
LEMMA FewerAhead ==
    ASSUME NEW E \in SUBSET Evidence, IsFiniteSet(E), NEW F \in SUBSET Evidence, IsFiniteSet(F),
           NEW h \in Candidate, HypothesisScore(E, h) <= HypothesisScore(F, h),
           \A g \in Candidate \ {h} : HypothesisScore(E, g) = HypothesisScore(F, g)
    PROVE  AheadCount(F, h) <= AheadCount(E, h)
  <1> DEFINE A == Earlier(h, AheadOf(F), Candidate)
             B == Earlier(h, AheadOf(E), Candidate)
  <1>1. \A g \in Candidate :
          HypothesisScore(E, g) \in Int /\ HypothesisScore(F, g) \in Int /\ g \in Int
    <2>1. \A g \in Candidate : HypothesisScore(E, g) \in 0..100 /\ HypothesisScore(F, g) \in 0..100
      BY ScoreIsANumber
    <2>2. Candidate \subseteq Nat
      BY RankingAssumption
    <2> QED
      BY <2>1, <2>2
  <1>2. \A g \in Candidate : AheadIn(F, g, h) => g # h
    BY <1>1 DEF AheadIn, Ahead, Scores
  <1>3. ASSUME NEW g \in Candidate, AheadIn(F, g, h) PROVE AheadIn(E, g, h)
    <2>1. g # h /\ HypothesisScore(E, g) = HypothesisScore(F, g)
      BY <1>2, <1>3
    <2> QED
      BY <1>1, <1>3, <2>1 DEF AheadIn, Ahead, Scores
  <1>4. A \in SUBSET B
    BY <1>3 DEF Earlier, AheadOf
  <1>5. B \in SUBSET Candidate
    BY DEF Earlier
  <1>6. IsFiniteSet(B)
    BY <1>5, FS_Subset, RankingAssumption
  <1>7. Cardinality(A) <= Cardinality(B)
    BY <1>4, <1>6, FS_Subset
  <1> QED
    BY <1>7 DEF AheadCount

\* What is ranked is the recorded evidence
RankingInv ==
    /\ recorded \in SUBSET Evidence /\ IsFiniteSet(recorded)
    /\ ranked = Ranking(recorded)

\* It stays so with every item that is added.
LEMMA RankingStep == RankingInv /\ [RankingNext]_rankingVars => RankingInv'
  <1> SUFFICES ASSUME RankingInv, [RankingNext]_rankingVars PROVE RankingInv'
    OBVIOUS
  <1>1. ASSUME NEW e \in Evidence, AddEvidence(e) PROVE RankingInv'
    <2>1. recorded' = recorded \cup {e} /\ ranked' = Ranking(recorded')
      BY <1>1 DEF AddEvidence, Ranking
    <2>2. recorded' \in SUBSET Evidence
      BY <2>1 DEF RankingInv
    <2>3. IsFiniteSet(recorded')
      BY <2>1, FS_AddElement DEF RankingInv
    <2> QED
      BY <2>1, <2>2, <2>3 DEF RankingInv
  <1>2. CASE UNCHANGED rankingVars
    BY <1>2 DEF rankingVars, RankingInv
  <1> QED
    BY <1>1, <1>2 DEF RankingNext

\* It is so from the start.
LEMMA RankingStays ==
    /\ RankingInit => RankingInv
    /\ RankingSpec => []RankingInv
  <1>1. RankingInit => RankingInv
    BY FS_EmptySet DEF RankingInit, RankingInv, Ranking
  <1> QED
    BY <1>1, RankingStep, PTL DEF RankingSpec

\* What an item does to the places, over the evidence E.
LEMMA ItemMoves ==
    ASSUME NEW E \in SUBSET Evidence, IsFiniteSet(E), NEW e \in Evidence, e \notin E,
           NEW F, F = E \cup {e}, NEW g \in Candidate, NEW h \in Candidate
    PROVE  /\ e.supports = {h} /\ e.contradicts = {} =>
                Place(Ranking(F), h) <= Place(Ranking(E), h)
           /\ e.contradicts = {h} /\ e.supports = {} =>
                /\ Place(Ranking(F), h) >= Place(Ranking(E), h)
                /\ \A i \in DOMAIN Ranking(E), j \in DOMAIN Ranking(F) :
                     Ranking(E)[i].id = h /\ Ranking(F)[j].id = h =>
                       Ranking(F)[j].confidence <= Ranking(E)[i].confidence
           /\ ({g, h} \cap (e.supports \cup e.contradicts) = {}
                 /\ Place(Ranking(E), g) < Place(Ranking(E), h)) =>
                Place(Ranking(F), g) <= Place(Ranking(F), h)
  <1>1. F \in SUBSET Evidence /\ IsFiniteSet(F)
    BY FS_AddElement
  <1>2. ASSUME NEW x \in Candidate, x \notin e.supports, x \notin e.contradicts
        PROVE  HypothesisScore(F, x) = HypothesisScore(E, x)
    BY <1>2, NotMentioned
  <1>3. ASSUME e.supports = {h}, e.contradicts = {}
        PROVE  Place(Ranking(F), h) <= Place(Ranking(E), h)
    <2>1. HypothesisScore(E, h) <= HypothesisScore(F, h)
      BY <1>3, SupportHelps
    <2>2. \A x \in Candidate \ {h} : HypothesisScore(E, x) = HypothesisScore(F, x)
      BY <1>2, <1>3
    <2>3. AheadCount(F, h) <= AheadCount(E, h)
      BY <1>1, <2>1, <2>2, FewerAhead
    <2> QED
      BY <1>1, <2>3, PlacesFollow
  <1>4. ASSUME e.contradicts = {h}, e.supports = {}
        PROVE  /\ Place(Ranking(F), h) >= Place(Ranking(E), h)
               /\ \A i \in DOMAIN Ranking(E), j \in DOMAIN Ranking(F) :
                    Ranking(E)[i].id = h /\ Ranking(F)[j].id = h =>
                      Ranking(F)[j].confidence <= Ranking(E)[i].confidence
    <2>1. HypothesisScore(F, h) <= HypothesisScore(E, h) /\ Confidence(F, h) <= Confidence(E, h)
      BY <1>4, ContradictionCosts
    <2>2. \A x \in Candidate \ {h} : HypothesisScore(E, x) = HypothesisScore(F, x)
      BY <1>2, <1>4
    <2>3. AheadCount(E, h) <= AheadCount(F, h)
      BY <1>1, <2>1, <2>2, FewerAhead
    <2>4. Place(Ranking(E), h) <= Place(Ranking(F), h)
      BY <1>1, <2>3, PlacesFollow
    <2>5. /\ \A i \in DOMAIN Ranking(E) : Ranking(E)[i].id = h =>
               Ranking(E)[i].confidence = Confidence(E, h)
          /\ \A j \in DOMAIN Ranking(F) : Ranking(F)[j].id = h =>
               Ranking(F)[j].confidence = Confidence(F, h)
      BY <1>1, PlaceCounts
    <2> QED
      BY <2>1, <2>4, <2>5
  <1>5. ASSUME {g, h} \cap (e.supports \cup e.contradicts) = {},
               Place(Ranking(E), g) < Place(Ranking(E), h)
        PROVE  Place(Ranking(F), g) <= Place(Ranking(F), h)
    <2>1. /\ HypothesisScore(F, g) = HypothesisScore(E, g)
          /\ HypothesisScore(F, h) = HypothesisScore(E, h)
      BY <1>2, <1>5
    <2>2. AheadIn(E, g, h)
      BY <1>5, PlacesFollow
    <2>3. AheadIn(F, g, h)
      BY <2>1, <2>2 DEF AheadIn, Ahead, Scores
    <2>4. AheadCount(F, g) <= AheadCount(F, h)
      BY <1>1, <2>3, PlacesFollow
    <2> QED
      BY <1>1, <2>4, PlacesFollow
  <1> QED
    BY <1>3, <1>4, <1>5

\* However many candidates rank_hypotheses has and whatever evidence is
\* recorded: an item for one candidate never costs it a place, an item against
\* it never earns it one or raises its confidence, and two candidates an item
\* does not mention keep their order, through caps, rounding and the cut.
THEOREM RankingStaysExplained == RankingSpec => RankingFollowsEvidence
  <1> DEFINE Follows ==
        \A e \in recorded' \ recorded, g, h \in Candidate :
          /\ e.supports = {h} /\ e.contradicts = {} =>
               Place(ranked', h) <= Place(ranked, h)
          /\ e.contradicts = {h} /\ e.supports = {} =>
               /\ Place(ranked', h) >= Place(ranked, h)
               /\ \A i \in DOMAIN ranked, j \in DOMAIN ranked' :
                    ranked[i].id = h /\ ranked'[j].id = h =>
                      ranked'[j].confidence <= ranked[i].confidence
          /\ ({g, h} \cap (e.supports \cup e.contradicts) = {}
                /\ Place(ranked, g) < Place(ranked, h)) =>
               Place(ranked', g) <= Place(ranked', h)
  <1>1. RankingInv /\ [RankingNext]_rankingVars => [Follows]_rankingVars
    <2> SUFFICES ASSUME RankingInv, NEW x \in Evidence, AddEvidence(x),
                        NEW e \in recorded' \ recorded, NEW g \in Candidate, NEW h \in Candidate
                 PROVE  /\ e.supports = {h} /\ e.contradicts = {} =>
                             Place(ranked', h) <= Place(ranked, h)
                        /\ e.contradicts = {h} /\ e.supports = {} =>
                             /\ Place(ranked', h) >= Place(ranked, h)
                             /\ \A i \in DOMAIN ranked, j \in DOMAIN ranked' :
                                  ranked[i].id = h /\ ranked'[j].id = h =>
                                    ranked'[j].confidence <= ranked[i].confidence
                        /\ ({g, h} \cap (e.supports \cup e.contradicts) = {}
                              /\ Place(ranked, g) < Place(ranked, h)) =>
                             Place(ranked', g) <= Place(ranked', h)
      BY DEF RankingNext
    <2>1. e = x /\ recorded' = recorded \cup {x} /\ x \notin recorded
      BY DEF AddEvidence
    <2>2. /\ recorded \in SUBSET Evidence /\ IsFiniteSet(recorded)
          /\ ranked = Ranking(recorded) /\ ranked' = Ranking(recorded')
      BY DEF RankingInv, AddEvidence, Ranking
    <2> QED
      BY <2>1, <2>2, ItemMoves
  <1> QED
    BY <1>1, RankingStays, PTL DEF RankingSpec, RankingFollowsEvidence

-------------------------------------------------------------------------------
(* BlastRadius *)

\* The ways of up to MaxHops edges of E from the services in c, one length
\* after the other
WaysFrom(c, E, g) ==
    [k \in 0..MaxHops |->
       IF k = 0 THEN {<<s, s, 1>> : s \in c}
       ELSE {<<p[1][1], p[2].target, p[1][3] * p[2].confidence>> :
               p \in {q \in g[k - 1] \X E :
                        q[2].source = q[1][2] /\ q[2].target \in Listed \cup c}}]

Ways(c, E) == CHOOSE g : g = WaysFrom(c, E, g)

\* The same, of at most n edges
WaysUpTo(n, c, E, g) ==
    [k \in 0..n |->
       IF k = 0 THEN {<<s, s, 1>> : s \in c}
       ELSE {<<p[1][1], p[2].target, p[1][3] * p[2].confidence>> :
               p \in {q \in g[k - 1] \X E :
                        q[2].source = q[1][2] /\ q[2].target \in Listed \cup c}}]

\* The ways exist.
LEMMA WaysExist ==
    ASSUME NEW c, NEW E
    PROVE  \E g : g = WaysFrom(c, E, g)
  <1> DEFINE Missing == {n \in Nat : ~ \E g : g = WaysUpTo(n, c, E, g)}
             Longer(W) == {<<p[1][1], p[2].target, p[1][3] * p[2].confidence>> :
                             p \in {q \in W \X E :
                               q[2].source = q[1][2] /\ q[2].target \in Listed \cup c}}
             First == {<<s, s, 1>> : s \in c}
  <1>1. Missing = {}
    <2> SUFFICES ASSUME Missing # {} PROVE FALSE
      OBVIOUS
    <2>1. PICK n \in Missing : \A m \in Missing : n <= m
      BY LeastOne
    <2>2. n \in Nat /\ ~ \E g : g = WaysUpTo(n, c, E, g)
      OBVIOUS
    <2>3. CASE n = 0
      <3> DEFINE g == [k \in 0..0 |-> First]
      <3>1. \A k \in 0..0 : k = 0
        OBVIOUS
      <3>2. g = WaysUpTo(0, c, E, g)
        BY <3>1 DEF WaysUpTo
      <3> QED
        BY <2>2, <2>3, <3>2
    <2>4. CASE n # 0
      <3>1. n - 1 \in Nat /\ ~(n <= n - 1)
        BY <2>2, <2>4
      <3>2. PICK g : g = WaysUpTo(n - 1, c, E, g)
        BY <2>1, <3>1
      <3> DEFINE h == WaysUpTo(n, c, E, g)
      <3> HIDE DEF Longer, First
      <3>3. \A f, m : WaysUpTo(m, c, E, f)
                        = [k \in 0..m |-> IF k = 0 THEN First ELSE Longer(f[k - 1])]
        BY DEF WaysUpTo, First, Longer
      <3>4. h = [k \in 0..n |-> IF k = 0 THEN First ELSE Longer(g[k - 1])]
        BY <3>3
      <3>5. g = [k \in 0..(n - 1) |-> IF k = 0 THEN First ELSE Longer(g[k - 1])]
        BY <3>2, <3>3
      <3> HIDE DEF h
      <3>6. \A k \in 0..(n - 1) : h[k] = g[k]
        <4> SUFFICES ASSUME NEW k \in 0..(n - 1) PROVE h[k] = g[k]
          OBVIOUS
        <4>1. k \in 0..n
          BY <2>2
        <4>2. h[k] = IF k = 0 THEN First ELSE Longer(g[k - 1])
          BY <3>4, <4>1
        <4>3. g[k] = IF k = 0 THEN First ELSE Longer(g[k - 1])
          BY <3>5
        <4> QED
          BY <4>2, <4>3
      <3>7. \A k \in 0..n : k # 0 => k - 1 \in 0..(n - 1)
        BY <2>2
      <3>8. h = [k \in 0..n |-> IF k = 0 THEN First ELSE Longer(h[k - 1])]
        BY <3>4, <3>6, <3>7
      <3> QED
        BY <2>2, <3>3, <3>8
    <2> QED
      BY <2>3, <2>4
  <1>2. PICK g : g = WaysUpTo(MaxHops, c, E, g)
    BY <1>1, BlastAssumption
  <1> QED
    BY <1>2 DEF WaysUpTo, WaysFrom

\* A way of no edges stays at a changed service; a longer one has a last edge.
LEMMA WayEnds ==
    ASSUME NEW c, NEW E
    PROVE  /\ \A w : w \in Ways(c, E)[0] <=> \E s \in c : w = <<s, s, 1>>
           /\ \A k \in 0..MaxHops : k # 0 =>
                \A w : w \in Ways(c, E)[k] <=>
                  \E v \in Ways(c, E)[k - 1] : \E e \in E :
                    /\ e.source = v[2] /\ e.target \in Listed \cup c
                    /\ w = <<v[1], e.target, v[3] * e.confidence>>
  <1> DEFINE g == Ways(c, E)
  <1>1. g = WaysFrom(c, E, g)
    BY WaysExist DEF Ways
  <1> HIDE DEF g
  <1>2. 0 \in 0..MaxHops
    BY BlastAssumption
  <1>3. g[0] = {<<s, s, 1>> : s \in c}
    BY <1>1, <1>2 DEF WaysFrom
  <1>4. ASSUME NEW k \in 0..MaxHops, k # 0, NEW w
        PROVE  w \in g[k] <=>
                 \E v \in g[k - 1] : \E e \in E :
                   /\ e.source = v[2] /\ e.target \in Listed \cup c
                   /\ w = <<v[1], e.target, v[3] * e.confidence>>
    <2>1. g[k] = {<<p[1][1], p[2].target, p[1][3] * p[2].confidence>> :
               p \in {q \in g[k - 1] \X E :
                        q[2].source = q[1][2] /\ q[2].target \in Listed \cup c}}
      BY <1>1, <1>4 DEF WaysFrom
    <2>2. ASSUME w \in g[k]
          PROVE  \E v \in g[k - 1] : \E e \in E :
                   /\ e.source = v[2] /\ e.target \in Listed \cup c
                   /\ w = <<v[1], e.target, v[3] * e.confidence>>
      <3>1. PICK p \in g[k - 1] \X E :
              /\ p[2].source = p[1][2] /\ p[2].target \in Listed \cup c
              /\ w = <<p[1][1], p[2].target, p[1][3] * p[2].confidence>>
        BY <2>1, <2>2
      <3>2. p[1] \in g[k - 1] /\ p[2] \in E
        OBVIOUS
      <3> QED
        BY <3>1, <3>2
    <2>3. ASSUME NEW v \in g[k - 1], NEW e \in E,
                 e.source = v[2], e.target \in Listed \cup c,
                 w = <<v[1], e.target, v[3] * e.confidence>>
          PROVE  w \in g[k]
      <3> DEFINE p == <<v, e>>
      <3>1. p[1] = v /\ p[2] = e
        OBVIOUS
      <3>2. p \in g[k - 1] \X E
        OBVIOUS
      <3>3. p \in {q \in g[k - 1] \X E :
                     q[2].source = q[1][2] /\ q[2].target \in Listed \cup c}
        BY <2>3, <3>1, <3>2
      <3>4. w = <<p[1][1], p[2].target, p[1][3] * p[2].confidence>>
        BY <2>3, <3>1
      <3> HIDE DEF p
      <3> QED
        BY <2>1, <3>3, <3>4
    <2> QED
      BY <2>2, <2>3
  <1> QED
    BY <1>3, <1>4 DEF g

\* A way leads from a changed service to a known one and has a confidence.
LEMMA WayTyped ==
    ASSUME NEW c \in Changes, NEW E \in SUBSET EdgePool, NEW k \in 0..MaxHops,
           NEW w \in Ways(c, E)[k]
    PROVE  /\ w[1] \in Node /\ w[2] \in Node /\ w[2] \in Listed \cup c
           /\ w[3] \in Nat /\ w = <<w[1], w[2], w[3]>>
  <1> DEFINE Fine(v) == /\ v[1] \in Node /\ v[2] \in Node /\ v[2] \in Listed \cup c
                        /\ v[3] \in Nat /\ v = <<v[1], v[2], v[3]>>
             Bad == {j \in 0..MaxHops : \E v \in Ways(c, E)[j] : ~Fine(v)}
  <1> SUFFICES Bad = {}
    OBVIOUS
  <1> SUFFICES ASSUME Bad # {} PROVE FALSE
    OBVIOUS
  <1>1. Bad \subseteq Nat
    BY BlastAssumption
  <1>2. PICK j \in Bad : \A i \in Bad : j <= i
    BY <1>1, LeastOne
  <1>3. PICK v \in Ways(c, E)[j] : ~Fine(v)
    OBVIOUS
  <1>4. c \subseteq Node
    BY BlastAssumption
  <1>5. CASE j = 0
    <2>1. PICK s \in c : v = <<s, s, 1>>
      BY <1>3, <1>5, WayEnds
    <2> QED
      BY <1>3, <1>4, <2>1
  <1>6. CASE j # 0
    <2>1. j \in 0..MaxHops /\ j - 1 \in 0..MaxHops /\ ~(j <= j - 1)
      BY <1>1, <1>6, BlastAssumption
    <2>2. PICK u \in Ways(c, E)[j - 1] : \E e \in E :
                    /\ e.source = u[2] /\ e.target \in Listed \cup c
                    /\ v = <<u[1], e.target, u[3] * e.confidence>>
      BY <1>3, <1>6, <2>1, WayEnds
    <2>3. PICK e \in E : /\ e.source = u[2] /\ e.target \in Listed \cup c
                         /\ v = <<u[1], e.target, u[3] * e.confidence>>
      BY <2>2
    <2>4. Fine(u)
      BY <1>2, <2>1
    <2>5. e.target \in Node /\ e.confidence \in Nat
      BY BlastAssumption
    <2>6. u[3] * e.confidence \in Nat
      BY <2>4, <2>5
    <2> QED
      BY <1>3, <2>3, <2>4, <2>5, <2>6
  <1> QED
    BY <1>5, <1>6

\* The ways of the specification are these.
LEMMA WalksAreWays == Walks = Ways(changed, edges)
  BY DEF Walks, Ways, WaysFrom, Known

\* The edges that leave n
Leaving(n) == {e \in edges : e.source = n}

\* Edges that leave a service are listed, each of them once, and no others.
LEMMA AdjacentOnes ==
    ASSUME NEW n, edges \in SUBSET EdgePool
    PROVE  /\ Adjacent(n) \in Seq(edges)
           /\ \A i \in 1..Len(Adjacent(n)) : Adjacent(n)[i] \in Leaving(n)
           /\ \A e \in Leaving(n) : \E i \in 1..Len(Adjacent(n)) : Adjacent(n)[i] = e
  <1> DEFINE S == Leaving(n)
             N == Cardinality(S)
             R == {p \in S \X S : Before(p[1], p[2])}
             s == Adjacent(n)
  <1>1. S \in SUBSET EdgePool /\ IsFiniteSet(S) /\ N \in Nat
    <2>1. S \in SUBSET EdgePool
      BY DEF Leaving
    <2> QED
      BY <2>1, FS_Subset, FS_CardinalityType, BlastAssumption
  <1>2. \A e \in S : /\ e.target \in Nat /\ e.relation \in Nat /\ e.place \in Nat
                     /\ \A d \in S : d.place = e.place => d = e
    BY <1>1, BlastAssumption
  <1> HIDE DEF S
  <1>3. \A d, e \in S : <<d, e>> \in R <=> Before(d, e)
    OBVIOUS
  <1>4. Orders(R, S)
    <2>1. \A x \in S : ~Before(x, x)
      BY <1>2 DEF Before
    <2>2. \A x, y \in S : x # y => Before(x, y) \/ Before(y, x)
      BY <1>2 DEF Before
    <2>3. \A x, y, z \in S : Before(x, y) /\ Before(y, z) => Before(x, z)
      BY <1>2 DEF Before
    <2> HIDE DEF R
    <2> QED
      BY <1>3, <2>1, <2>2, <2>3 DEF Orders
  <1> HIDE DEF R
  <1>5. PICK r : Lists(r, R, S)
    BY <1>1, <1>4, ListExists
  <1>6. r \in [1..N -> S] /\ \A i, j \in 1..N : i < j => Before(r[i], r[j])
    BY <1>3, <1>5 DEF Lists
  <1>7. s = CHOOSE t \in [1..N -> S] : \A i, j \in DOMAIN t : i < j => Before(t[i], t[j])
    BY DEF Adjacent, InOrder, S, Leaving
  <1> HIDE DEF s
  <1>8. s \in [1..N -> S] /\ \A i, j \in 1..N : i < j => Before(s[i], s[j])
    <2>1. DOMAIN r = 1..N
      BY <1>6
    <2>2. \E t \in [1..N -> S] : \A i, j \in DOMAIN t : i < j => Before(t[i], t[j])
      BY <1>6, <2>1
    <2> QED
      BY <1>7, <2>2
  <1>9. Lists(s, R, S)
    BY <1>3, <1>8 DEF Lists
  <1>10. \A x \in S : \E i \in 1..N : s[i] = x
    BY <1>1, <1>4, <1>9, ListPlaces
  <1>11. s \in Seq(S) /\ Len(s) = N
    BY <1>1, <1>8, ListIsASequence
  <1>12. s \in Seq(edges)
    <2>1. S \subseteq edges
      BY DEF S, Leaving
    <2>2. s \in [1..N -> edges]
      BY <1>8, <2>1
    <2> QED
      BY <1>1, <2>2, ListIsASequence
  <1> QED
    BY <1>8, <1>10, <1>11, <1>12 DEF S, s

\* The changed services are queued, and no others.
LEMMA ChangedOnes ==
    ASSUME NEW c \in Changes
    PROVE  /\ InOrder(c, <) \in Seq(c) /\ InOrder(c, <) \in Seq(Node)
           /\ \A n \in c : \E i \in 1..Len(InOrder(c, <)) : InOrder(c, <)[i] = n
  <1> DEFINE N == Cardinality(c)
             R == {p \in c \X c : p[1] < p[2]}
             s == InOrder(c, <)
  <1>1. c \subseteq Nat /\ IsFiniteSet(c) /\ N \in Nat
    BY FS_CardinalityType, BlastAssumption
  <1>2. \A x, y \in c : <<x, y>> \in R <=> x < y
    OBVIOUS
  <1> HIDE DEF R
  <1>3. Orders(R, c)
    BY <1>1, <1>2 DEF Orders
  <1>4. PICK r : Lists(r, R, c)
    BY <1>1, <1>3, ListExists
  <1>5. r \in [1..N -> c] /\ \A i, j \in 1..N : i < j => r[i] < r[j]
    BY <1>2, <1>4 DEF Lists
  <1>6. s = CHOOSE t \in [1..N -> c] : \A i, j \in DOMAIN t : i < j => t[i] < t[j]
    BY DEF InOrder
  <1> HIDE DEF s
  <1>7. s \in [1..N -> c] /\ \A i, j \in 1..N : i < j => s[i] < s[j]
    <2>1. DOMAIN r = 1..N
      BY <1>5
    <2>2. \E t \in [1..N -> c] : \A i, j \in DOMAIN t : i < j => t[i] < t[j]
      BY <1>5, <2>1
    <2> QED
      BY <1>6, <2>2
  <1>8. Lists(s, R, c)
    BY <1>2, <1>7 DEF Lists
  <1>9. \A x \in c : \E i \in 1..N : s[i] = x
    BY <1>1, <1>3, <1>8, ListPlaces
  <1>10. s \in Seq(c) /\ Len(s) = N
    BY <1>1, <1>7, ListIsASequence
  <1>11. s \in Seq(Node)
    <2>1. s \in [1..N -> Node]
      BY <1>7, BlastAssumption
    <2> QED
      BY <1>1, <2>1, ListIsASequence
  <1> QED
    BY <1>9, <1>10, <1>11 DEF s

\* x is in the sequence s
IsIn(x, s) == \E i \in 1..Len(s) : s[i] = x

\* What a step does to the queue and to the edges that are still to follow.
LEMMA SequenceMembers ==
    ASSUME NEW S, NEW s \in Seq(S), NEW x
    PROVE  /\ IsIn(x, s) => x \in S
           /\ s # <<>> => /\ Head(s) \in S /\ Tail(s) \in Seq(S)
                          /\ IsIn(x, s) <=> x = Head(s) \/ IsIn(x, Tail(s))
           /\ \A y \in S : /\ Append(s, y) \in Seq(S)
                           /\ IsIn(x, Append(s, y)) <=> x = y \/ IsIn(x, s)
  <1>1. Len(s) \in Nat /\ \A i \in 1..Len(s) : s[i] \in S
    BY ElementOfSeq, LenProperties
  <1>2. ASSUME s # <<>>
        PROVE  /\ Head(s) \in S /\ Tail(s) \in Seq(S)
               /\ IsIn(x, s) <=> x = Head(s) \/ IsIn(x, Tail(s))
    <2>1. /\ Tail(s) \in Seq(S) /\ Len(s) >= 1 /\ Len(Tail(s)) = Len(s) - 1
          /\ Head(s) = s[1] /\ \A i \in 1..Len(Tail(s)) : Tail(s)[i] = s[i + 1]
      BY <1>2, HeadTailProperties, EmptySeq
    <2>2. IsIn(x, s) => x = Head(s) \/ IsIn(x, Tail(s))
      <3> SUFFICES ASSUME NEW i \in 1..Len(s), s[i] = x, x # s[1]
                   PROVE  IsIn(x, Tail(s))
        BY <2>1 DEF IsIn
      <3>1. i - 1 \in 1..Len(Tail(s)) /\ (i - 1) + 1 = i
        BY <1>1, <2>1
      <3> QED
        BY <2>1, <3>1 DEF IsIn
    <2>3. x = Head(s) => IsIn(x, s)
      BY <1>1, <2>1 DEF IsIn
    <2>4. IsIn(x, Tail(s)) => IsIn(x, s)
      <3> SUFFICES ASSUME NEW i \in 1..Len(Tail(s)), Tail(s)[i] = x PROVE IsIn(x, s)
        BY DEF IsIn
      <3>1. i + 1 \in 1..Len(s) /\ s[i + 1] = x
        BY <1>1, <2>1
      <3> QED
        BY <3>1 DEF IsIn
    <2>5. Head(s) \in S
      BY <1>1, <2>1
    <2> QED
      BY <2>1, <2>2, <2>3, <2>4, <2>5
  <1>3. ASSUME NEW y \in S
        PROVE  /\ Append(s, y) \in Seq(S)
               /\ IsIn(x, Append(s, y)) <=> x = y \/ IsIn(x, s)
    <2>1. /\ Append(s, y) \in Seq(S) /\ Len(Append(s, y)) = Len(s) + 1
          /\ \A i \in 1..Len(s) : Append(s, y)[i] = s[i]
          /\ Append(s, y)[Len(s) + 1] = y
      BY AppendProperties
    <2>2. IsIn(x, Append(s, y)) => x = y \/ IsIn(x, s)
      <3> SUFFICES ASSUME NEW i \in 1..(Len(s) + 1), Append(s, y)[i] = x, x # y
                   PROVE  IsIn(x, s)
        BY <2>1 DEF IsIn
      <3>1. i \in 1..Len(s)
        BY <1>1, <2>1
      <3> QED
        BY <2>1, <3>1 DEF IsIn
    <2>3. x = y => IsIn(x, Append(s, y))
      BY <1>1, <2>1 DEF IsIn
    <2>4. IsIn(x, s) => IsIn(x, Append(s, y))
      BY <1>1, <2>1 DEF IsIn
    <2> QED
      BY <2>1, <2>2, <2>3, <2>4
  <1>4. IsIn(x, s) => x \in S
    BY <1>1 DEF IsIn
  <1> QED
    BY <1>2, <1>3, <1>4

BlastTypes ==
    /\ edges \in SUBSET EdgePool /\ changed \in Changes
    /\ queue \in Seq(Node) /\ source \in Node /\ outgoing \in Seq(edges)
    /\ distance \in [Node -> {Far} \cup 0..MaxHops]
    /\ certainty \in [Node -> {Far} \cup Nat]
    /\ origin \in [Node -> {Far} \cup Node]

\* Nothing is reported, or the walk is over and everything that was reached is
ReportIsLast ==
    \/ impact = [n \in Node |-> Far]
    \/ /\ queue = <<>> /\ outgoing = <<>>
       /\ impact = [n \in Node |-> IF distance[n] = Far THEN Far ELSE Score(n)]

\* What is known of a service that was reached is true of one of the ways to it
ReachedByWays ==
    \A n \in Node :
        /\ distance[n] = Far => certainty[n] = Far /\ origin[n] = Far
        /\ distance[n] # Far =>
             <<origin[n], n, certainty[n]>> \in Ways(changed, edges)[distance[n]]
        /\ n \in changed => distance[n] = 0 /\ certainty[n] = 1

\* What is queued was reached, and what is followed is worth it
QueuedWereReached ==
    /\ \A n \in Node : IsIn(n, queue) => distance[n] # Far
    /\ outgoing # <<>> => distance[source] # Far /\ distance[source] < MaxHops
    /\ \A e \in edges : IsIn(e, outgoing) => e.source = source

\* Following e would not help its target
Relaxed(e) ==
    LET hops == distance[e.source] + 1
    IN  e.target \in Known =>
          /\ distance[e.target] # Far /\ distance[e.target] <= hops
          /\ distance[e.target] = hops =>
               certainty[e.target] >= certainty[e.source] * e.confidence

\* Whatever could still help is to be done: an edge that would help its target
\* leaves a service that is queued, or is one of those that are being followed
RestIsQueued ==
    \A e \in edges :
        \/ distance[e.source] = Far \/ distance[e.source] >= MaxHops
        \/ IsIn(e.source, queue) \/ IsIn(e, outgoing)
        \/ Relaxed(e)

BlastInv ==
    /\ BlastTypes /\ ReportIsLast /\ ReachedByWays /\ QueuedWereReached
    /\ RestIsQueued

\* Far is not a number of hops.
LEMMA FarIsFar ==
    ASSUME BlastTypes, NEW n \in Node
    PROVE  /\ Far \notin Nat /\ MaxHops \in Nat
           /\ distance[n] # Far => distance[n] \in 0..MaxHops /\ distance[n] \in Nat
           /\ certainty[n] # Far => certainty[n] \in Nat
  <1>1. Far \notin Nat /\ MaxHops \in Nat
    BY BlastAssumption DEF Far
  <1>2. distance[n] # Far => distance[n] \in 0..MaxHops
    BY DEF BlastTypes
  <1> QED
    BY <1>1, <1>2 DEF BlastTypes

\* What is known of a service that was reached has its type.
LEMMA ReachedTyped ==
    ASSUME BlastTypes, ReachedByWays, NEW n \in Node, distance[n] # Far
    PROVE  /\ distance[n] \in 0..MaxHops /\ distance[n] \in Nat
           /\ certainty[n] \in Nat /\ origin[n] \in Node /\ n \in Known
  <1>1. distance[n] \in 0..MaxHops /\ distance[n] \in Nat
    BY FarIsFar
  <1> DEFINE w == <<origin[n], n, certainty[n]>>
  <1>2. w \in Ways(changed, edges)[distance[n]]
    BY DEF ReachedByWays
  <1>3. w[1] = origin[n] /\ w[2] = n /\ w[3] = certainty[n]
    OBVIOUS
  <1> HIDE DEF w
  <1>4. changed \in Changes /\ edges \in SUBSET EdgePool
    BY DEF BlastTypes
  <1>5. w[1] \in Node /\ w[2] \in Listed \cup changed /\ w[3] \in Nat
    BY <1>1, <1>2, <1>4, WayTyped
  <1> QED
    BY <1>1, <1>3, <1>5 DEF Known

\* The changed services are queued, and nothing else is known.
LEMMA BlastStarts == BlastInit => BlastInv
  <1> SUFFICES ASSUME BlastInit PROVE BlastInv
    OBVIOUS
  <1>1. /\ edges \in SUBSET EdgePool /\ changed \in Changes /\ changed \subseteq Node
        /\ MaxHops \in Nat /\ Far \notin Nat
    BY BlastAssumption DEF BlastInit, Far
  <1>2. /\ outgoing = <<>>
        /\ distance = [n \in Node |-> IF n \in changed THEN 0 ELSE Far]
        /\ certainty = [n \in Node |-> IF n \in changed THEN 1 ELSE Far]
        /\ origin = [n \in Node |-> IF n \in changed THEN n ELSE Far]
        /\ impact = [n \in Node |-> Far]
    BY DEF BlastInit, WalkBegins
  <1>3. /\ queue \in Seq(changed) /\ queue \in Seq(Node)
        /\ \A n \in changed : IsIn(n, queue)
    <2>1. queue = InOrder(changed, <)
      BY DEF BlastInit, WalkBegins
    <2>2. /\ InOrder(changed, <) \in Seq(changed) /\ InOrder(changed, <) \in Seq(Node)
          /\ \A n \in changed : IsIn(n, InOrder(changed, <))
      BY <1>1, ChangedOnes, Zenon DEF IsIn
    <2> QED
      BY <2>1, <2>2, Zenon
  <1>4. BlastTypes
    <2>1. source \in Node
      BY BlastAssumption DEF BlastInit, WalkBegins
    <2>2. queue \in Seq(Node)
      BY <1>3
    <2>3. outgoing \in Seq(edges)
      BY <1>2
    <2>4. /\ distance \in [Node -> {Far} \cup 0..MaxHops]
          /\ certainty \in [Node -> {Far} \cup Nat]
          /\ origin \in [Node -> {Far} \cup Node]
      BY <1>1, <1>2
    <2> QED
      BY <1>1, <2>1, <2>2, <2>3, <2>4 DEF BlastTypes
  <1>5. ReportIsLast
    BY <1>2 DEF ReportIsLast
  <1>6. ReachedByWays
    <2>1. \A w : w \in Ways(changed, edges)[0] <=> \E s \in changed : w = <<s, s, 1>>
      BY WayEnds
    <2>2. ASSUME NEW n \in Node
          PROVE  /\ distance[n] = Far => certainty[n] = Far /\ origin[n] = Far
                 /\ distance[n] # Far =>
                      <<origin[n], n, certainty[n]>> \in Ways(changed, edges)[distance[n]]
                 /\ n \in changed => distance[n] = 0 /\ certainty[n] = 1
      <3>1. CASE n \in changed
        <4>1. distance[n] = 0 /\ origin[n] = n /\ certainty[n] = 1 /\ 0 # Far
          BY <1>1, <1>2, <3>1
        <4>2. <<n, n, 1>> \in Ways(changed, edges)[0]
          BY <2>1, <3>1
        <4> QED
          BY <4>1, <4>2
      <3>2. CASE n \notin changed
        BY <1>2, <3>2
      <3> QED
        BY <3>1, <3>2
    <2> QED
      BY <2>2 DEF ReachedByWays
  <1>7. QueuedWereReached
    <2>1. \A n \in Node : IsIn(n, queue) => n \in changed
      BY <1>3, SequenceMembers
    <2>2. \A e \in edges : ~IsIn(e, outgoing)
      BY <1>2 DEF IsIn
    <2> QED
      BY <1>1, <1>2, <2>1, <2>2 DEF QueuedWereReached
  <1>8. RestIsQueued
    <2> SUFFICES ASSUME NEW e \in edges, distance[e.source] # Far
                 PROVE  IsIn(e.source, queue)
      BY DEF RestIsQueued
    <2>1. e.source \in Node
      BY <1>1, BlastAssumption
    <2> QED
      BY <1>2, <1>3, <2>1
  <1> QED
    BY <1>4, <1>5, <1>6, <1>7, <1>8 DEF BlastInv

\* popleft: the edges of the service are to be followed, or are too far away.
LEMMA PopKeeps == BlastInv /\ Pop => BlastInv'
  <1> SUFFICES ASSUME BlastInv, Pop PROVE BlastInv'
    OBVIOUS
  <1>1. /\ outgoing = <<>> /\ queue # <<>>
        /\ source' = Head(queue) /\ queue' = Tail(queue)
        /\ outgoing' = IF distance[source'] >= MaxHops THEN <<>> ELSE Adjacent(source')
        /\ edges' = edges /\ changed' = changed /\ distance' = distance
        /\ certainty' = certainty /\ origin' = origin /\ impact' = impact
    BY DEF Pop
  <1>2. /\ BlastTypes /\ edges \in SUBSET EdgePool /\ queue \in Seq(Node)
        /\ \A e \in edges : e \in EdgePool /\ e.source \in Node
    BY BlastAssumption DEF BlastInv, BlastTypes
  <1>3. /\ source' \in Node /\ queue' \in Seq(Node)
        /\ \A x : IsIn(x, queue) <=> x = source' \/ IsIn(x, queue')
    BY <1>1, <1>2, SequenceMembers
  <1>4. /\ Adjacent(source') \in Seq(edges)
        /\ \A i \in 1..Len(Adjacent(source')) : Adjacent(source')[i] \in Leaving(source')
        /\ \A e \in Leaving(source') : IsIn(e, Adjacent(source'))
    <2> DEFINE n == source'
    <2> HIDE DEF n
    <2>1. /\ Adjacent(n) \in Seq(edges)
          /\ \A i \in 1..Len(Adjacent(n)) : Adjacent(n)[i] \in Leaving(n)
          /\ \A e \in Leaving(n) : IsIn(e, Adjacent(n))
      BY <1>2, AdjacentOnes DEF IsIn
    <2> QED
      BY <2>1 DEF n
  <1>5. \A e \in edges : IsIn(e, outgoing') => e.source = source'
    <2>1. \A e : ~IsIn(e, <<>>)
      BY DEF IsIn
    <2>2. \A e : IsIn(e, Adjacent(source')) => e \in Leaving(source')
      BY <1>4 DEF IsIn
    <2> QED
      BY <1>1, <2>1, <2>2 DEF Leaving
  <1>6. distance[source'] # Far /\ distance[source'] \in Nat
    <2>1. IsIn(source', queue)
      BY <1>3
    <2>2. distance[source'] # Far
      BY <1>3, <2>1 DEF BlastInv, QueuedWereReached
    <2> QED
      BY <1>2, <1>3, <2>2, FarIsFar
  <1>7. MaxHops \in Nat
    BY BlastAssumption
  <1>8. BlastTypes'
    <2>1. outgoing' \in Seq(edges)
      BY <1>1, <1>4
    <2> QED
      BY <1>1, <1>3, <2>1 DEF BlastInv, BlastTypes
  <1>9. ReportIsLast'
    <2>1. impact = [n \in Node |-> Far]
      BY <1>1 DEF BlastInv, ReportIsLast
    <2> QED
      BY <1>1, <2>1 DEF ReportIsLast
  <1>10. ReachedByWays'
    BY <1>1 DEF BlastInv, ReachedByWays
  <1>11. QueuedWereReached'
    <2>1. outgoing' # <<>> => ~(distance[source'] >= MaxHops)
      BY <1>1
    <2>2. outgoing' # <<>> => distance[source'] < MaxHops
      BY <1>6, <1>7, <2>1
    <2> QED
      BY <1>1, <1>3, <1>5, <1>6, <2>2 DEF BlastInv, QueuedWereReached
  <1>12. RestIsQueued'
    <2> SUFFICES ASSUME NEW e \in edges, distance[e.source] # Far,
                        ~(distance[e.source] >= MaxHops),
                        ~IsIn(e.source, queue'), ~IsIn(e, outgoing')
                 PROVE  Relaxed(e)'
      BY <1>1 DEF RestIsQueued
    <2>1. e.source # source'
      BY <1>1, <1>4 DEF Leaving
    <2>2. ~IsIn(e.source, queue) /\ ~IsIn(e, outgoing)
      BY <1>1, <1>3, <2>1 DEF IsIn
    <2>3. Relaxed(e)
      BY <2>2 DEF BlastInv, RestIsQueued
    <2> QED
      BY <1>1, <2>3 DEF Relaxed, Known
  <1> QED
    BY <1>8, <1>9, <1>10, <1>11, <1>12 DEF BlastInv

\* An edge that leads to no better way is relaxed.
LEMMA QuietFollowKeeps ==
    ASSUME BlastInv, outgoing # <<>>,
           LET e == Head(outgoing)
           IN  ~(/\ e.target \in Known
                 /\ IsBetter(e, distance[source] + 1, certainty[source] * e.confidence)),
           outgoing' = Tail(outgoing),
           UNCHANGED <<edges, changed, source, impact, distance, certainty, origin, queue>>
    PROVE  BlastInv'
  <1> DEFINE e == Head(outgoing)
  <1>1. /\ BlastTypes /\ ReachedByWays /\ edges \in SUBSET EdgePool
        /\ outgoing \in Seq(edges) /\ source \in Node
    BY DEF BlastInv, BlastTypes
  <1>2. /\ e \in edges /\ outgoing' \in Seq(edges)
        /\ \A x : IsIn(x, outgoing) <=> x = e \/ IsIn(x, outgoing')
    BY <1>1, SequenceMembers
  <1> HIDE DEF e
  <1>3. /\ distance[source] # Far /\ distance[source] < MaxHops /\ e.source = source
    BY <1>2 DEF BlastInv, QueuedWereReached
  <1>4. /\ distance[source] \in Nat /\ certainty[source] \in Nat
    BY <1>1, <1>3, ReachedTyped
  <1>5. e.target \in Node /\ e.confidence \in Nat
    BY <1>1, <1>2, BlastAssumption
  <1>6. Relaxed(e)
    <2> DEFINE hops == distance[source] + 1
               confidence == certainty[source] * e.confidence
    <2>1. hops \in Nat /\ confidence \in Nat
      BY <1>4, <1>5
    <2>2. ~(e.target \in Known /\ IsBetter(e, hops, confidence))
      BY DEF e
    <2> HIDE DEF hops, confidence
    <2> SUFFICES ASSUME e.target \in Known
                 PROVE  /\ distance[e.target] # Far /\ distance[e.target] <= hops
                        /\ distance[e.target] = hops => certainty[e.target] >= confidence
      BY <1>3 DEF Relaxed, hops, confidence
    <2>3. /\ distance[e.target] # Far /\ ~(hops < distance[e.target])
          /\ hops = distance[e.target] => ~(confidence > certainty[e.target])
      BY <2>2 DEF IsBetter
    <2>4. distance[e.target] \in Nat /\ certainty[e.target] \in Nat
      BY <1>1, <1>5, <2>3, ReachedTyped
    <2> QED
      BY <2>1, <2>3, <2>4
  <1>7. BlastTypes'
    BY <1>1, <1>2 DEF BlastTypes
  <1>8. ReportIsLast'
    BY DEF BlastInv, ReportIsLast
  <1>9. ReachedByWays'
    BY <1>1 DEF ReachedByWays
  <1>10. QueuedWereReached'
    <2>1. \A x \in edges : IsIn(x, outgoing') => x.source = source
      BY <1>2 DEF BlastInv, QueuedWereReached
    <2> QED
      BY <1>3, <2>1 DEF BlastInv, QueuedWereReached
  <1>11. RestIsQueued'
    <2> SUFFICES ASSUME NEW x \in edges, distance[x.source] # Far,
                        ~(distance[x.source] >= MaxHops),
                        ~IsIn(x.source, queue), ~IsIn(x, outgoing')
                 PROVE  Relaxed(x)'
      BY DEF RestIsQueued
    <2>1. Relaxed(x)
      BY <1>2, <1>6 DEF BlastInv, RestIsQueued
    <2> QED
      BY <2>1 DEF Relaxed, Known
  <1> QED
    BY <1>7, <1>8, <1>9, <1>10, <1>11 DEF BlastInv

\* A better way: its target is queued, and what is true of its neighbours
\* stays true as its distance falls or its certainty grows.
LEMMA BetterFollowKeeps ==
    ASSUME BlastInv, outgoing # <<>>, NEW e, e = Head(outgoing),
           NEW hops, hops = distance[source] + 1,
           NEW confidence, confidence = certainty[source] * e.confidence,
           e.target \in Known, IsBetter(e, hops, confidence),
           distance' = [distance EXCEPT ![e.target] = hops],
           certainty' = [certainty EXCEPT ![e.target] = confidence],
           origin' = [origin EXCEPT ![e.target] = origin[source]],
           queue' = Append(queue, e.target), outgoing' = Tail(outgoing),
           UNCHANGED <<edges, changed, source, impact>>
    PROVE  BlastInv'
  <1> DEFINE t == e.target
  <1>1. /\ BlastTypes /\ ReachedByWays /\ edges \in SUBSET EdgePool
        /\ outgoing \in Seq(edges) /\ source \in Node /\ queue \in Seq(Node)
        /\ changed \in Changes /\ Far \notin Nat /\ MaxHops \in Nat
    BY BlastAssumption DEF BlastInv, BlastTypes, Far
  <1>2. /\ e \in edges /\ outgoing' \in Seq(edges)
        /\ \A x : IsIn(x, outgoing) <=> x = e \/ IsIn(x, outgoing')
    BY <1>1, SequenceMembers
  <1>3. /\ distance[source] # Far /\ distance[source] < MaxHops /\ e.source = source
    BY <1>2 DEF BlastInv, QueuedWereReached
  <1>4. /\ distance[source] \in Nat /\ certainty[source] \in Nat
        /\ origin[source] \in Node
    BY <1>1, <1>3, ReachedTyped
  <1>5. \A x \in edges : x.source \in Node /\ x.target \in Node /\ x.confidence \in Nat
    BY <1>1, BlastAssumption
  <1>6. t \in Node /\ hops \in Nat /\ hops \in 0..MaxHops /\ hops # 0 /\ confidence \in Nat
    BY <1>1, <1>2, <1>3, <1>4, <1>5
  <1>7. /\ queue' \in Seq(Node)
        /\ \A x : IsIn(x, queue') <=> x = t \/ IsIn(x, queue)
    BY <1>1, <1>6, SequenceMembers
  <1>8. /\ distance'[t] = hops /\ certainty'[t] = confidence /\ origin'[t] = origin[source]
        /\ \A n \in Node : n # t => /\ distance'[n] = distance[n]
                                    /\ certainty'[n] = certainty[n]
                                    /\ origin'[n] = origin[n]
    BY <1>1, <1>6 DEF BlastTypes
  <1>9. distance[t] = Far \/ /\ distance[t] \in Nat /\ certainty[t] \in Nat
                             /\ hops <= distance[t]
                             /\ hops = distance[t] => confidence > certainty[t]
    <2> SUFFICES ASSUME distance[t] # Far
                 PROVE  /\ distance[t] \in Nat /\ certainty[t] \in Nat
                        /\ hops <= distance[t]
                        /\ hops = distance[t] => confidence > certainty[t]
      OBVIOUS
    <2>1. distance[t] \in Nat /\ certainty[t] \in Nat
      BY <1>1, <1>6, ReachedTyped
    <2>2. hops < distance[t] \/ (hops = distance[t] /\ confidence > certainty[t])
      BY DEF IsBetter
    <2> QED
      BY <1>6, <2>1, <2>2
  <1>10. t # source
    BY <1>3, <1>4, <1>9
  <1> HIDE DEF t
  <1>11. BlastTypes'
    <2>1. /\ distance' \in [Node -> {Far} \cup 0..MaxHops]
          /\ certainty' \in [Node -> {Far} \cup Nat]
          /\ origin' \in [Node -> {Far} \cup Node]
      BY <1>1, <1>4, <1>6 DEF BlastTypes
    <2> QED
      BY <1>1, <1>2, <1>7, <2>1 DEF BlastTypes
  <1>12. ReportIsLast'
    <2>1. impact = [n \in Node |-> Far]
      BY DEF BlastInv, ReportIsLast
    <2> QED
      BY <2>1 DEF ReportIsLast
  <1>13. ReachedByWays'
    <2> DEFINE v == <<origin[source], source, certainty[source]>>
    <2>1. v \in Ways(changed, edges)[distance[source]]
      BY <1>1, <1>3 DEF ReachedByWays
    <2>2. v[1] = origin[source] /\ v[2] = source /\ v[3] = certainty[source]
      OBVIOUS
    <2> HIDE DEF v
    <2>3. hops - 1 = distance[source]
      BY <1>4
    <2>4. /\ e.source = v[2] /\ t \in Listed \cup changed
          /\ <<origin[source], t, confidence>> = <<v[1], e.target, v[3] * e.confidence>>
      BY <1>3, <2>2 DEF t, Known
    <2>5. <<origin[source], t, confidence>> \in Ways(changed, edges)[hops]
      <3>1. \E u \in Ways(changed, edges)[hops - 1] : \E x \in edges :
              /\ x.source = u[2] /\ x.target \in Listed \cup changed
              /\ <<origin[source], t, confidence>> = <<u[1], x.target, u[3] * x.confidence>>
        BY <1>2, <2>1, <2>3, <2>4 DEF t
      <3> QED
        BY <1>6, <3>1, WayEnds, Zenon
    <2>6. t \notin changed
      <3> SUFFICES ASSUME t \in changed PROVE FALSE
        OBVIOUS
      <3>1. distance[t] = 0
        BY <1>1, <1>6 DEF ReachedByWays
      <3> QED
        BY <1>1, <1>6, <1>9, <3>1
    <2>7. hops # Far
      BY <1>1, <1>6
    <2>8. ASSUME NEW n \in Node
          PROVE  /\ distance'[n] = Far => certainty'[n] = Far /\ origin'[n] = Far
                 /\ distance'[n] # Far =>
                      <<origin'[n], n, certainty'[n]>> \in Ways(changed, edges)[distance'[n]]
                 /\ n \in changed => distance'[n] = 0 /\ certainty'[n] = 1
      <3>1. CASE n = t
        BY <1>8, <2>5, <2>6, <2>7, <3>1
      <3>2. CASE n # t
        <4>1. /\ distance'[n] = distance[n] /\ certainty'[n] = certainty[n]
              /\ origin'[n] = origin[n]
          BY <1>8, <3>2
        <4> QED
          BY <1>1, <4>1 DEF ReachedByWays
      <3> QED
        BY <3>1, <3>2
    <2> QED
      BY <2>8 DEF ReachedByWays
  <1>14. QueuedWereReached'
    <2>1. \A x \in edges : IsIn(x, outgoing') => x.source = source
      BY <1>2 DEF BlastInv, QueuedWereReached
    <2>2. \A n \in Node : IsIn(n, queue') => distance'[n] # Far
      BY <1>1, <1>6, <1>7, <1>8 DEF BlastInv, QueuedWereReached
    <2>3. distance'[source] = distance[source]
      BY <1>1, <1>8, <1>10
    <2> QED
      BY <1>3, <2>1, <2>2, <2>3 DEF QueuedWereReached
  <1>15. RestIsQueued'
    <2> SUFFICES ASSUME NEW x \in edges, distance'[x.source] # Far,
                        ~(distance'[x.source] >= MaxHops),
                        ~IsIn(x.source, queue'), ~IsIn(x, outgoing'),
                        x.target \in Known
                 PROVE  LET far == distance'[x.source] + 1
                        IN  /\ distance'[x.target] # Far /\ distance'[x.target] <= far
                            /\ distance'[x.target] = far =>
                                 certainty'[x.target] >= certainty'[x.source] * x.confidence
      BY DEF RestIsQueued, Relaxed, Known
    <2> DEFINE s == x.source
               far == distance[s] + 1
               sure == certainty[s] * x.confidence
    <2>1. s \in Node /\ x.target \in Node /\ s # t /\ ~IsIn(s, queue)
      BY <1>5, <1>7
    <2>2. /\ distance'[s] = distance[s] /\ certainty'[s] = certainty[s]
      BY <1>8, <2>1
    <2>3. /\ distance[s] # Far /\ ~(distance[s] >= MaxHops)
      BY <2>2
    <2>4. far \in Nat /\ sure \in Nat
      <3>1. distance[s] \in Nat /\ certainty[s] \in Nat
        BY <1>1, <2>1, <2>3, ReachedTyped
      <3> QED
        BY <1>5, <3>1
    <2>5. CASE x = e
      <3>1. s = source /\ far = hops /\ sure = confidence /\ x.target = t
        BY <1>3, <2>5 DEF t
      <3> HIDE DEF s, far, sure
      <3>2. distance'[t] # Far /\ distance'[t] <= far
            /\ (distance'[t] = far => certainty'[t] >= sure)
        BY <1>1, <1>6, <1>8, <3>1
      <3> QED
        BY <2>2, <3>1, <3>2 DEF s, far, sure
    <2>6. CASE x # e
      <3>1. Relaxed(x)
        <4>1. ~IsIn(x, outgoing)
          BY <1>2, <2>6
        <4> QED
          BY <2>1, <2>3, <4>1 DEF BlastInv, RestIsQueued
      <3>2. /\ distance[x.target] # Far /\ distance[x.target] <= far
            /\ distance[x.target] = far => certainty[x.target] >= sure
        BY <3>1 DEF Relaxed
      <3> HIDE DEF far, sure
      <3>3. /\ distance'[x.target] # Far /\ distance'[x.target] <= far
            /\ distance'[x.target] = far => certainty'[x.target] >= sure
        <4>1. CASE x.target # t
          BY <1>8, <2>1, <3>2, <4>1
        <4>2. CASE x.target = t
          BY <1>1, <1>6, <1>8, <1>9, <2>4, <3>2, <4>2
        <4> QED
          BY <4>1, <4>2
      <3> QED
        BY <2>2, <3>3 DEF s, far, sure
    <2> QED
      BY <2>5, <2>6
  <1> QED
    BY <1>11, <1>12, <1>13, <1>14, <1>15 DEF BlastInv

\* One edge of the service that was popped is followed.
LEMMA FollowKeeps == BlastInv /\ Follow => BlastInv'
  <1> SUFFICES ASSUME BlastInv, Follow PROVE BlastInv'
    OBVIOUS
  <1> DEFINE e == Head(outgoing)
             hops == distance[source] + 1
             confidence == certainty[source] * e.confidence
  <1>1. CASE e.target \in Known /\ IsBetter(e, hops, confidence)
    <2>1. /\ distance' = [distance EXCEPT ![e.target] = hops]
          /\ certainty' = [certainty EXCEPT ![e.target] = confidence]
          /\ origin' = [origin EXCEPT ![e.target] = origin[source]]
          /\ queue' = Append(queue, e.target)
      BY <1>1 DEF Follow
    <2>2. /\ outgoing # <<>> /\ outgoing' = Tail(outgoing)
          /\ UNCHANGED <<edges, changed, source, impact>>
      BY DEF Follow
    <2> QED
      BY <1>1, <2>1, <2>2, BetterFollowKeeps
  <1>2. CASE ~(e.target \in Known /\ IsBetter(e, hops, confidence))
    <2>1. UNCHANGED <<distance, certainty, origin, queue>>
      BY <1>2 DEF Follow
    <2>2. /\ outgoing # <<>> /\ outgoing' = Tail(outgoing)
          /\ UNCHANGED <<edges, changed, source, impact>>
      BY DEF Follow
    <2> QED
      BY <1>2, <2>1, <2>2, QuietFollowKeeps
  <1> QED
    BY <1>1, <1>2

\* The report changes nothing that it is made of.
LEMMA ReportKeeps == BlastInv /\ Report => BlastInv'
  <1> SUFFICES ASSUME BlastInv, Report PROVE BlastInv'
    OBVIOUS
  <1>1. /\ outgoing = <<>> /\ queue = <<>>
        /\ impact' = [n \in Node |-> IF distance[n] = Far THEN Far ELSE Score(n)]
        /\ UNCHANGED <<edges, changed, queue, source, outgoing, distance,
                       certainty, origin>>
    BY DEF Report
  <1>2. ReportIsLast'
    <2> DEFINE result == [n \in Node |-> IF distance[n] = Far THEN Far ELSE Score(n)]
    <2>1. result' = result
      BY <1>1 DEF Score
    <2> HIDE DEF result
    <2>2. impact' = result'
      BY <1>1, <2>1 DEF result
    <2> QED
      BY <1>1, <2>2 DEF ReportIsLast, result
  <1>3. BlastTypes'
    BY <1>1 DEF BlastInv, BlastTypes
  <1>4. ReachedByWays'
    BY <1>1 DEF BlastInv, ReachedByWays
  <1>5. QueuedWereReached'
    BY <1>1 DEF BlastInv, QueuedWereReached, IsIn
  <1>6. RestIsQueued'
    BY <1>1 DEF BlastInv, RestIsQueued, Relaxed, Known, IsIn
  <1> QED
    BY <1>2, <1>3, <1>4, <1>5, <1>6 DEF BlastInv

\* Every step of the walk keeps the invariant.
LEMMA BlastStep == BlastInv /\ [BlastNext]_blastVars => BlastInv'
  <1> SUFFICES ASSUME BlastInv, [BlastNext]_blastVars PROVE BlastInv'
    OBVIOUS
  <1>1. CASE UNCHANGED blastVars
    <2>1. ReportIsLast'
      BY <1>1 DEF blastVars, BlastInv, ReportIsLast, Score
    <2>2. BlastTypes' /\ ReachedByWays' /\ QueuedWereReached' /\ RestIsQueued'
      BY <1>1
      DEF blastVars, BlastInv, BlastTypes, ReachedByWays, QueuedWereReached,
          RestIsQueued, Relaxed, Known, IsIn
    <2> QED
      BY <2>1, <2>2 DEF BlastInv
  <1> QED
    BY <1>1, PopKeeps, FollowKeeps, ReportKeeps DEF BlastNext

\* When nothing is left to do, no way is shorter or, being as short, surer
\* than what is known.
LEMMA NothingBetter ==
    ASSUME BlastInv, queue = <<>>, outgoing = <<>>,
           NEW k \in 0..MaxHops, NEW w \in Ways(changed, edges)[k]
    PROVE  /\ distance[w[2]] # Far /\ distance[w[2]] <= k
           /\ distance[w[2]] = k => certainty[w[2]] >= w[3]
  <1> DEFINE Fine(j, v) == /\ distance[v[2]] # Far /\ distance[v[2]] <= j
                           /\ distance[v[2]] = j => certainty[v[2]] >= v[3]
             Bad == {j \in 0..MaxHops : \E v \in Ways(changed, edges)[j] : ~Fine(j, v)}
  <1> SUFFICES Bad = {}
    OBVIOUS
  <1> SUFFICES ASSUME Bad # {} PROVE FALSE
    OBVIOUS
  <1>1. Bad \subseteq Nat /\ MaxHops \in Nat /\ Far \notin Nat
    BY BlastAssumption DEF Far
  <1>2. PICK j \in Bad : \A i \in Bad : j <= i
    BY <1>1, LeastOne
  <1>3. PICK v \in Ways(changed, edges)[j] : ~Fine(j, v)
    OBVIOUS
  <1>4. /\ BlastTypes /\ ReachedByWays /\ changed \in Changes
        /\ edges \in SUBSET EdgePool /\ changed \subseteq Node
    BY BlastAssumption DEF BlastInv, BlastTypes
  <1>5. CASE j = 0
    <2>1. \A u : u \in Ways(changed, edges)[0] <=> \E s \in changed : u = <<s, s, 1>>
      BY WayEnds
    <2>2. PICK s \in changed : v = <<s, s, 1>>
      BY <1>3, <1>5, <2>1
    <2>3. v[2] = s /\ v[3] = 1
      BY <2>2
    <2>4. distance[s] = 0 /\ certainty[s] = 1
      BY <1>4 DEF ReachedByWays
    <2> QED
      BY <1>1, <1>3, <1>5, <2>3, <2>4
  <1>6. CASE j # 0
    <2>1. j \in 0..MaxHops /\ j \in Nat /\ j - 1 \in 0..MaxHops /\ ~(j <= j - 1)
      BY <1>1, <1>6
    <2>2. PICK u \in Ways(changed, edges)[j - 1] : \E e \in edges :
                    /\ e.source = u[2] /\ e.target \in Listed \cup changed
                    /\ v = <<u[1], e.target, u[3] * e.confidence>>
      BY <1>3, <1>6, <2>1, WayEnds
    <2>3. PICK e \in edges : /\ e.source = u[2] /\ e.target \in Listed \cup changed
                             /\ v = <<u[1], e.target, u[3] * e.confidence>>
      BY <2>2
    <2> DEFINE n == e.source
               t == e.target
    <2>4. v[2] = t /\ v[3] = u[3] * e.confidence /\ t \in Known
      BY <2>3 DEF Known
    <2>5. n \in Node /\ t \in Node /\ e.confidence \in Nat /\ u[3] \in Nat
      <3>1. u[3] \in Nat
        BY <1>4, <2>1, WayTyped
      <3>2. e \in EdgePool
        BY <1>4
      <3> QED
        BY <3>1, <3>2, BlastAssumption
    <2>6. Fine(j - 1, u)
      BY <1>2, <2>1
    <2>7. distance[n] # Far /\ distance[n] <= j - 1
          /\ (distance[n] = j - 1 => certainty[n] >= u[3])
      BY <2>3, <2>6
    <2> HIDE DEF n, t
    <2>8. distance[n] \in Nat /\ certainty[n] \in Nat
      BY <1>4, <2>5, <2>7, ReachedTyped
    <2>9. Relaxed(e)
      <3>1. ~(distance[n] >= MaxHops)
        BY <2>1, <2>7, <2>8, <1>1
      <3>2. ~IsIn(n, queue) /\ ~IsIn(e, outgoing)
        BY DEF IsIn
      <3> QED
        BY <2>7, <3>1, <3>2 DEF BlastInv, RestIsQueued, n
    <2>10. /\ distance[t] # Far /\ distance[t] <= distance[n] + 1
           /\ distance[t] = distance[n] + 1 =>
                certainty[t] >= certainty[n] * e.confidence
      BY <2>4, <2>9 DEF Relaxed, n, t
    <2>11. distance[t] \in Nat /\ certainty[t] \in Nat
      BY <1>4, <2>5, <2>10, ReachedTyped
    <2>12. distance[t] <= j
      BY <2>1, <2>7, <2>8, <2>10, <2>11
    <2>13. ASSUME distance[t] = j PROVE certainty[t] >= u[3] * e.confidence
      <3>1. distance[n] = j - 1
        BY <2>1, <2>7, <2>8, <2>10, <2>13
      <3>2. certainty[n] >= u[3] /\ certainty[t] >= certainty[n] * e.confidence
        BY <2>1, <2>7, <2>10, <2>13, <3>1
      <3> HIDE DEF Fine, Bad
      <3>3. \A a, b, c \in Nat : a >= b => a * c >= b * c
        OBVIOUS
      <3>4. certainty[n] * e.confidence >= u[3] * e.confidence
        BY <2>5, <2>8, <3>2, <3>3
      <3>5. certainty[n] * e.confidence \in Nat /\ u[3] * e.confidence \in Nat
        BY <2>5, <2>8
      <3> QED
        BY <2>11, <3>2, <3>4, <3>5
    <2> QED
      BY <1>3, <2>4, <2>10, <2>12, <2>13
  <1> QED
    BY <1>5, <1>6

\* A score is not Far.
LEMMA ScoreIsNotFar == \A n : Score(n) # Far
  <1> SUFFICES ASSUME NEW n PROVE Score(n) # Far
    OBVIOUS
  <1> DEFINE d == distance[n]
             x == Round(Power(18)[d] * certainty[n] * TierFactor[Tier[n]]
                          * HealthFactor[Health[n]],
                        5 * Power(25 * Scale)[d])
  <1>1. Score(n) = IF d = 0 THEN 100 ELSE Clamp(x, 0, 100)
    BY Zenon DEF Score
  <1> HIDE DEF d, x
  <1>2. Clamp(x, 0, 100) # -1
    BY DEF Clamp
  <1> QED
    BY <1>1, <1>2 DEF Far

\* The report of the walk is exact.
LEMMA ReportIsExact == BlastInv => BlastRadiusIsExact
  <1> SUFFICES ASSUME BlastInv, Reported PROVE ShortestAndSurest /\ ImpactIsDrawn
    BY DEF BlastRadiusIsExact, ShortestAndSurest, ImpactIsDrawn
  <1>1. /\ queue = <<>> /\ outgoing = <<>>
        /\ \A n \in Node : impact[n] = IF distance[n] = Far THEN Far ELSE Score(n)
    <2>1. impact # [n \in Node |-> Far]
      BY DEF Reported
    <2> QED
      BY <2>1 DEF BlastInv, ReportIsLast
  <1>2. \A n \in Node : impact[n] = Far <=> distance[n] = Far
    BY <1>1, ScoreIsNotFar
  <1>3. /\ BlastTypes /\ ReachedByWays /\ changed \in Changes
        /\ edges \in SUBSET EdgePool /\ MaxHops \in Nat /\ Far \notin Nat
    BY BlastAssumption DEF BlastInv, BlastTypes, Far
  <1>4. \A k \in 0..MaxHops : \A w \in Walks[k] :
          /\ distance[w[2]] # Far /\ distance[w[2]] <= k
          /\ distance[w[2]] = k => certainty[w[2]] >= w[3]
    BY <1>1, NothingBetter, WalksAreWays
  <1>5. \A n \in Node : distance[n] # Far =>
          /\ distance[n] \in 0..MaxHops /\ distance[n] \in Nat /\ certainty[n] \in Nat
          /\ <<origin[n], n, certainty[n]>> \in Walks[distance[n]]
    BY <1>3, ReachedTyped, WalksAreWays DEF ReachedByWays
  <1>6. ShortestAndSurest
    <2> SUFFICES ASSUME NEW n \in Node
                 PROVE  LET lengths == {k \in 0..MaxHops : \E w \in Walks[k] : w[2] = n}
                            first == CHOOSE k \in lengths : \A l \in lengths : k <= l
                            best == {w \in Walks[first] : w[2] = n}
                        IN  IF lengths = {} THEN distance[n] = Far /\ impact[n] = Far
                            ELSE /\ distance[n] = first
                                 /\ <<origin[n], n, certainty[n]>> \in best
                                 /\ \A w \in best : w[3] <= certainty[n]
      BY DEF ShortestAndSurest
    <2> DEFINE lengths == {k \in 0..MaxHops : \E w \in Walks[k] : w[2] = n}
               first == CHOOSE k \in lengths : \A l \in lengths : k <= l
               best == {w \in Walks[first] : w[2] = n}
               own == <<origin[n], n, certainty[n]>>
    <2>1. own[2] = n /\ own[3] = certainty[n]
      OBVIOUS
    <2> HIDE DEF own
    <2>2. distance[n] # Far => distance[n] \in lengths
      BY <1>5, <2>1 DEF own
    <2>3. CASE lengths = {}
      <3>1. distance[n] = Far /\ impact[n] = Far
        BY <1>2, <2>2, <2>3
      <3> QED
        BY <2>3, <3>1
    <2>4. CASE lengths # {}
      <3>1. \A k \in lengths : k \in Nat /\ distance[n] # Far /\ distance[n] <= k
        BY <1>3, <1>4
      <3>2. distance[n] # Far /\ distance[n] \in lengths /\ distance[n] \in Nat
        BY <1>5, <2>2, <2>4, <3>1
      <3>3. \A k \in lengths : (\A l \in lengths : k <= l) <=> k = distance[n]
        BY <3>1, <3>2
      <3>4. first = distance[n]
        BY <3>2, <3>3
      <3> HIDE DEF first
      <3>5. own \in best
        BY <1>5, <2>1, <3>2, <3>4 DEF own
      <3>6. ASSUME NEW w \in best PROVE w[3] <= certainty[n]
        <4>1. w \in Walks[distance[n]] /\ w[2] = n /\ distance[n] \in 0..MaxHops
          BY <1>5, <3>2, <3>4
        <4>2. certainty[n] >= w[3]
          BY <1>4, <4>1
        <4>3. w[3] \in Nat
          BY <1>3, <4>1, WayTyped, WalksAreWays
        <4> QED
          BY <1>5, <3>2, <4>2, <4>3
      <3> QED
        BY <2>4, <3>4, <3>5, <3>6 DEF first, own
    <2> QED
      BY <2>3, <2>4
  <1>7. ImpactIsDrawn
    <2> SUFFICES ASSUME NEW n \in Node, distance[n] > 0
                 PROVE  \E e \in Drawn :
                          /\ e.target = n /\ impact[e.source] # Far
                          /\ certainty[n] = certainty[e.source] * e.confidence
      BY DEF ImpactIsDrawn
    <2>1. distance[n] # Far
      BY DEF Far
    <2> DEFINE d == distance[n]
               own == <<origin[n], n, certainty[n]>>
    <2>2. /\ d \in 0..MaxHops /\ d \in Nat /\ d # 0 /\ certainty[n] \in Nat
          /\ own \in Walks[d]
      BY <1>5, <2>1
    <2>3. own[2] = n /\ own[3] = certainty[n]
      OBVIOUS
    <2> HIDE DEF own, d
    <2>4. PICK u \in Walks[d - 1] : \E e \in edges :
            /\ e.source = u[2] /\ e.target \in Listed \cup changed
            /\ own = <<u[1], e.target, u[3] * e.confidence>>
      BY <2>2, WayEnds, WalksAreWays
    <2>5. PICK e \in edges : /\ e.source = u[2] /\ e.target \in Listed \cup changed
                             /\ own = <<u[1], e.target, u[3] * e.confidence>>
      BY <2>4
    <2>6. e.target = n /\ u[3] * e.confidence = certainty[n]
      BY <2>3, <2>5
    <2>7. d - 1 \in 0..MaxHops
      BY <1>3, <2>2
    <2>8. e.source \in Node /\ e.confidence \in Nat /\ u[3] \in Nat
      BY <1>3, <2>7, WayTyped, WalksAreWays, BlastAssumption
    <2> DEFINE s == e.source
    <2>9. /\ distance[s] # Far /\ distance[s] <= d - 1
          /\ distance[s] = d - 1 => certainty[s] >= u[3]
      BY <1>4, <2>5, <2>7
    <2>10. distance[s] \in Nat /\ certainty[s] \in Nat
      BY <1>5, <2>8, <2>9
    <2>11. Relaxed(e)
      <3>1. ~(distance[s] >= MaxHops)
        BY <1>3, <2>2, <2>9, <2>10
      <3>2. ~IsIn(s, queue) /\ ~IsIn(e, outgoing)
        BY <1>1 DEF IsIn
      <3> QED
        BY <2>9, <3>1, <3>2 DEF BlastInv, RestIsQueued
    <2>12. /\ d <= distance[s] + 1
           /\ d = distance[s] + 1 => certainty[n] >= certainty[s] * e.confidence
      BY <2>5, <2>6, <2>11 DEF Relaxed, Known, d
    <2> HIDE DEF s
    <2>13. distance[s] = d - 1 /\ d = distance[s] + 1
      BY <2>2, <2>9, <2>10, <2>12
    <2>14. certainty[n] = certainty[s] * e.confidence
      <3>1. certainty[s] >= u[3] /\ certainty[n] >= certainty[s] * e.confidence
        BY <2>9, <2>12, <2>13
      <3>2. \A a, b, c \in Nat : a >= b => a * c >= b * c
        OBVIOUS
      <3>3. certainty[s] * e.confidence >= u[3] * e.confidence
        BY <2>8, <2>10, <3>1, <3>2
      <3>4. certainty[s] * e.confidence \in Nat
        BY <2>8, <2>10
      <3> QED
        BY <2>2, <2>6, <3>1, <3>3, <3>4
    <2>15. e \in Drawn
      BY <2>1, <2>6, <2>9, <2>13 DEF Drawn, s, d
    <2>16. impact[s] # Far
      BY <1>2, <2>8, <2>9 DEF s
    <2> QED
      BY <2>6, <2>14, <2>15, <2>16 DEF s
  <1> QED
    BY <1>6, <1>7

\* The powers of b, as the recursion computes them
PowersFrom(b, g) == [k \in 0..MaxHops |-> IF k = 0 THEN 1 ELSE b * g[k - 1]]

\* The same, for exponents of at most n
PowersUpTo(n, b, g) == [k \in 0..n |-> IF k = 0 THEN 1 ELSE b * g[k - 1]]

\* The powers exist, each is b times the one before it.
LEMMA PowersMultiply ==
    ASSUME NEW b
    PROVE  /\ Power(b)[0] = 1
           /\ \A k \in 0..MaxHops : k # 0 => Power(b)[k] = b * Power(b)[k - 1]
  <1> DEFINE Missing == {n \in Nat : ~ \E g : g = PowersUpTo(n, b, g)}
  <1>1. Missing = {}
    <2> SUFFICES ASSUME Missing # {} PROVE FALSE
      OBVIOUS
    <2>1. PICK n \in Missing : \A m \in Missing : n <= m
      BY LeastOne
    <2>2. n \in Nat /\ ~ \E g : g = PowersUpTo(n, b, g)
      OBVIOUS
    <2>3. CASE n = 0
      <3> DEFINE g == [k \in 0..0 |-> 1]
      <3>1. \A k \in 0..0 : k = 0
        OBVIOUS
      <3>2. g = PowersUpTo(0, b, g)
        BY <3>1 DEF PowersUpTo
      <3> QED
        BY <2>2, <2>3, <3>2
    <2>4. CASE n # 0
      <3>1. n - 1 \in Nat /\ ~(n <= n - 1)
        BY <2>2, <2>4
      <3>2. PICK g : g = PowersUpTo(n - 1, b, g)
        BY <2>1, <3>1
      <3> DEFINE h == PowersUpTo(n, b, g)
      <3>3. h = [k \in 0..n |-> IF k = 0 THEN 1 ELSE b * g[k - 1]]
        BY DEF PowersUpTo
      <3>4. g = [k \in 0..(n - 1) |-> IF k = 0 THEN 1 ELSE b * g[k - 1]]
        BY <3>2 DEF PowersUpTo
      <3> HIDE DEF h
      <3>5. \A k \in 0..(n - 1) : h[k] = g[k]
        <4> SUFFICES ASSUME NEW k \in 0..(n - 1) PROVE h[k] = g[k]
          OBVIOUS
        <4>1. k \in 0..n
          BY <2>2
        <4>2. h[k] = IF k = 0 THEN 1 ELSE b * g[k - 1]
          BY <3>3, <4>1
        <4>3. g[k] = IF k = 0 THEN 1 ELSE b * g[k - 1]
          BY <3>4
        <4> QED
          BY <4>2, <4>3
      <3>6. \A k \in 0..n : k # 0 => k - 1 \in 0..(n - 1)
        BY <2>2
      <3>7. h = [k \in 0..n |-> IF k = 0 THEN 1 ELSE b * h[k - 1]]
        BY <3>3, <3>5, <3>6
      <3> QED
        BY <2>2, <3>7 DEF PowersUpTo
    <2> QED
      BY <2>3, <2>4
  <1>2. MaxHops \in Nat
    BY BlastAssumption
  <1>3. \E g : g = PowersFrom(b, g)
    BY <1>1, <1>2 DEF PowersUpTo, PowersFrom
  <1> DEFINE p == Power(b)
  <1>4. p = CHOOSE g : g = PowersFrom(b, g)
    BY DEF Power, PowersFrom
  <1>5. p = PowersFrom(b, p)
    BY <1>3, <1>4
  <1> HIDE DEF p
  <1>6. 0 \in 0..MaxHops
    BY <1>2
  <1>7. p[0] = 1 /\ \A k \in 0..MaxHops : k # 0 => p[k] = b * p[k - 1]
    BY <1>5, <1>6 DEF PowersFrom
  <1> QED
    BY <1>7 DEF p

\* The powers of a positive number are positive and do not fall.
LEMMA PowersGrow ==
    ASSUME NEW b \in Nat, b >= 1, NEW n \in 0..MaxHops
    PROVE  /\ Power(b)[n] \in Nat /\ Power(b)[n] >= 1
           /\ Power(b)[n] <= Power(b)[MaxHops]
  <1> DEFINE p == Power(b)
  <1>1. p[0] = 1 /\ \A k \in 0..MaxHops : k # 0 => p[k] = b * p[k - 1]
    BY PowersMultiply
  <1> HIDE DEF p
  <1>2. MaxHops \in Nat
    BY BlastAssumption
  <1>3. \A k \in 0..MaxHops : p[k] \in Nat /\ p[k] >= 1
    <2> DEFINE Bad == {k \in 0..MaxHops : ~(p[k] \in Nat /\ p[k] >= 1)}
    <2> SUFFICES ASSUME Bad # {} PROVE FALSE
      OBVIOUS
    <2>1. Bad \subseteq Nat
      BY <1>2
    <2>2. PICK k \in Bad : \A j \in Bad : k <= j
      BY <2>1, LeastOne
    <2>3. k \in Nat /\ k <= MaxHops /\ ~(p[k] \in Nat /\ p[k] >= 1)
      BY <1>2
    <2>4. k # 0
      BY <1>1, <2>3
    <2>5. k - 1 \in 0..MaxHops /\ ~(k <= k - 1)
      BY <1>2, <2>3, <2>4
    <2>6. p[k - 1] \in Nat /\ p[k - 1] >= 1
      BY <2>2, <2>5
    <2>7. p[k] = b * p[k - 1]
      BY <1>1, <2>4
    <2>8. \A x, y \in Nat : x >= 1 /\ y >= 1 => x * y \in Nat /\ x * y >= 1
      OBVIOUS
    <2> HIDE DEF Bad
    <2> QED
      BY <2>3, <2>6, <2>7, <2>8
  <1>4. \A k \in 0..MaxHops : k # 0 => p[k - 1] <= p[k]
    <2> SUFFICES ASSUME NEW k \in 0..MaxHops, k # 0 PROVE p[k - 1] <= p[k]
      OBVIOUS
    <2>1. k - 1 \in 0..MaxHops /\ p[k] = b * p[k - 1]
      BY <1>1, <1>2
    <2>2. p[k - 1] \in Nat
      BY <1>3, <2>1
    <2>3. \A x \in Nat : x <= b * x
      OBVIOUS
    <2> QED
      BY <2>1, <2>2, <2>3
  <1>5. p[n] <= p[MaxHops]
    <2> DEFINE Low == {k \in 0..MaxHops : k >= n /\ ~(p[n] <= p[k])}
    <2> SUFFICES ASSUME Low # {} PROVE FALSE
      BY <1>2
    <2>1. Low \subseteq Nat
      BY <1>2
    <2>2. PICK k \in Low : \A j \in Low : k <= j
      BY <2>1, LeastOne
    <2>3. k \in 0..MaxHops /\ k >= n /\ ~(p[n] <= p[k])
      OBVIOUS
    <2>4. k # n
      BY <1>3, <2>3
    <2>5. k - 1 \in 0..MaxHops /\ k - 1 >= n /\ ~(k <= k - 1) /\ k # 0
      BY <1>2, <2>3, <2>4
    <2>6. p[n] <= p[k - 1]
      BY <2>2, <2>5
    <2>7. p[k - 1] <= p[k] /\ p[k - 1] \in Nat /\ p[k] \in Nat /\ p[n] \in Nat
      BY <1>3, <1>4, <2>3, <2>5
    <2> HIDE DEF Low
    <2> QED
      BY <2>3, <2>6, <2>7
  <1> QED
    BY <1>3, <1>5 DEF p

\* The confidence of a way is a fraction of Scale, as often as it has edges.
LEMMA WayCertainty ==
    ASSUME NEW c \in Changes, NEW E \in SUBSET EdgePool, NEW k \in 0..MaxHops,
           NEW w \in Ways(c, E)[k]
    PROVE  w[3] <= Power(Scale)[k]
  <1> DEFINE p == Power(Scale)
             Bad == {j \in 0..MaxHops : \E v \in Ways(c, E)[j] : ~(v[3] <= p[j])}
  <1> SUFFICES Bad = {}
    OBVIOUS
  <1> SUFFICES ASSUME Bad # {} PROVE FALSE
    OBVIOUS
  <1>1. Bad \subseteq Nat /\ MaxHops \in Nat /\ Scale \in Nat /\ Scale >= 1
    BY BlastAssumption
  <1>2. PICK j \in Bad : \A i \in Bad : j <= i
    BY <1>1, LeastOne
  <1>3. PICK v \in Ways(c, E)[j] : ~(v[3] <= p[j])
    OBVIOUS
  <1>4. /\ p[0] = 1 /\ \A i \in 0..MaxHops : i # 0 => p[i] = Scale * p[i - 1]
        /\ \A i \in 0..MaxHops : p[i] \in Nat
    BY <1>1, PowersMultiply, PowersGrow
  <1> HIDE DEF p
  <1>5. CASE j = 0
    <2>1. \A u : u \in Ways(c, E)[0] <=> \E s \in c : u = <<s, s, 1>>
      BY WayEnds
    <2>2. v[3] = 1
      BY <1>3, <1>5, <2>1
    <2> QED
      BY <1>3, <1>4, <1>5, <2>2
  <1>6. CASE j # 0
    <2>1. j \in 0..MaxHops /\ j - 1 \in 0..MaxHops /\ ~(j <= j - 1)
      BY <1>1, <1>6
    <2>2. PICK u \in Ways(c, E)[j - 1] : \E e \in E :
                    /\ e.source = u[2] /\ e.target \in Listed \cup c
                    /\ v = <<u[1], e.target, u[3] * e.confidence>>
      BY <1>3, <1>6, <2>1, WayEnds
    <2>3. PICK e \in E : v = <<u[1], e.target, u[3] * e.confidence>>
      BY <2>2
    <2>4. u[3] \in Nat /\ e.confidence \in 0..Scale
      BY <2>1, WayTyped, BlastAssumption
    <2>5. u[3] <= p[j - 1]
      BY <1>2, <2>1
    <2>6. v[3] = u[3] * e.confidence /\ p[j] = Scale * p[j - 1] /\ p[j - 1] \in Nat
      BY <1>4, <1>6, <2>1, <2>3
    <2>7. e.confidence \in Nat /\ e.confidence <= Scale
      BY <1>1, <2>4
    <2> HIDE DEF Bad
    <2>8. \A x, y, a, b \in Nat : x <= a /\ y <= b => x * y <= b * a
      <3> SUFFICES ASSUME NEW x \in Nat, NEW y \in Nat, NEW a \in Nat, NEW b \in Nat,
                          x <= a, y <= b
                   PROVE  x * y <= b * a
        OBVIOUS
      <3>1. x * y <= a * y
        OBVIOUS
      <3>2. a * y <= a * b
        OBVIOUS
      <3>3. x * y \in Nat /\ a * y \in Nat /\ a * b \in Nat /\ a * b = b * a
        OBVIOUS
      <3> QED
        BY <3>1, <3>2, <3>3
    <2>9. u[3] * e.confidence <= Scale * p[j - 1]
      BY <1>1, <2>4, <2>5, <2>6, <2>7, <2>8
    <2> QED
      BY <1>3, <2>6, <2>9
  <1> QED
    BY <1>5, <1>6

\* A service that was reached has a score.
LEMMA ScoreTyped ==
    ASSUME BlastInv, NEW n \in Node, distance[n] # Far
    PROVE  Score(n) \in 0..100
  <1> DEFINE d == distance[n]
             num == Power(18)[d] * certainty[n] * TierFactor[Tier[n]] * HealthFactor[Health[n]]
             den == 5 * Power(25 * Scale)[d]
  <1>1. d \in 0..MaxHops /\ certainty[n] \in Nat
    BY ReachedTyped DEF BlastInv
  <1>2. TierFactor[Tier[n]] \in Nat /\ HealthFactor[Health[n]] \in Nat
    <2>1. Tier[n] = 1 \/ Tier[n] = 2 \/ Tier[n] = 3
      BY BlastAssumption
    <2>2. \/ Health[n] = "critical" \/ Health[n] = "degraded"
          \/ Health[n] = "healthy" \/ Health[n] = "unknown"
      BY BlastAssumption
    <2>3. TierFactor[Tier[n]] \in Nat
      BY <2>1 DEF TierFactor
    <2>4. HealthFactor[Health[n]] \in Nat
      BY <2>2 DEF HealthFactor
    <2> QED
      BY <2>3, <2>4
  <1>3. Power(18)[d] \in Nat /\ Power(25 * Scale)[d] \in Nat /\ Power(25 * Scale)[d] >= 1
    <2>1. Scale \in Nat /\ Scale >= 1
      BY BlastAssumption
    <2>2. 25 * Scale \in Nat /\ 25 * Scale >= 1
      BY <2>1
    <2> HIDE DEF d
    <2>3. Power(18)[d] \in Nat
      BY <1>1, PowersGrow
    <2>4. Power(25 * Scale)[d] \in Nat /\ Power(25 * Scale)[d] >= 1
      BY <1>1, <2>2, PowersGrow
    <2> QED
      BY <2>3, <2>4
  <1>4. num \in Nat /\ den \in Nat /\ den >= 1
    <2>1. \A a, b \in Nat : a * b \in Nat
      OBVIOUS
    <2> QED
      BY <1>1, <1>2, <1>3, <2>1
  <1>5. Score(n) = IF d = 0 THEN 100 ELSE Clamp(Round(num, den), 0, 100)
    BY Zenon DEF Score
  <1> HIDE DEF d, num, den
  <1>6. Round(num, den) \in Int
    <2>1. num \div den \in Int
      BY <1>4
    <2> QED
      BY <2>1 DEF Round
  <1>7. Clamp(Round(num, den), 0, 100) \in 0..100
    BY <1>6 DEF Clamp
  <1> QED
    BY <1>5, <1>7

\* The types that the runs check are part of the invariant.
LEMMA BlastTyped == BlastInv => BlastTypeOK
  <1> SUFFICES ASSUME BlastInv PROVE BlastTypeOK
    OBVIOUS
  <1>1. /\ edges \in SUBSET EdgePool /\ changed \in Changes
        /\ queue \in Seq(Node) /\ source \in Node /\ outgoing \in Seq(edges)
        /\ origin \in [Node -> {Far} \cup Node] /\ MaxHops \in Nat /\ Far = -1
        /\ BlastTypes /\ ReachedByWays
    BY BlastAssumption DEF BlastInv, BlastTypes, Far
  <1>2. outgoing \in Seq(EdgePool)
    <2>1. Len(outgoing) \in Nat /\ \A i \in 1..Len(outgoing) : outgoing[i] \in edges
      BY <1>1, ElementOfSeq, LenProperties
    <2>2. outgoing \in [1..Len(outgoing) -> EdgePool]
      BY <1>1, <2>1, LenProperties
    <2> QED
      BY <2>1, <2>2, ListIsASequence
  <1>3. distance \in [Node -> Far..MaxHops]
    <2>1. {Far} \cup 0..MaxHops = Far..MaxHops
      BY <1>1
    <2> QED
      BY <1>1, <2>1 DEF BlastTypes
  <1>4. certainty \in [Node -> Far..Power(Scale)[MaxHops]]
    <2> DEFINE top == Power(Scale)[MaxHops]
    <2>1. Scale \in Nat /\ Scale >= 1
      BY BlastAssumption
    <2>2. top \in Nat
      BY <1>1, <2>1, PowersGrow
    <2>3. ASSUME NEW n \in Node PROVE certainty[n] \in Far..top
      <3>1. CASE distance[n] = Far
        <4>1. certainty[n] = Far
          BY <1>1, <3>1 DEF ReachedByWays
        <4> HIDE DEF top
        <4> QED
          BY <1>1, <2>2, <4>1
      <3>2. CASE distance[n] # Far
        <4> DEFINE w == <<origin[n], n, certainty[n]>>
        <4>1. w \in Ways(changed, edges)[distance[n]] /\ w[3] = certainty[n]
          BY <1>1, <3>2 DEF ReachedByWays
        <4>2. distance[n] \in 0..MaxHops /\ certainty[n] \in Nat
          BY <1>1, <3>2, ReachedTyped
        <4> HIDE DEF w
        <4>3. certainty[n] <= Power(Scale)[distance[n]]
          BY <1>1, <4>1, <4>2, WayCertainty
        <4>4. /\ Power(Scale)[distance[n]] \in Nat
              /\ Power(Scale)[distance[n]] <= top
          BY <2>1, <4>2, PowersGrow
        <4> HIDE DEF top
        <4> QED
          BY <1>1, <2>2, <4>2, <4>3, <4>4
      <3> QED
        BY <3>1, <3>2
    <2> HIDE DEF top
    <2>4. certainty \in [Node -> Far..top]
      BY <1>1, <2>3 DEF BlastTypes
    <2> QED
      BY <2>4 DEF top
  <1>5. impact \in [Node -> Far..100]
    <2>1. CASE impact = [n \in Node |-> Far]
      BY <1>1, <2>1
    <2>2. CASE impact = [n \in Node |-> IF distance[n] = Far THEN Far ELSE Score(n)]
      <3>1. \A n \in Node : (IF distance[n] = Far THEN Far ELSE Score(n)) \in Far..100
        <4>1. \A x \in 0..100 : x \in Far..100
          BY <1>1
        <4>2. Far \in Far..100
          BY <1>1
        <4> QED
          BY <4>1, <4>2, ScoreTyped, Zenon
      <3> QED
        BY <2>2, <3>1
    <2> QED
      BY <2>1, <2>2 DEF BlastInv, ReportIsLast
  <1> QED
    BY <1>1, <1>2, <1>3, <1>4, <1>5 DEF BlastTypeOK

\* The report of calculate_blast_radius is exact and explains itself, for every
\* topology and every set of changed services: the invariant says that what is
\* known of a service is true of one of the ways to it, and that an edge that
\* would help its target is still to be followed.
THEOREM BlastRadiusStaysExact == BlastSpec => []BlastRadiusIsExact
  <1>1. BlastSpec => []BlastInv
    BY BlastStarts, BlastStep, PTL DEF BlastSpec
  <1> QED
    BY <1>1, ReportIsExact, PTL

-------------------------------------------------------------------------------
(* The composition: the types of all components *)

\* RestoreRehearsal: the number of rehearsals stays within its bound
RehearsalTypes == RehearsalInv /\ begun \in 0..MaxRehearsals

\* Only a rehearsal that begins is counted, and only below the bound.
LEMMA RehearsalTypesStep ==
    RehearsalTypes /\ [RehearsalNext]_rehearsalVars => RehearsalTypes'
  <1> SUFFICES ASSUME RehearsalTypes, [RehearsalNext]_rehearsalVars
               PROVE  begun' \in 0..MaxRehearsals
    BY RehearsalStep DEF RehearsalTypes
  <1>1. ASSUME NEW r \in Rehearsals, LookForTarget(r) PROVE begun' \in 0..MaxRehearsals
    BY <1>1, RehearsalAssumption DEF LookForTarget, RehearsalTypes
  <1>2. ASSUME NEW r \in Rehearsals,
               \/ CreateTarget(r) \/ CheckTarget(r) \/ DropTarget(r) \/ StopRehearsal(r)
        PROVE  begun' = begun
    BY <1>2 DEF CreateTarget, CheckTarget, DropTarget, StopRehearsal
  <1>3. CASE RemoveLeftover
    BY <1>3 DEF RemoveLeftover, RehearsalTypes
  <1>4. CASE UNCHANGED rehearsalVars
    BY <1>4 DEF rehearsalVars, RehearsalTypes
  <1> QED
    BY <1>1, <1>2, <1>3, <1>4 DEF RehearsalNext, RehearsalTypes

\* The types that the runs check follow.
LEMMA RehearsalTyped ==
    /\ RehearsalInit => RehearsalTypes
    /\ RehearsalTypes => RehearsalTypeOK
  <1>1. RehearsalInit => begun \in 0..MaxRehearsals
    BY RehearsalAssumption DEF RehearsalInit
  <1> QED
    BY <1>1, RehearsalBegins, FourChecks
    DEF RehearsalTypes, RehearsalTypeOK, RehearsalInv, ChecksInOrder, Inside

\* Backup
LEMMA BackupTyped == BackupInv => BackupTypeOK
  BY DEF BackupInv, BackupTypeOK, DumpState, ArchiveState

\* ReadinessProbe
LEMMA ProbeTyped == ProbeInv => ProbeTypeOK
  BY DEF ProbeInv, ProbeTypes, ProbeTypeOK, ProbeState, ProbeStep

\* VerifyGate: the stages
LEMMA VerifyTypesStep ==
    VerifyInv /\ VerifyTypeOK /\ [VerifyNext]_verifyVars => (VerifyInv /\ VerifyTypeOK)'
  <1> SUFFICES ASSUME VerifyInv, VerifyTypeOK, [VerifyNext]_verifyVars
               PROVE  (VerifyInv /\ VerifyTypeOK)'
    OBVIOUS
  <1>1. stage' \in {"change", "policy", "evidence", "decide", "replace", "summary", "end"}
    BY DEF VerifyNext, CollectGitChange, LoadPolicy, CollectArtifacts, WriteTemporary,
           ReplaceReceipt, AppendSummary, Kill, End, verifyVars, VerifyTypeOK
  <1> QED
    BY <1>1, VerifyStep DEF VerifyInv, VerifyTypeOK

\* The command starts with its first stage.
LEMMA VerifyTyped == VerifyInit => VerifyInv /\ VerifyTypeOK
  BY VerifyStarts DEF VerifyInit, VerifyInv, VerifyTypeOK

\* Retention: the legal hold
RetentionHolds == RetentionInv /\ hold \in BOOLEAN

\* The hold is set or lifted, and nothing else changes it.
LEMMA RetentionTypesStep ==
    RetentionHolds /\ [RetentionNext]_retentionVars => RetentionHolds'
  <1> SUFFICES ASSUME RetentionHolds, [RetentionNext]_retentionVars
               PROVE  hold' \in BOOLEAN
    BY RetentionStep DEF RetentionHolds
  <1>1. hold' = hold \/ hold' = ~hold
    BY Zenon DEF RetentionNext, WriteRow, ChangeHold, StartSweep, CountRows, SelectBatch,
           DeleteBatch, ReportSweep, FailSweep, retentionVars
  <1> QED
    BY <1>1 DEF RetentionHolds

\* The types that the runs check follow.
LEMMA RetentionTyped ==
    /\ RetentionInit => RetentionHolds
    /\ RetentionHolds => RetentionTypeOK
  <1>1. RetentionInit => hold \in BOOLEAN
    BY DEF RetentionInit
  <1> QED
    BY <1>1, RetentionStarts
    DEF RetentionHolds, RetentionTypeOK, RetentionInv, RetentionTypes, SweepState, SweepStep

\* ConnectorHealth: the types are part of its invariant.
LEMMA HealthTyped == ViewInv => HealthTypeOK
  <1> SUFFICES ASSUME ViewInv PROVE HealthTypeOK
    OBVIOUS
  <1>1. HealthInv
    BY DEF ViewInv
  <1>2. \A d \in Deliveries :
          delivery[d].created \in 0..LastTick /\ delivery[d].status \in DeliveryStatus
    BY <1>1 DEF HealthInv
  <1>3. /\ view.step \in Reading \cup {"none", "answered"}
        /\ view.cutoff \in 0..LastTick /\ view.success \in 0..LastTick
        /\ view.failure \in 0..LastTick
        /\ view.fault \in BOOLEAN /\ view.stuck \in BOOLEAN /\ view.lost \in BOOLEAN
    BY <1>1 DEF HealthInv
  <1> QED
    BY <1>1, <1>2, <1>3 DEF HealthInv, HealthTypeOK, Links, DeliveryStatus

\* RiskScore: the score and the quality are percentages.
LEMMA RiskTyped == RiskInv => RiskTypeOK
  <1> SUFFICES ASSUME RiskInv PROVE RiskTypeOK
    OBVIOUS
  <1>1. change \in Change /\ ledger = CalculateChangeRisk(change)
    BY DEF RiskInv
  <1>2. Overall(change) \in 0..100
    BY <1>1, AtLeastItself, OverallKeepsOrder
  <1>3. Quality(change) \in 0..100
    <2> DEFINE known(field) == IF field = Unknown THEN 0 ELSE field
               given(condition) == IF condition THEN 1000 ELSE 0
               num == 3500 + 20 * known(change.observability) + 15 * known(change.coverage)
                      + given(change.rollback # "unknown") + given(change.failures # Unknown)
                      + given(change.services # {})
    <2>1. change.observability \in Int /\ change.coverage \in Int
      BY <1>1, ChangeFields
    <2>2. known(change.observability) \in Int /\ known(change.coverage) \in Int
      BY <2>1
    <2>3. \A condition : given(condition) \in Int
      OBVIOUS
    <2>4. num \in Int
      <3> HIDE DEF known, given
      <3> QED
        BY <2>2, <2>3
    <2>5. Quality(change) = Clamp(Round(num, 100), 0, 100)
      BY DEF Quality
    <2> HIDE DEF num
    <2>6. Round(num, 100) \in Int
      BY <2>4, RoundsInOrder
    <2> QED
      BY <2>5, <2>6 DEF Clamp
  <1>4. ledger.overall = Overall(change) /\ ledger.quality = Quality(change)
    BY <1>1 DEF CalculateChangeRisk
  <1> QED
    BY <1>1, <1>2, <1>3, <1>4 DEF RiskTypeOK

\* HypothesisRanking: a confidence is between 5 and 98 percent.
LEMMA ConfidenceIsClamped ==
    ASSUME NEW E \in SUBSET Evidence, IsFiniteSet(E), NEW h \in Candidate
    PROVE  Confidence(E, h) \in 5..98
  <1> DEFINE n == Max({1, Number(E, h)})
             m == Min({2, Number(E, h)})
             c == Min({10000, Counter(E, h)})
             q == MapThenSumSet(ItemQuality, Supporting(E, h))
             score == HypothesisScore(E, h)
             num == n * (150000 + 5500 * score + 75000 * m - 12 * c) + 1000 * q
  <1>1. Number(E, h) \in Nat /\ Counter(E, h) \in Nat /\ q \in Nat
    BY PartsOfEvidence
  <1>2. score \in Int
    BY ScoreIsANumber
  <1>3. n \in Nat \ {0}
    <2>1. \A x \in {1, Number(E, h)} : x \in Nat
      BY <1>1
    <2>2. \E x \in {1, Number(E, h)} : \A y \in {1, Number(E, h)} : x >= y
      BY <1>1
    <2>3. n \in {1, Number(E, h)} /\ n >= 1
      BY <2>2 DEF Max
    <2> HIDE DEF n
    <2> QED
      BY <2>1, <2>3
  <1>4. m \in Int /\ c \in Int
    BY <1>1, MinOfTwo
  <1>5. Confidence(E, h) = Clamp(Round(num, 10000 * n), 5, 98)
    BY DEF Confidence, Number, Counter
  <1> HIDE DEF n, m, c, q, score
  <1>6. 150000 + 5500 * score + 75000 * m - 12 * c \in Int
    BY <1>2, <1>4
  <1>7. num \in Int
    <2>1. \A a, b \in Int : a * b \in Int
      OBVIOUS
    <2> QED
      BY <1>1, <1>3, <1>6, <2>1
  <1>8. 10000 * n \in Nat \ {0}
    BY <1>3
  <1> HIDE DEF num
  <1>9. Round(num, 10000 * n) \in Int
    BY <1>7, <1>8, RoundsInOrder
  <1> QED
    BY <1>5, <1>9 DEF Clamp

\* Every hypothesis that is reported is a candidate with such a confidence.
LEMMA RankingTyped == RankingInv => RankingTypeOK
  <1> SUFFICES ASSUME RankingInv PROVE RankingTypeOK
    OBVIOUS
  <1> DEFINE E == recorded
  <1>1. E \in SUBSET Evidence /\ IsFiniteSet(E) /\ ranked = Ranking(E)
    BY DEF RankingInv
  <1>2. /\ ranked = [rank \in 1..Returned |->
               [id |-> Order(E)[rank], score |-> Scores(E)[Order(E)[rank]],
                confidence |-> Confidence(E, Order(E)[rank])]]
        /\ Returned \in Nat /\ Cardinality(Candidate) \in Nat
        /\ Returned <= Cardinality(Candidate)
    BY <1>1, ReportedList
  <1>3. Order(E) \in [1..Cardinality(Candidate) -> Candidate]
    BY <1>1, OrderLists DEF Lists
  <1> HIDE DEF E
  <1>4. ASSUME NEW i \in 1..Returned
        PROVE  /\ ranked[i].id \in Candidate /\ ranked[i].score \in 0..100
               /\ ranked[i].confidence \in 5..98
    <2>1. Order(E)[i] \in Candidate
      BY <1>2, <1>3
    <2>2. /\ ranked[i].id = Order(E)[i] /\ ranked[i].score = HypothesisScore(E, Order(E)[i])
          /\ ranked[i].confidence = Confidence(E, Order(E)[i])
      BY <1>2, <2>1 DEF Scores
    <2> QED
      BY <1>1, <2>1, <2>2, ScoreIsANumber, ConfidenceIsClamped
  <1> QED
    BY <1>1, <1>2, <1>4 DEF RankingTypeOK, E

\* DoraMetrics: the rows and the clock
LEMMA DoraTypesStep == DoraTypeOK /\ [DoraNext]_doraVars => DoraTypeOK'
  BY DoraAssumption DEF DoraNext, AskMetrics, NextDay, doraVars, DoraTypeOK

\* The first request comes no earlier than the last record.
LEMMA DoraTyped == DoraInit => DoraTypeOK
  BY DoraAssumption DEF DoraInit, DoraTypeOK

\* ChangeAnalysis: the walk stays among the roots and the ends of the edges.
LEMMA HitStays ==
    ASSUME NEW X, NEW roots \in SUBSET X, NEW links, \A e \in links : e[2] \in X
    PROVE  Hit(roots, links) \subseteq X
  <1> DEFINE More(S) == S \cup {e[2] : e \in {x \in links : x[1] \in S}}
             Way(f) == [k \in 0..4 |-> IF k = 0 THEN roots ELSE More(f[k - 1])]
             way == [k \in 0..4 |->
                      CASE k = 0 -> roots [] k = 1 -> More(roots)
                        [] k = 2 -> More(More(roots)) [] k = 3 -> More(More(More(roots)))
                        [] k = 4 -> More(More(More(More(roots))))]
             chosen == CHOOSE f : f = Way(f)
  <1>1. Hit(roots, links) = chosen[4]
    BY DEF Hit, MaxWay
  <1>2. \A S : S \subseteq X => More(S) \subseteq X
    OBVIOUS
  <1> HIDE DEF More
  <1>3. way = Way(way)
    <2>1. \A k \in 0..4 : k = 0 \/ k = 1 \/ k = 2 \/ k = 3 \/ k = 4
      OBVIOUS
    <2>2. /\ way[0] = roots /\ way[1] = More(way[0]) /\ way[2] = More(way[1])
          /\ way[3] = More(way[2]) /\ way[4] = More(way[3])
      OBVIOUS
    <2> HIDE DEF way
    <2>3. \A k \in 0..4 : Way(way)[k] = IF k = 0 THEN roots ELSE More(way[k - 1])
      OBVIOUS
    <2>4. \A k \in 0..4 : way[k] = Way(way)[k]
      BY <2>1, <2>2, <2>3
    <2>5. way = [k \in 0..4 |-> way[k]] /\ Way(way) = [k \in 0..4 |-> Way(way)[k]]
      BY DEF way
    <2> QED
      BY <2>4, <2>5
  <1> HIDE DEF way
  <1>4. chosen = Way(chosen)
    BY <1>3
  <1> HIDE DEF chosen
  <1>5. chosen[0] = roots
    BY <1>4
  <1>6. /\ chosen[1] = More(chosen[0]) /\ chosen[2] = More(chosen[1])
        /\ chosen[3] = More(chosen[2]) /\ chosen[4] = More(chosen[3])
    BY <1>4
  <1> QED
    BY <1>1, <1>2, <1>5, <1>6

\* An analysis that is stored or about to be has services and names only
AnalysisTypes ==
    /\ AnalysisTypeOK
    /\ asking = [c \in Analysts |-> asking[c]]
    /\ \A c \in Analysts :
         asking[c] # NoAnalysis => asking[c].record.hit \subseteq Entries \cup Names

\* Edits, requests that find an analysis and requests that compute one keep it so.
LEMMA AnalysisTypesStep == AnalysisTypes /\ [AnalysisNext]_analysisVars => AnalysisTypes'
  <1> SUFFICES ASSUME AnalysisTypes, [AnalysisNext]_analysisVars PROVE AnalysisTypes'
    OBVIOUS
  <1>1. ASSUME NEW c \in Analysts, asking' = [asking EXCEPT ![c] = NoAnalysis],
               UNCHANGED <<rows, needs, edits>>,
               \A r \in stored' : r.hit \subseteq Entries \cup Names
        PROVE  AnalysisTypes'
    <2>1. \A d \in Analysts : asking'[d] = NoAnalysis \/ asking'[d] = asking[d]
      BY <1>1 DEF AnalysisTypes
    <2>2. asking' = [d \in Analysts |-> asking'[d]]
      BY <1>1 DEF AnalysisTypes
    <2>3. NoAnalysis.step = "idle"
      BY DEF NoAnalysis
    <2>4. /\ rows' \subseteq Entries /\ needs' \in [Entries -> SUBSET Entries]
          /\ edits' \in 0..MaxEdits
      BY <1>1 DEF AnalysisTypes, AnalysisTypeOK
    <2>5. \A d \in Analysts :
            /\ asking'[d].step \in {"idle", "insert"}
            /\ asking'[d] # NoAnalysis => asking'[d].record.hit \subseteq Entries \cup Names
      BY <2>1, <2>3 DEF AnalysisTypes, AnalysisTypeOK
    <2> QED
      BY <1>1, <2>2, <2>4, <2>5 DEF AnalysisTypes, AnalysisTypeOK, NoAnalysis
  <1>2. ASSUME NEW s \in Entries, EditCatalog(s) PROVE AnalysisTypes'
    <2>1. PICK d \in rows \ {s} :
            needs' = [needs EXCEPT ![s] = IF d \in @ THEN @ \ {d} ELSE @ \cup {d}]
      BY <1>2 DEF EditCatalog
    <2>2. /\ edits < MaxEdits /\ edits' = edits + 1
          /\ UNCHANGED <<rows, stored, asking, answer>>
      BY <1>2 DEF EditCatalog
    <2>3. d \in Entries /\ needs[s] \subseteq Entries
      BY DEF AnalysisTypes, AnalysisTypeOK
    <2>4. needs' \in [Entries -> SUBSET Entries]
      BY <2>1, <2>3 DEF AnalysisTypes, AnalysisTypeOK
    <2>5. edits' \in 0..MaxEdits
      BY <2>2, AnalysisAssumption DEF AnalysisTypes, AnalysisTypeOK
    <2> QED
      BY <2>2, <2>4, <2>5 DEF AnalysisTypes, AnalysisTypeOK, NoAnalysis
  <1>3. ASSUME NEW c \in Analysts, Analyse(c) PROVE AnalysisTypes'
    <2>1. PICK request \in SUBSET Names \ {{}} :
            LET found == {r \in stored : r.id = Identifier(request)}
                fresh == [id |-> Identifier(request),
                          hit |-> Hit(Roots(request), Edges)]
            IN  IF found # {}
                THEN /\ Told(c, CHOOSE r \in found : TRUE)
                     /\ UNCHANGED stored
                ELSE /\ asking' = [asking EXCEPT ![c] =
                                     [step |-> "insert", record |-> fresh,
                                      answer |-> [request |-> request,
                                                  hit |-> fresh.hit,
                                                  edges |-> Edges,
                                                  roots |-> Roots(request)]]]
                     /\ UNCHANGED <<stored, answer>>
      BY <1>3 DEF Analyse
    <2> DEFINE fresh == [id |-> Identifier(request), hit |-> Hit(Roots(request), Edges)]
    <2>2. UNCHANGED <<rows, needs, edits>>
      BY <1>3 DEF Analyse
    <2>3. \/ asking' = [asking EXCEPT ![c] = NoAnalysis] /\ stored' = stored
          \/ /\ asking' = [asking EXCEPT ![c] =
                             [step |-> "insert", record |-> fresh,
                              answer |-> [request |-> request, hit |-> fresh.hit,
                                          edges |-> Edges, roots |-> Roots(request)]]]
             /\ stored' = stored
      BY <2>1 DEF Told
    <2>4. fresh.hit \subseteq Entries \cup Names
      <3>1. rows \subseteq Entries
        BY DEF AnalysisTypes, AnalysisTypeOK
      <3>2. Roots(request) \subseteq Entries \cup Names
        BY <3>1 DEF Roots
      <3>3. \A e \in Edges : e[2] \in Entries \cup Names
        BY <3>1 DEF Edges
      <3>4. Hit(Roots(request), Edges) \subseteq Entries \cup Names
        BY <3>2, <3>3, HitStays
      <3> QED
        BY <3>4
    <2> HIDE DEF fresh
    <2>5. CASE asking' = [asking EXCEPT ![c] = NoAnalysis] /\ stored' = stored
      <3>1. \A r \in stored' : r.hit \subseteq Entries \cup Names
        BY <2>5 DEF AnalysisTypes, AnalysisTypeOK
      <3> QED
        BY <1>1, <2>2, <2>5, <3>1
    <2>6. CASE /\ asking' = [asking EXCEPT ![c] =
                               [step |-> "insert", record |-> fresh,
                                answer |-> [request |-> request, hit |-> fresh.hit,
                                            edges |-> Edges, roots |-> Roots(request)]]]
               /\ stored' = stored
      <3>1. asking'[c].step = "insert" /\ asking'[c].record = fresh
        BY <2>6 DEF AnalysisTypes
      <3>2. \A d \in Analysts \ {c} : asking'[d] = asking[d]
        BY <2>6 DEF AnalysisTypes
      <3>3. asking' = [d \in Analysts |-> asking'[d]]
        BY <2>6 DEF AnalysisTypes
      <3>4. \A d \in Analysts :
              /\ asking'[d].step \in {"idle", "insert"}
              /\ asking'[d] # NoAnalysis => asking'[d].record.hit \subseteq Entries \cup Names
        BY <2>4, <3>1, <3>2 DEF AnalysisTypes, AnalysisTypeOK
      <3>5. /\ rows' \subseteq Entries /\ needs' \in [Entries -> SUBSET Entries]
            /\ edits' \in 0..MaxEdits
            /\ \A r \in stored' : r.hit \subseteq Entries \cup Names
        BY <2>2, <2>6 DEF AnalysisTypes, AnalysisTypeOK
      <3> QED
        BY <3>3, <3>4, <3>5 DEF AnalysisTypes, AnalysisTypeOK, NoAnalysis
    <2> QED
      BY <2>3, <2>5, <2>6
  <1>4. ASSUME NEW c \in Analysts, InsertAnalysis(c) PROVE AnalysisTypes'
    <2>1. asking[c] # NoAnalysis
      BY <1>4 DEF InsertAnalysis, NoAnalysis
    <2>2. asking[c].record.hit \subseteq Entries \cup Names
      BY <2>1 DEF AnalysisTypes
    <2>3. /\ asking' = [asking EXCEPT ![c] = NoAnalysis]
          /\ stored' = stored \/ stored' = stored \cup {asking[c].record}
          /\ UNCHANGED <<rows, needs, edits>>
      BY <1>4 DEF InsertAnalysis
    <2>4. \A r \in stored' : r.hit \subseteq Entries \cup Names
      BY <2>2, <2>3 DEF AnalysisTypes, AnalysisTypeOK
    <2> QED
      BY <1>1, <2>3, <2>4
  <1>5. ASSUME NEW c \in Analysts, DropAnalysis(c) PROVE AnalysisTypes'
    BY <1>1, <1>5 DEF DropAnalysis, AnalysisTypes, AnalysisTypeOK
  <1>6. CASE UNCHANGED analysisVars
    BY <1>6 DEF analysisVars, AnalysisTypes, AnalysisTypeOK, NoAnalysis
  <1> QED
    BY <1>2, <1>3, <1>4, <1>5, <1>6 DEF AnalysisNext

\* At first there is no analysis.
LEMMA AnalysisTyped ==
    /\ AnalysisInit => AnalysisTypes
    /\ AnalysisTypes => AnalysisTypeOK
  BY AnalysisAssumption DEF AnalysisInit, AnalysisTypes, AnalysisTypeOK, NoAnalysis

\* The invariant of the component that the behaviour follows
AnalysesInv ==
    /\ subject = "risk" => RiskInv
    /\ subject = "blast" => BlastInv
    /\ subject = "ranking" => RankingInv
    /\ subject = "change" => AnalysisTypes
    /\ subject = "synthesis" => SynthesisTypeOK
    /\ subject = "dora" => DoraTypeOK
    /\ subject = "health" => ViewInv
    /\ subject = "probe" => ProbeInv
    /\ subject = "verify" => VerifyInv /\ VerifyTypeOK
    /\ subject = "backup" => BackupInv
    /\ subject = "rehearsal" => RehearsalTypes
    /\ subject = "retention" => RetentionHolds

\* Whatever component it is, it starts in its own initial state.
LEMMA AnalysesStart == Init => AnalysesInv
  <1> SUFFICES ASSUME Init PROVE AnalysesInv
    OBVIOUS
  <1>1. /\ RiskInit /\ RankingInit /\ SynthesisInit /\ HealthInit /\ ProbeInit
        /\ RehearsalInit /\ AnalysisInit /\ VerifyInit /\ BackupInit /\ RetentionInit
    BY DEF Init
  <1>2. subject = "blast" => BlastInit
    BY DEF Init, BlastInit
  <1>3. subject = "dora" => DoraInit
    BY DEF Init
  <1>4. /\ RiskInv /\ RankingInv /\ AnalysisTypes /\ SynthesisTypeOK /\ ViewInv
        /\ ProbeInv /\ VerifyInv /\ VerifyTypeOK /\ BackupInv /\ RehearsalTypes
        /\ RetentionHolds
    BY <1>1, RiskStarts, RankingStays, AnalysisTyped, SynthesisTyped, HealthBegins,
       ProbeBegins, VerifyTyped, BackupBegins, RehearsalTyped, RetentionTyped
  <1>5. (subject = "blast" => BlastInv) /\ (subject = "dora" => DoraTypeOK)
    BY <1>2, <1>3, BlastStarts, DoraTyped
  <1> QED
    BY <1>4, <1>5 DEF AnalysesInv

\* Its steps are the ones of the component.
LEMMA AnalysesStep == AnalysesInv /\ [Next]_vars => AnalysesInv'
  <1> SUFFICES ASSUME AnalysesInv, [Next]_vars PROVE AnalysesInv'
    OBVIOUS
  <1>1. subject' = subject
    BY DEF Next, vars
  <1>2. /\ subject = "risk" => [RiskNext]_riskVars
        /\ subject = "blast" => [BlastNext]_blastVars
        /\ subject = "ranking" => [RankingNext]_rankingVars
        /\ subject = "change" => [AnalysisNext]_analysisVars
        /\ subject = "synthesis" => [SynthesisNext]_synthesisVars
        /\ subject = "dora" => [DoraNext]_doraVars
        /\ subject = "health" => [HealthNext]_healthVars
        /\ subject = "probe" => [ProbeNext]_probeVars
        /\ subject = "verify" => [VerifyNext]_verifyVars
        /\ subject = "backup" => [BackupNext]_backupVars
        /\ subject = "rehearsal" => [RehearsalNext]_rehearsalVars
        /\ subject = "retention" => [RetentionNext]_retentionVars
    BY Zenon DEF Next, vars
  <1>3. /\ subject = "risk" => RiskInv'
        /\ subject = "blast" => BlastInv'
        /\ subject = "ranking" => RankingInv'
        /\ subject = "change" => AnalysisTypes'
        /\ subject = "synthesis" => SynthesisTypeOK'
        /\ subject = "dora" => DoraTypeOK'
    BY <1>2, RiskStep, BlastStep, RankingStep, AnalysisTypesStep, SynthesisStep,
       DoraTypesStep DEF AnalysesInv
  <1>4. /\ subject = "health" => ViewInv'
        /\ subject = "probe" => ProbeInv'
        /\ subject = "verify" => VerifyInv' /\ VerifyTypeOK'
        /\ subject = "backup" => BackupInv'
        /\ subject = "rehearsal" => RehearsalTypes'
        /\ subject = "retention" => RetentionHolds'
    BY <1>2, HealthStep, ProbeStepKeeps, VerifyTypesStep, BackupStep,
       RehearsalTypesStep, RetentionTypesStep DEF AnalysesInv
  <1> QED
    BY <1>1, <1>3, <1>4 DEF AnalysesInv

\* Every analysis, display, probe and script keeps its types, for any values of
\* all the constants: scores and confidences stay in their ranges, analyses name
\* only services of the catalog or of the request, the walk queues and reports
\* only services, and every process is at one of its steps.
THEOREM AnalysesStayTyped == Spec => []TypeOK
  <1>1. AnalysesInv => TypeOK
    BY RiskTyped, BlastTyped, RankingTyped, AnalysisTyped, HealthTyped, ProbeTyped,
       BackupTyped, RehearsalTyped, RetentionTyped DEF AnalysesInv, TypeOK
  <1> QED
    BY <1>1, AnalysesStart, AnalysesStep, PTL DEF Spec
===============================================================================
