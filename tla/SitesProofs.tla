----------------------------- MODULE SitesProofs -----------------------------
(* Theorems about the parts beside a page's calls: the answer of               *)
(* interchainReadsAllowed, the backoff of wrong passwords, the in-page connect *)
(* prompt, what the Send screen signs and the live balances, for any number of *)
(* reads, checks, worker stops, prompts, targets, prices, accounts and chains. *)
EXTENDS MCSites, ProviderCallsProofs, SequenceTheorems, TLAPS

-----------------------------------------------------------------------------
(* The answer that is kept *)

(***************************************************************************)
(* The argument: an answer that is kept, or that a read has half of, can    *)
(* disagree with the setting and the permission only if they changed after  *)
(* the read that brought it began; it is used for GateTtl from there on.    *)
(***************************************************************************)
GateShapes ==
  /\ live \in BOOLEAN /\ permitted \in BOOLEAN
  /\ gate \in [at : Nat, allowed : BOOLEAN, kept : BOOLEAN]
  /\ now \in Nat /\ changedAt \in Nat
  /\ reader \in [Readers -> [st : {"idle", "asking", "permission", "decided"},
                             began : Nat, allowed : BOOLEAN]]
Past == gate.at <= now /\ changedAt <= now /\ \A r \in Readers : reader[r].began <= now
KeptIsOlder == gate.kept /\ gate.allowed # (live /\ permitted) => gate.at <= changedAt
HalfIsOlder ==
  \A r \in Readers : reader[r].st = "permission" /\ ~live => reader[r].began <= changedAt
AnswerInv == GateShapes /\ Past /\ KeptIsOlder /\ HalfIsOlder /\ GateFollowsInTime

LEMMA GateInitially == GateInit => AnswerInv
  BY DEF GateInit, NoAnswer, IdleReader, AnswerInv, GateShapes, Past, KeptIsOlder, HalfIsOlder, GateFollowsInTime

\* A read that begins is decided by the answer kept only while it may be.
LEMMA AskInv ==
  ASSUME AnswerInv, NEW r \in Readers, AsksGate(r)
  PROVE  AnswerInv'
  BY GateAssumption
     DEF AsksGate, Fresh, AnswerInv, GateShapes, Past, KeptIsOlder, HalfIsOlder, GateFollowsInTime

\* A read decides as the setting and the permission say, or they changed since.
LEMMA SettingInv ==
  ASSUME AnswerInv, NEW r \in Readers, ReadsSetting(r)
  PROVE  AnswerInv'
<1> USE GateAssumption DEF AnswerInv, GateShapes, Past, KeptIsOlder, HalfIsOlder, GateFollowsInTime
<1>1. CASE live
  <2>1. reader' = [reader EXCEPT ![r].st = "permission"] /\ UNCHANGED <<live, permitted, gate, now, changedAt>>
    BY <1>1 DEF ReadsSetting
  <2>2. /\ reader'[r].st = "permission" /\ reader'[r].began = reader[r].began
        /\ \A q \in Readers \ {r} : reader'[q] = reader[q]
    BY <2>1
  <2>3. GateShapes'
    BY <2>1
  <2> QED BY <1>1, <2>1, <2>2, <2>3
<1>2. CASE ~live
  <2>1. /\ gate' = [at |-> reader[r].began, allowed |-> FALSE, kept |-> TRUE]
        /\ reader' = [reader EXCEPT ![r] =
             [st |-> "decided", began |-> reader[r].began, allowed |-> FALSE]]
        /\ UNCHANGED <<live, permitted, now, changedAt>>
    BY <1>2 DEF ReadsSetting, Decides, Keeps
  <2> QED BY <1>2, <2>1
<1> QED BY <1>1, <1>2

LEMMA PermissionInv ==
  ASSUME AnswerInv, NEW r \in Readers, ReadsPermission(r)
  PROVE  AnswerInv'
<1> USE GateAssumption DEF AnswerInv, GateShapes, Past, KeptIsOlder, HalfIsOlder, GateFollowsInTime
<1>1. /\ reader[r].st = "permission"
      /\ gate' = [at |-> reader[r].began, allowed |-> permitted, kept |-> TRUE]
      /\ reader' = [reader EXCEPT ![r] =
           [st |-> "decided", began |-> reader[r].began, allowed |-> permitted]]
      /\ UNCHANGED <<live, permitted, now, changedAt>>
  BY DEF ReadsPermission, Decides, Keeps
<1>2. permitted # (live /\ permitted) => ~live
  OBVIOUS
<1>3. ~live => reader[r].began <= changedAt
  BY <1>1
<1> QED BY <1>1, <1>2, <1>3

\* What changes now is no older than anything that is kept or under way.
LEMMA ChangeInv ==
  ASSUME AnswerInv, live' \in BOOLEAN, permitted' \in BOOLEAN,
         changedAt' = now \/ UNCHANGED <<live, permitted, changedAt>>,
         UNCHANGED <<gate, now, reader>>
  PROVE  AnswerInv'
  BY GateAssumption DEF AnswerInv, GateShapes, Past, KeptIsOlder, HalfIsOlder, GateFollowsInTime

\* The answer is dropped, reads end, or time passes.
LEMMA DropInv ==
  ASSUME AnswerInv, gate' \in {gate, NoAnswer}, now' \in {now, now + 1},
         reader' \in [Readers -> [st : {"idle", "asking", "permission", "decided"},
                                  began : Nat, allowed : BOOLEAN]],
         \A r \in Readers : reader'[r] = reader[r] \/ reader'[r] = IdleReader,
         UNCHANGED <<live, permitted, changedAt>>
  PROVE  AnswerInv'
<1> USE GateAssumption DEF AnswerInv, GateShapes, Past, KeptIsOlder, HalfIsOlder, GateFollowsInTime
<1>1. IdleReader.st = "idle" /\ IdleReader.began = 0
  BY DEF IdleReader
<1>2. \A r \in Readers : reader'[r].st \in {"permission", "decided"} => reader'[r] = reader[r]
  BY <1>1
<1>3. \A r \in Readers : reader'[r].began = reader[r].began \/ reader'[r].began = 0
  BY <1>1
<1>4. gate' = gate \/ (gate'.at = 0 /\ gate'.allowed = FALSE /\ gate'.kept = FALSE)
  BY DEF NoAnswer
<1>5. GateShapes'
  <2>1. NoAnswer \in [at : Nat, allowed : BOOLEAN, kept : BOOLEAN]
    BY DEF NoAnswer
  <2>2. gate' \in [at : Nat, allowed : BOOLEAN, kept : BOOLEAN]
    BY <2>1
  <2>3. now' \in Nat
    OBVIOUS
  <2> QED BY <2>2, <2>3
<1>6. Past'
  BY <1>3, <1>4
<1>7. KeptIsOlder'
  BY <1>4
<1> QED BY <1>2, <1>5, <1>6, <1>7

Savings == [Savers -> [st : {"idle", "clearing", "reading", "writing"},
                       patch : Patches, next : BOOLEAN]]

LEMMA SaverShape ==
  ASSUME saver \in Savings, live \in BOOLEAN, [GateNext]_gateVars
  PROVE  saver' \in Savings
<1> USE DEF Savings, Patches, IdleSaver
<1>1. ASSUME NEW s \in Savers, NEW patch \in Patches, SaveStarts(s, patch) PROVE saver' \in Savings
  BY <1>1 DEF SaveStarts
<1>2. ASSUME NEW s \in Savers, SaveClears(s) PROVE saver' \in Savings
  BY <1>2 DEF SaveClears
<1>3. ASSUME NEW s \in Savers, SaveReads(s) PROVE saver' \in Savings
  BY <1>3 DEF SaveReads
<1>4. ASSUME NEW s \in Savers, SaveWrites(s) PROVE saver' \in Savings
  BY <1>4 DEF SaveWrites
<1>5. CASE GateIsLost
  BY <1>5 DEF GateIsLost
<1>6. CASE UNCHANGED saver
  BY <1>6
<1> QED
  BY <1>1, <1>2, <1>3, <1>4, <1>5, <1>6
     DEF GateNext, AsksGate, ReadsSetting, ReadsPermission, ReadLeaves, PermissionChanges,
         GateClockTicks, gateVars

LEMMA GateKeeps ==
  ASSUME AnswerInv, saver \in Savings, [GateNext]_gateVars
  PROVE  AnswerInv'
<1>1. ASSUME NEW r \in Readers, ReadLeaves(r) PROVE AnswerInv'
  <2>1. /\ reader' \in [Readers -> [st : {"idle", "asking", "permission", "decided"},
                                    began : Nat, allowed : BOOLEAN]]
        /\ \A q \in Readers : reader'[q] = reader[q] \/ reader'[q] = IdleReader
    BY <1>1 DEF ReadLeaves, IdleReader, AnswerInv, GateShapes
  <2> QED BY <1>1, <2>1, DropInv DEF ReadLeaves
<1>2. ASSUME NEW s \in Savers,
             \/ \E patch \in Patches : SaveStarts(s, patch)
             \/ SaveClears(s) \/ SaveReads(s)
      PROVE  AnswerInv'
  BY <1>2, DropInv DEF SaveStarts, SaveClears, SaveReads, AnswerInv, GateShapes
<1>3. ASSUME NEW s \in Savers, SaveWrites(s) PROVE AnswerInv'
  <2>1. live' \in BOOLEAN /\ permitted' \in BOOLEAN
    BY <1>3 DEF SaveWrites, Savings, AnswerInv, GateShapes
  <2> QED BY <1>3, <2>1, ChangeInv DEF SaveWrites
<1>4. CASE PermissionChanges
  BY <1>4, ChangeInv DEF PermissionChanges, AnswerInv, GateShapes
<1>5. CASE GateIsLost
  <2>1. /\ reader' \in [Readers -> [st : {"idle", "asking", "permission", "decided"},
                                    began : Nat, allowed : BOOLEAN]]
        /\ \A q \in Readers : reader'[q] = IdleReader
    BY <1>5 DEF GateIsLost, IdleReader
  <2> QED BY <1>5, <2>1, DropInv DEF GateIsLost
<1>6. CASE GateClockTicks
  BY <1>6, DropInv DEF GateClockTicks, AnswerInv, GateShapes
<1>7. CASE UNCHANGED gateVars
  BY <1>7, DropInv DEF gateVars, AnswerInv, GateShapes
<1> QED
  BY <1>1, <1>2, <1>3, <1>4, <1>5, <1>6, <1>7, AskInv, SettingInv, PermissionInv DEF GateNext

\* The clock stays within its bound, and the times that are kept within the clock's.
GateClock == saver \in Savings /\ now \in 0 .. MaxNow

GateInv == AnswerInv /\ GateClock

LEMMA GateStarts == GateInit => GateInv
  BY GateInitially, GateAssumption DEF GateInit, GateInv, GateClock, Savings, IdleSaver, Patches

LEMMA GateStays == GateInv /\ [GateNext]_gateVars => GateInv'
<1> SUFFICES ASSUME GateInv, [GateNext]_gateVars PROVE GateInv'
  OBVIOUS
<1>1. AnswerInv' /\ saver' \in Savings
  BY GateKeeps, SaverShape DEF GateInv, GateClock, AnswerInv, GateShapes
<1>2. now' = now \/ (now' = now + 1 /\ now < MaxNow)
  BY DEF GateNext, AsksGate, ReadsSetting, ReadsPermission, ReadLeaves, SaveStarts, SaveClears, SaveReads,
         SaveWrites, PermissionChanges, GateIsLost, GateClockTicks, gateVars
<1> QED
  BY <1>1, <1>2, GateAssumption DEF GateInv, GateClock

\* What is kept of the settings, the permission, the answer, the reads and the saves.
LEMMA GateFits == GateInv => GateTypeOK
<1> SUFFICES ASSUME GateInv PROVE GateTypeOK
  OBVIOUS
<1> USE GateAssumption DEF GateInv, GateClock, AnswerInv, GateShapes, Past
<1>1. gate \in [at : 0 .. MaxNow, allowed : BOOLEAN, kept : BOOLEAN]
  OBVIOUS
<1>2. reader \in [Readers -> [st : {"idle", "asking", "permission", "decided"},
                            began : 0 .. MaxNow, allowed : BOOLEAN]]
  OBVIOUS
<1> QED
  BY <1>1, <1>2 DEF GateTypeOK, Savings

\* Decided against the setting and the permission only within GateTtl of their
\* last change, however many reads and saves overlap (interchainReadsAllowed).
THEOREM FollowsInTime == GateSpec => []GateFollowsInTime
<1>1. GateInv => GateFollowsInTime
  BY DEF GateInv, AnswerInv
<1> QED BY <1>1, GateStarts, GateStays, PTL DEF GateSpec

-----------------------------------------------------------------------------
(* The backoff *)

(***************************************************************************)
(* The argument: at most the first check of the queue works, so what it has *)
(* read is still what is stored.  What is stored counts every wrong         *)
(* password but those cut off, and its wait ends no sooner than the delay   *)
(* after the last of them; setting the clock back only makes it longer.     *)
(***************************************************************************)
Working == {"opening", "failing", "clearing"}

ThrottleShape ==
  /\ stored \in Throttles /\ wall \in Nat
  /\ guess \in [Guesses -> Records]
  /\ checks \in Seq(Guesses)
ClockShape ==
  /\ failed \in Nat /\ uncounted \in Nat
  /\ sinceWrong \in 0 .. MaxDelay /\ sinceCounted \in 0 .. MaxDelay
FirstWorks == \A g \in Guesses : guess[g].st \in Working => checks # <<>> /\ Head(checks) = g
ReadIsStored ==
  \A g \in Guesses : guess[g].st \in {"opening", "clearing"} =>
    guess[g].throttle.failures = stored.failures
AllCounted ==
  (\A g \in Guesses : guess[g].st # "failing") => stored.failures + uncounted = failed
OneMore == \A g \in Guesses : guess[g].st = "failing" =>
  /\ stored.failures + uncounted + 1 = failed
  /\ guess[g].throttle.failures = stored.failures + 1
\* The wait `throttle` says is not over before `since` reaches its delay.
Waits(throttle, since) ==
  \/ Delay(throttle.failures) = 0
  \/ since = MaxDelay
  \/ throttle.retryAt + since >= wall + Delay(throttle.failures)
StoredWaits == Waits(stored, sinceCounted)
FailureWaits == \A g \in Guesses : guess[g].st = "failing" => Waits(guess[g].throttle, sinceWrong)
TriedInTime ==
  \A g \in Guesses : guess[g].st = "opening" => sinceCounted >= Delay(stored.failures)

Counts == ReadIsStored /\ AllCounted /\ OneMore
InTime == StoredWaits /\ FailureWaits /\ TriedInTime
WaitInv == ThrottleShape /\ ClockShape /\ FirstWorks /\ Counts /\ InTime

LEMMA DelayBound == \A n \in Nat : Delay(n) \in 0 .. MaxDelay
  BY ScheduleAssumption DEF Delay

LEMMA EmptyType == EmptyThrottle \in Throttles /\ EmptyThrottle.failures = 0
  BY DEF EmptyThrottle, Throttles

LEMMA WaitInitially == ThrottleInit => WaitInv
<1> SUFFICES ASSUME ThrottleInit PROVE WaitInv
  OBVIOUS
<1>1. NewGuess \in Records /\ NewGuess.st = "new"
  BY EmptyType DEF NewGuess, Works, Records
<1>2. ThrottleShape
  BY <1>1, EmptyType, EmptySeq DEF ThrottleInit, ThrottleShape
<1>7. ClockShape
  BY ScheduleAssumption DEF ThrottleInit, ClockShape
<1>3. \A g \in Guesses : guess[g].st = "new"
  BY <1>1 DEF ThrottleInit
<1>4. FirstWorks
  BY <1>3 DEF FirstWorks, Working
<1>5. Counts
  BY <1>3, EmptyType DEF ThrottleInit, Counts, ReadIsStored, AllCounted, OneMore
<1>6. InTime
  BY <1>3 DEF ThrottleInit, InTime, StoredWaits, Waits, FailureWaits, TriedInTime
<1> QED BY <1>2, <1>4, <1>5, <1>6, <1>7 DEF WaitInv

\* While one check works no other does, and none while one has its turn.
LEMMA OneWorks ==
  ASSUME WaitInv, NEW g \in Guesses, guess[g].st \in Working \/ HasTurn(g),
         NEW h \in Guesses, guess[h].st \in Working
  PROVE  h = g
  BY DEF WaitInv, FirstWorks, HasTurn

\* Nobody works after a step: what is stored is all there is to say.
LEMMA QuietInv ==
  ASSUME ThrottleShape', ClockShape', \A g \in Guesses : guess'[g].st \notin Working,
         stored'.failures + uncounted' = failed', StoredWaits'
  PROVE  WaitInv'
<1>1. FirstWorks'
  BY DEF FirstWorks
<1>2. Counts'
  BY DEF Counts, ReadIsStored, AllCounted, OneMore, Working
<1>3. InTime'
  BY DEF InTime, FailureWaits, TriedInTime, Working
<1> QED BY <1>1, <1>2, <1>3 DEF WaitInv

\* One check works after a step, and it is the first.
LEMMA OneInv ==
  ASSUME ThrottleShape', ClockShape', NEW g \in Guesses,
         checks' # <<>> /\ Head(checks') = g,
         \A h \in Guesses : h # g => guess'[h].st \notin Working,
         guess'[g].st \in Working,
         guess'[g].st # "failing" =>
           /\ guess'[g].throttle.failures = stored'.failures
           /\ stored'.failures + uncounted' = failed',
         guess'[g].st = "failing" =>
           /\ guess'[g].throttle.failures = stored'.failures + 1
           /\ stored'.failures + uncounted' + 1 = failed'
           /\ Waits(guess[g].throttle, sinceWrong)',
         guess'[g].st = "opening" => sinceCounted' >= Delay(stored.failures)',
         StoredWaits'
  PROVE  WaitInv'
<1>1. FirstWorks'
  BY DEF FirstWorks
<1>2. Counts'
  BY DEF Counts, ReadIsStored, AllCounted, OneMore, Working
<1>3. InTime'
  BY DEF InTime, FailureWaits, TriedInTime, Working
<1> QED BY <1>1, <1>2, <1>3 DEF WaitInv

LEMMA Changed ==
  ASSUME ThrottleShape, NEW g \in Guesses, NEW rec \in Records,
         guess' = [guess EXCEPT ![g] = rec]
  PROVE  /\ guess' \in [Guesses -> Records]
         /\ guess'[g] = rec
         /\ \A h \in Guesses : h # g => guess'[h] = guess[h]
  BY DEF ThrottleShape

\* A check joins the queue.
LEMMA EntersInv ==
  ASSUME WaitInv, NEW g \in Guesses, Enters(g)
  PROVE  WaitInv'
<1> DEFINE rec == Works("queued", EmptyThrottle)
<1>1. rec \in Records /\ rec.st = "queued"
  BY EmptyType DEF Works, Records
<1>2. guess' = [guess EXCEPT ![g] = rec] /\ guess[g].st = "new" /\ checks' = Append(checks, g)
  BY DEF Enters
<1>3. UNCHANGED <<stored, wall, failed, uncounted, sinceWrong, sinceCounted>>
  BY DEF Enters, watched
<1> HIDE DEF rec
<1>4. /\ guess' \in [Guesses -> Records]
      /\ guess'[g] = rec
      /\ \A h \in Guesses : h # g => guess'[h] = guess[h]
  BY <1>1, <1>2, Changed DEF WaitInv
<1>5. /\ checks' \in Seq(Guesses) /\ checks' # <<>>
      /\ checks # <<>> => Head(checks') = Head(checks)
  BY <1>2, AppendProperties DEF WaitInv, ThrottleShape
<1>6. \A h \in Guesses : guess'[h].st \in Working \cup {"failing"} => guess'[h] = guess[h] /\ h # g
  BY <1>1, <1>4 DEF Working
<1>7. ThrottleShape' /\ ClockShape'
  BY <1>3, <1>4, <1>5 DEF WaitInv, ThrottleShape, ClockShape
<1>8. FirstWorks'
  BY <1>5, <1>6 DEF WaitInv, FirstWorks
<1>9. (\A h \in Guesses : guess'[h].st # "failing") <=> (\A h \in Guesses : guess[h].st # "failing")
  BY <1>2, <1>4, <1>6
<1>10. Counts'
  BY <1>3, <1>6, <1>9 DEF WaitInv, Counts, ReadIsStored, AllCounted, OneMore, Working
<1>11. InTime'
  BY <1>3, <1>6 DEF WaitInv, InTime, StoredWaits, Waits, FailureWaits, TriedInTime, Working, Delay
<1> QED BY <1>7, <1>8, <1>10, <1>11 DEF WaitInv

\* A check that has its turn or works ends: the queue moves on.
LEMMA EndsQuiet ==
  ASSUME WaitInv, NEW g \in Guesses, guess[g].st \in Working \/ HasTurn(g),
         NEW end \in Records, end.st \notin Working, CheckEnds(g, end)
  PROVE  /\ guess' \in [Guesses -> Records]
         /\ checks' \in Seq(Guesses)
         /\ \A h \in Guesses : guess'[h].st \notin Working
<1>1. /\ guess' \in [Guesses -> Records]
      /\ guess'[g] = end
      /\ \A h \in Guesses : h # g => guess'[h] = guess[h]
  BY Changed DEF CheckEnds, WaitInv
<1>2. checks # <<>> /\ checks \in Seq(Guesses)
  BY DEF WaitInv, FirstWorks, HasTurn, ThrottleShape
<1>3. checks' \in Seq(Guesses)
  BY <1>2, HeadTailProperties DEF CheckEnds
<1> QED BY <1>1, <1>3, OneWorks

\* What a check reads is what is stored, its wait as of now.
LEMMA AsOfNowRead ==
  ASSUME ThrottleShape
  PROVE  /\ AsOfNow(stored) \in Throttles
         /\ AsOfNow(stored).failures = stored.failures
         /\ AsOfNow(stored).retryAt <= wall => stored.retryAt <= wall
  BY ScheduleAssumption DEF ThrottleShape, Throttles, AsOfNow, Lesser

LEMMA RecordedFailure ==
  ASSUME ThrottleShape, NEW throttle \in Throttles
  PROVE  /\ RecordFailure(throttle) \in Throttles
         /\ RecordFailure(throttle).failures = throttle.failures + 1
         /\ LET delay == Delay(RecordFailure(throttle).failures)
            IN delay = 0 \/ RecordFailure(throttle).retryAt = wall + delay
<1>1. throttle.failures + 1 \in Nat
  BY DEF Throttles
<1>2. Delay(throttle.failures + 1) \in Nat
  BY <1>1, DelayBound, ScheduleAssumption
<1> QED BY <1>1, <1>2 DEF RecordFailure, ThrottleShape, Throttles

\* A check is let through only after the wait that is stored.
LEMMA ReadsInv ==
  ASSUME WaitInv, NEW g \in Guesses, ReadsThrottle(g)
  PROVE  WaitInv'
<1> DEFINE read == AsOfNow(stored)
<1>1. /\ read \in Throttles /\ read.failures = stored.failures
      /\ read.retryAt <= wall => stored.retryAt <= wall
  BY AsOfNowRead DEF WaitInv
<1>2. HasTurn(g) /\ UNCHANGED <<stored, wall, failed, uncounted, sinceWrong, sinceCounted>>
  BY DEF ReadsThrottle, watched
<1>3. \A h \in Guesses : guess[h].st \notin Working
  BY <1>2, OneWorks DEF HasTurn, Working
<1>4. stored'.failures + uncounted' = failed' /\ StoredWaits'
  BY <1>2, <1>3 DEF WaitInv, Counts, AllCounted, Working, InTime, StoredWaits, Waits, Delay
<1>5. ClockShape'
  BY <1>2 DEF WaitInv, ClockShape
<1>6. CASE read.retryAt > wall
  <2> DEFINE end == CheckEnded("refused")
  <2>1. CheckEnds(g, end)
    BY <1>6 DEF ReadsThrottle
  <2>2. end \in Records /\ end.st \notin Working
    BY EmptyType DEF CheckEnded, Works, Records, Working
  <2> HIDE DEF end
  <2>3. ThrottleShape' /\ \A h \in Guesses : guess'[h].st \notin Working
    BY <1>2, <2>1, <2>2, EndsQuiet DEF WaitInv, ThrottleShape
  <2> QED BY <1>4, <1>5, <2>3, QuietInv
<1>7. CASE ~ (read.retryAt > wall)
  <2> DEFINE rec == Works("opening", read)
  <2>1. guess' = [guess EXCEPT ![g] = rec] /\ UNCHANGED checks
    BY <1>7 DEF ReadsThrottle
  <2>2. rec \in Records /\ rec.st = "opening" /\ rec.throttle = read
    BY <1>1 DEF Works, Records
  <2> HIDE DEF rec
  <2>3. /\ guess' \in [Guesses -> Records] /\ guess'[g] = rec
        /\ \A h \in Guesses : h # g => guess'[h] = guess[h]
    BY <2>1, <2>2, Changed DEF WaitInv
  <2>4. ThrottleShape'
    BY <1>2, <2>1, <2>3 DEF WaitInv, ThrottleShape
  <2>5. sinceCounted >= Delay(stored.failures)
    <3>1. /\ stored.retryAt <= wall
          /\ stored.retryAt \in Nat /\ wall \in Nat /\ sinceCounted \in Nat
          /\ Delay(stored.failures) \in Nat /\ Delay(stored.failures) <= MaxDelay
      BY <1>1, <1>7, DelayBound, ScheduleAssumption DEF WaitInv, ThrottleShape, ClockShape, Throttles
    <3>2. Waits(stored, sinceCounted)
      BY DEF WaitInv, InTime, StoredWaits
    <3> HIDE DEF read
    <3> QED BY <3>1, <3>2, ScheduleAssumption DEF Waits
  <2>6. sinceCounted' >= Delay(stored.failures)'
    BY <1>2, <2>5 DEF Delay
  <2>7. checks' # <<>> /\ Head(checks') = g
    BY <1>2, <2>1 DEF HasTurn
  <2> QED BY <1>1, <1>2, <1>3, <1>4, <1>5, <2>2, <2>3, <2>4, <2>6, <2>7, OneInv DEF Working
<1> QED BY <1>6, <1>7

\* The keyring refuses the password: the failure is counted once it is stored.
LEMMA WrongInv ==
  ASSUME WaitInv, NEW g \in Guesses, OpensWrong(g)
  PROVE  WaitInv'
<1> DEFINE failure == RecordFailure(guess[g].throttle)
           rec == Works("failing", failure)
<1>1. /\ guess[g].st = "opening" /\ guess' = [guess EXCEPT ![g] = rec]
      /\ failed' = failed + 1 /\ sinceWrong' = 0
      /\ UNCHANGED <<stored, wall, checks, uncounted, sinceCounted>>
  BY DEF OpensWrong
<1>2. guess[g].throttle \in Throttles /\ guess[g].throttle.failures = stored.failures
  BY <1>1 DEF WaitInv, ThrottleShape, Records, Counts, ReadIsStored
<1>3. /\ failure \in Throttles /\ failure.failures = stored.failures + 1
      /\ Delay(failure.failures) = 0 \/ failure.retryAt = wall + Delay(failure.failures)
  BY <1>2, RecordedFailure DEF WaitInv
<1>4. rec \in Records /\ rec.st = "failing" /\ rec.throttle = failure
  BY <1>3 DEF Works, Records
<1> HIDE DEF failure, rec
<1>5. /\ guess' \in [Guesses -> Records] /\ guess'[g] = rec
      /\ \A h \in Guesses : h # g => guess'[h] = guess[h]
  BY <1>1, <1>4, Changed DEF WaitInv
<1>6. /\ \A h \in Guesses : h # g => guess[h].st \notin Working
      /\ checks # <<>> /\ Head(checks) = g
  BY <1>1, OneWorks DEF WaitInv, FirstWorks, Working
<1>7. stored.failures + uncounted = failed
  BY <1>1, <1>6 DEF WaitInv, Counts, AllCounted, Working
<1>8. ThrottleShape' /\ ClockShape'
  BY <1>1, <1>5, ScheduleAssumption DEF WaitInv, ThrottleShape, ClockShape
<1>9. stored'.failures + uncounted' + 1 = failed'
  BY <1>1, <1>7
<1>10. Waits(guess[g].throttle, sinceWrong)'
  <2>1. wall \in Nat /\ Delay(failure.failures) \in Nat /\ failure.retryAt \in Nat
    BY <1>3, DelayBound, ScheduleAssumption DEF WaitInv, ThrottleShape, Throttles
  <2> QED BY <1>1, <1>3, <1>4, <1>5, <2>1 DEF Waits, Delay
<1>11. StoredWaits'
  BY <1>1 DEF WaitInv, InTime, StoredWaits, Waits, Delay
<1> QED BY <1>1, <1>3, <1>4, <1>5, <1>6, <1>8, <1>9, <1>10, <1>11, OneInv DEF Working

\* The failure is stored, with the wait it began.
LEMMA StoresInv ==
  ASSUME WaitInv, NEW g \in Guesses, StoresFailure(g)
  PROVE  WaitInv'
<1>1. /\ guess[g].st = "failing" /\ stored' = guess[g].throttle
      /\ CheckEnds(g, CheckEnded("wrong"))
      /\ sinceCounted' = sinceWrong
      /\ UNCHANGED <<wall, failed, uncounted, sinceWrong>>
  BY DEF StoresFailure
<1>2. CheckEnded("wrong") \in Records /\ CheckEnded("wrong").st \notin Working
  BY EmptyType DEF CheckEnded, Works, Records, Working
<1>3. /\ guess' \in [Guesses -> Records] /\ checks' \in Seq(Guesses)
      /\ \A h \in Guesses : guess'[h].st \notin Working
  BY <1>1, <1>2, EndsQuiet DEF Working
<1>4. ThrottleShape' /\ ClockShape'
  BY <1>1, <1>3 DEF WaitInv, ThrottleShape, ClockShape, Records
<1>5. stored'.failures + uncounted' = failed'
  <2>1. stored.failures + uncounted + 1 = failed /\ stored'.failures = stored.failures + 1
    BY <1>1 DEF WaitInv, Counts, OneMore
  <2>2. stored.failures \in Nat /\ uncounted \in Nat
    BY DEF WaitInv, ThrottleShape, ClockShape, Throttles
  <2> QED BY <1>1, <2>1, <2>2
<1>6. StoredWaits'
  BY <1>1 DEF WaitInv, InTime, FailureWaits, StoredWaits, Waits, Delay
<1> QED BY <1>3, <1>4, <1>5, <1>6, QuietInv

\* The right password: the throttle is cleared, or there was nothing to clear.
LEMMA RightInv ==
  ASSUME WaitInv, NEW g \in Guesses, OpensRight(g)
  PROVE  WaitInv'
<1>1. guess[g].st = "opening" /\ UNCHANGED <<stored, wall, sinceWrong, sinceCounted>>
  BY DEF OpensRight
<1>2. guess[g].throttle \in Throttles /\ guess[g].throttle.failures = stored.failures
  BY <1>1 DEF WaitInv, ThrottleShape, Records, Counts, ReadIsStored
<1>3. CASE guess[g].throttle.failures > 0
  <2> DEFINE rec == Works("clearing", guess[g].throttle)
  <2>1. guess' = [guess EXCEPT ![g] = rec] /\ UNCHANGED <<checks, failed, uncounted>>
    BY <1>3 DEF OpensRight
  <2>2. rec \in Records /\ rec.st = "clearing" /\ rec.throttle = guess[g].throttle
    BY <1>2 DEF Works, Records
  <2> HIDE DEF rec
  <2>3. /\ guess' \in [Guesses -> Records] /\ guess'[g] = rec
        /\ \A h \in Guesses : h # g => guess'[h] = guess[h]
    BY <2>1, <2>2, Changed DEF WaitInv
  <2>4. /\ \A h \in Guesses : h # g => guess[h].st \notin Working
        /\ checks # <<>> /\ Head(checks) = g
    BY <1>1, OneWorks DEF WaitInv, FirstWorks, Working
  <2>5. stored.failures + uncounted = failed
    BY <1>1, <2>4 DEF WaitInv, Counts, AllCounted, Working
  <2>6. ThrottleShape' /\ ClockShape'
    BY <1>1, <2>1, <2>3 DEF WaitInv, ThrottleShape, ClockShape
  <2>7. StoredWaits'
    BY <1>1 DEF WaitInv, InTime, StoredWaits, Waits, Delay
  <2> QED BY <1>1, <1>2, <2>1, <2>2, <2>3, <2>4, <2>5, <2>6, <2>7, OneInv DEF Working
<1>4. CASE ~ (guess[g].throttle.failures > 0)
  <2>1. CheckEnds(g, CheckEnded("opened")) /\ failed' = 0 /\ uncounted' = 0
    BY <1>4 DEF OpensRight
  <2>2. CheckEnded("opened") \in Records /\ CheckEnded("opened").st \notin Working
    BY EmptyType DEF CheckEnded, Works, Records, Working
  <2>3. /\ guess' \in [Guesses -> Records] /\ checks' \in Seq(Guesses)
        /\ \A h \in Guesses : guess'[h].st \notin Working
    BY <1>1, <2>1, <2>2, EndsQuiet DEF Working
  <2>4. ThrottleShape' /\ ClockShape'
    BY <1>1, <2>1, <2>3 DEF WaitInv, ThrottleShape, ClockShape
  <2>5. stored'.failures + uncounted' = failed'
    BY <1>1, <1>2, <1>4, <2>1 DEF Throttles
  <2>6. StoredWaits'
    BY <1>1 DEF WaitInv, InTime, StoredWaits, Waits, Delay
  <2> QED BY <2>3, <2>4, <2>5, <2>6, QuietInv
<1> QED BY <1>3, <1>4

LEMMA ClearsInv ==
  ASSUME WaitInv, NEW g \in Guesses, ClearsThrottle(g)
  PROVE  WaitInv'
<1>1. /\ guess[g].st = "clearing" /\ stored' = EmptyThrottle
      /\ CheckEnds(g, CheckEnded("opened")) /\ failed' = 0 /\ uncounted' = 0
      /\ UNCHANGED <<wall, sinceWrong, sinceCounted>>
  BY DEF ClearsThrottle
<1>2. CheckEnded("opened") \in Records /\ CheckEnded("opened").st \notin Working
  BY EmptyType DEF CheckEnded, Works, Records, Working
<1>3. /\ guess' \in [Guesses -> Records] /\ checks' \in Seq(Guesses)
      /\ \A h \in Guesses : guess'[h].st \notin Working
  BY <1>1, <1>2, EndsQuiet DEF Working
<1>4. ThrottleShape' /\ ClockShape'
  BY <1>1, <1>3, EmptyType DEF WaitInv, ThrottleShape, ClockShape
<1>5. stored'.failures + uncounted' = failed'
  BY <1>1, EmptyType
<1>6. Delay(stored.failures)' = 0
  BY <1>1, EmptyType, ScheduleAssumption DEF Delay
<1> QED BY <1>3, <1>4, <1>5, <1>6, QuietInv DEF StoredWaits, Waits

\* The worker stops: a wrong password whose failure it did not store is not
\* counted, and the queue is gone.
LEMMA CutInv ==
  ASSUME WaitInv, CheckIsCut
  PROVE  WaitInv'
<1>1. /\ checks # <<>> /\ checks' = <<>>
      /\ UNCHANGED <<stored, wall, failed, sinceWrong, sinceCounted>>
      /\ uncounted' = IF guess[Head(checks)].st = "failing" THEN uncounted + 1 ELSE uncounted
  BY DEF CheckIsCut
<1>2. CheckEnded("lost") \in Records /\ CheckEnded("lost").st \notin Working
  BY EmptyType DEF CheckEnded, Works, Records, Working
<1>3. /\ guess' \in [Guesses -> Records]
      /\ \A h \in Guesses : guess'[h].st \notin Working
  BY <1>2 DEF CheckIsCut, WaitInv, ThrottleShape, Working
<1>4. ThrottleShape' /\ ClockShape'
  BY <1>1, <1>3, EmptySeq DEF WaitInv, ThrottleShape, ClockShape
<1>5. Head(checks) \in Guesses
  BY <1>1, HeadTailProperties DEF WaitInv, ThrottleShape
<1>6. stored'.failures + uncounted' = failed'
  <2>1. stored.failures \in Nat /\ uncounted \in Nat
    BY DEF WaitInv, ThrottleShape, ClockShape, Throttles
  <2>2. CASE guess[Head(checks)].st = "failing"
    <3>1. stored.failures + uncounted + 1 = failed
      BY <1>5, <2>2 DEF WaitInv, Counts, OneMore
    <3> QED BY <1>1, <2>1, <2>2, <3>1
  <2>3. CASE guess[Head(checks)].st # "failing"
    <3>1. \A h \in Guesses : guess[h].st # "failing"
      BY <2>3 DEF WaitInv, FirstWorks, Working
    <3> QED BY <1>1, <2>3, <3>1 DEF WaitInv, Counts, AllCounted
  <2> QED BY <2>2, <2>3
<1>7. StoredWaits'
  BY <1>1 DEF WaitInv, InTime, StoredWaits, Waits, Delay
<1> QED BY <1>3, <1>4, <1>6, <1>7, QuietInv

\* A wait is over no sooner when time passes or the clock is set back.
LEMMA WaitsOn ==
  ASSUME NEW throttle \in Throttles, NEW since \in 0 .. MaxDelay, NEW later \in 0 .. MaxDelay,
         wall \in Nat, Waits(throttle, since),
         \/ wall' \in Nat /\ wall' < wall /\ later = since
         \/ wall' = wall + 1 /\ later = Lesser(since + 1, MaxDelay)
  PROVE  \/ Delay(throttle.failures) = 0
         \/ later = MaxDelay
         \/ throttle.retryAt + later >= wall' + Delay(throttle.failures)
<1>1. throttle.retryAt \in Nat /\ Delay(throttle.failures) \in Nat
  BY DelayBound, ScheduleAssumption DEF Throttles
<1> QED BY <1>1, ScheduleAssumption DEF Waits, Lesser

LEMMA TimeInv ==
  ASSUME WaitInv, TimePasses \/ ClockSetBack
  PROVE  WaitInv'
<1>1. /\ UNCHANGED <<stored, guess, checks, failed, uncounted>>
      /\ wall' \in Nat
      /\ \/ wall' < wall /\ UNCHANGED <<sinceWrong, sinceCounted>>
         \/ /\ wall' = wall + 1
            /\ sinceWrong' = Lesser(sinceWrong + 1, MaxDelay)
            /\ sinceCounted' = Lesser(sinceCounted + 1, MaxDelay)
  BY DEF TimePasses, ClockSetBack, WaitInv, ThrottleShape
<1>2. ThrottleShape' /\ ClockShape'
  BY <1>1, ScheduleAssumption DEF WaitInv, ThrottleShape, ClockShape, Lesser
<1>3. FirstWorks' /\ Counts'
  BY <1>1 DEF WaitInv, FirstWorks, Counts, ReadIsStored, AllCounted, OneMore
<1>4. StoredWaits'
  BY <1>1, <1>2, WaitsOn DEF WaitInv, InTime, StoredWaits, Waits, Delay, ThrottleShape, ClockShape
<1>5. FailureWaits'
  BY <1>1, <1>2, WaitsOn
     DEF WaitInv, InTime, FailureWaits, Waits, Delay, ThrottleShape, ClockShape, Records
<1>6. TriedInTime'
  <2>1. sinceCounted' >= sinceCounted \/ sinceCounted' = MaxDelay
    BY <1>1, ScheduleAssumption DEF WaitInv, ClockShape, Lesser
  <2>2. Delay(stored.failures) \in 0 .. MaxDelay
    BY DelayBound DEF WaitInv, ThrottleShape, Throttles
  <2>3. sinceCounted \in Nat /\ sinceCounted' \in Nat
    BY <1>2, ScheduleAssumption DEF WaitInv, ClockShape
  <2>4. Delay(stored.failures)' = Delay(stored.failures)
    BY <1>1 DEF Delay
  <2> QED BY <1>1, <2>1, <2>2, <2>3, <2>4, ScheduleAssumption DEF WaitInv, InTime, TriedInTime
<1> QED BY <1>2, <1>3, <1>4, <1>5, <1>6 DEF WaitInv, InTime

LEMMA WaitKeeps == WaitInv /\ [ThrottleNext]_throttleVars => WaitInv'
<1> SUFFICES ASSUME WaitInv, [ThrottleNext]_throttleVars PROVE WaitInv'
  OBVIOUS
<1>1. CASE UNCHANGED throttleVars
  BY <1>1 DEF throttleVars, watched, WaitInv, ThrottleShape, ClockShape, FirstWorks, Counts, ReadIsStored,
              AllCounted, OneMore, InTime, StoredWaits, Waits, FailureWaits, TriedInTime, Delay
<1> QED
  BY <1>1, EntersInv, ReadsInv, WrongInv, RightInv, StoresInv, ClearsInv, CutInv, TimeInv
     DEF ThrottleNext

\* No password is tried before the wait of the wrong ones counted is over, for
\* any schedule, however many checks are sent at once, wherever the worker stops
\* and however often the clock is set back (session.ts openEnvelopeNow).
THEOREM Wait == ThrottleSpec => []GuessesWait
<1>1. WaitInv => GuessesWait
  <2> SUFFICES ASSUME WaitInv, NEW g \in Guesses, guess[g].st = "opening"
               PROVE  sinceCounted >= Delay(failed - uncounted)
    BY DEF GuessesWait
  <2>1. \A h \in Guesses : guess[h].st # "failing"
    BY OneWorks DEF Working
  <2>2. stored.failures + uncounted = failed
    BY <2>1 DEF WaitInv, Counts, AllCounted
  <2>3. failed - uncounted = stored.failures
    <3>1. stored.failures \in Nat /\ uncounted \in Nat /\ failed \in Nat
      BY DEF WaitInv, ThrottleShape, ClockShape, Throttles
    <3>. QED
      BY <2>2, <3>1
  <2> QED BY <2>3 DEF WaitInv, InTime, TriedInTime
<1> QED BY <1>1, WaitInitially, WaitKeeps, PTL DEF ThrottleSpec

\* The wall clock, the worker's ends and the clock's changes stay within their bounds.
WallBounds == wall \in 0 .. MaxWall /\ cuts \in 0 .. MaxCuts /\ shifts \in 0 .. MaxShifts

LEMMA WallStays == WallBounds /\ [ThrottleNext]_throttleVars => WallBounds'
<1> SUFFICES ASSUME WallBounds, [ThrottleNext]_throttleVars PROVE WallBounds'
  OBVIOUS
<1> USE WallAssumption DEF WallBounds
<1>1. CASE CheckIsCut
  BY <1>1 DEF CheckIsCut
<1>2. CASE TimePasses
  BY <1>2 DEF TimePasses
<1>3. CASE ClockSetBack
  BY <1>3 DEF ClockSetBack
<1>4. CASE UNCHANGED <<wall, cuts, shifts>>
  BY <1>4
<1> QED
  BY <1>1, <1>2, <1>3, <1>4 DEF ThrottleNext, Enters, ReadsThrottle, OpensWrong, OpensRight, StoresFailure,
                                ClearsThrottle, throttleVars

LEMMA ThrottleStarts == ThrottleInit => WaitInv /\ WallBounds
  BY WaitInitially, WallAssumption DEF ThrottleInit, WallBounds

\* What is stored, the checks and the clocks.
LEMMA ThrottleFits == WaitInv /\ WallBounds => ThrottleTypeOK
  BY DEF WaitInv, ThrottleShape, ClockShape, WallBounds, ThrottleTypeOK

-----------------------------------------------------------------------------
(* The prompt in the page *)

\* The frames in the page are that of the prompt the controller holds, which the page
\* waits for or was told of.
HeldInv ==
  /\ OverlayTypeOK
  /\ drawn = IF active = 0 THEN {} ELSE {active}
  /\ active # 0 => show[active] \in {"loading", "shown"}

\* teardown leaves no frame, whichever prompt it was called for.
LEMMA TeardownClears ==
  ASSUME HeldInv, Teardown
  PROVE  /\ active' = 0 /\ drawn' = {} /\ UNCHANGED <<toasts, toastTimer>>
         /\ toastTimers' \subseteq toastTimers
  BY DEF HeldInv, Teardown, shadow

LEMMA HeldStart == OverlayInit => HeldInv
  BY AskedAssumption DEF OverlayInit, HeldInv, OverlayTypeOK, Shows, Told

LEMMA HeldStep == HeldInv /\ [OverlayNext]_overlayVars => HeldInv'
<1> SUFFICES ASSUME HeldInv, [OverlayNext]_overlayVars PROVE HeldInv'
  OBVIOUS
<1> USE DEF HeldInv, OverlayTypeOK, shadow, Told
<1>0. 0 \notin Shows
  BY AskedAssumption DEF Shows
<1>1. ASSUME NEW p \in Shows, AskedToShow(p) PROVE HeldInv'
  BY <1>0, <1>1 DEF AskedToShow
<1>2. ASSUME NEW p \in Shows, Mounts(p) PROVE HeldInv'
  BY <1>0, <1>2 DEF Mounts
<1>3. ASSUME NEW p \in Shows, Loads(p) PROVE HeldInv'
  BY <1>0, <1>3 DEF Loads
<1>4. ASSUME NEW p \in Shows, GivesUp(p) PROVE HeldInv'
  BY <1>0, <1>4, TeardownClears DEF GivesUp
<1>5. ASSUME NEW p \in Shows, FrameRejected(p) PROVE HeldInv'
  BY <1>0, <1>5, TeardownClears DEF FrameRejected
<1>6. ASSUME NEW p \in Shows, FrameApproved(p) PROVE HeldInv'
  BY <1>0, <1>6 DEF FrameApproved
<1>7. ASSUME NEW p \in Shows, ToastTimesOut(p) \/ ToastIsClosed(p) PROVE HeldInv'
  BY <1>0, <1>7 DEF ToastTimesOut, ToastIsClosed
<1>8. CASE Dismissed
  BY <1>8, TeardownClears DEF Dismissed
<1>9. CASE PageGoes
  BY <1>0, <1>9 DEF PageGoes
<1>10. CASE UNCHANGED overlayVars
  BY <1>10 DEF overlayVars
<1> QED
  BY <1>1, <1>2, <1>3, <1>4, <1>5, <1>6, <1>7, <1>8, <1>9, <1>10 DEF OverlayNext

LEMMA HeldAlways == OverlaySpec => []HeldInv
  BY HeldStart, HeldStep, PTL DEF OverlaySpec

\* What the prompt, its frame and its toasts are (connect-overlay-view.ts).
THEOREM OverlayTypes == OverlaySpec => []OverlayTypeOK
  BY HeldAlways, PTL DEF HeldInv

\* A prompt the worker was told is not shown has no frame in the page.
THEOREM RefusedLeaves == OverlaySpec => []RefusedIsGone
<1>1. HeldInv => RefusedIsGone
  BY DEF HeldInv, RefusedIsGone
<1> QED
  BY <1>1, HeldAlways, PTL

-----------------------------------------------------------------------------
(* The Send screen *)

(***************************************************************************)
(* The argument: while `alone` holds, whatever is on its way to the confirm *)
(* screen or was put there is for the form's target, and no new price is on *)
(* its way beside a review.  A form that changes meanwhile ends `alone`;    *)
(* on the confirm screen it cannot change.                                  *)
(***************************************************************************)
PricesShape == prices \in [1 .. MaxPrices -> Targets \cup {Nowhere}] /\ reviewed \in Targets \cup {Nowhere}
PlansShape == {plan, form} \subseteq Targets \cup {Nowhere} /\ asking \subseteq Targets \cup {Nowhere}
AskedForForm == alone => \A p \in asking : p = form
ScreenIsForm == alone /\ phase = "confirm" => pending = form /\ reviewed = form
OneOrTheOther == alone /\ asking # {} => prices = NoPrices
PricedForForm ==
  alone /\ phase = "confirm" => \A n \in 1 .. MaxPrices : prices[n] \in {Nowhere, form}
SignedForForm == \A signature \in signing \cup sent :
  signature.alone => signature.pays = signature.shown
SendInv == /\ PricesShape /\ PlansShape /\ AskedForForm /\ ScreenIsForm /\ OneOrTheOther
       /\ PricedForForm /\ SignedForForm

LEMMA SendInitially == SendInit => SendInv
  BY DEF SendInit, NoPrices, SendInv, PricesShape, PlansShape, AskedForForm, ScreenIsForm, OneOrTheOther,
         PricedForForm, SignedForForm

\* Every action keeps it, the form's and the answers' in whatever order.
LEMMA SendNextKeeps == SendInv /\ [SendNext]_sendVars => SendInv'
<1> SUFFICES ASSUME SendInv, [SendNext]_sendVars PROVE SendInv'
  OBVIOUS
<1> USE DEF SendInv, PricesShape, PlansShape, AskedForForm, ScreenIsForm, OneOrTheOther, PricedForForm,
            SignedForForm, forms, waits, result
<1>1. CASE EditsForm
  BY <1>1 DEF EditsForm
<1>2. CASE PlanSettles
  BY <1>2 DEF PlanSettles
<1>3. CASE Review
  BY <1>3 DEF Review, CanReview
<1>4. ASSUME NEW p \in asking, ReviewBuilt(p) PROVE SendInv'
  BY <1>4 DEF ReviewBuilt, NoPrices
<1>5. ASSUME NEW p \in asking, ReviewFails(p) PROVE SendInv'
  BY <1>5 DEF ReviewFails
<1>6. ASSUME NEW n \in 1 .. MaxPrices, Reprice(n) PROVE SendInv'
  BY <1>6 DEF Reprice
<1>7. ASSUME NEW n \in 1 .. MaxPrices, Repriced(n) PROVE SendInv'
  <2>1. prices[n] # Nowhere /\ prices' = [prices EXCEPT ![n] = Nowhere]
    BY <1>7 DEF Repriced
  <2>2. ~ (alone /\ asking # {})
    BY <2>1 DEF NoPrices
  <2> QED BY <1>7, <2>1, <2>2 DEF Repriced
<1>8. CASE Back
  BY <1>8 DEF Back
<1>9. CASE Sign
  BY <1>9 DEF Sign
<1>10. CASE Leaves
  BY <1>10 DEF Leaves, NoPrices
<1>11. ASSUME NEW s \in signing, Broadcast(s) PROVE SendInv'
  BY <1>11 DEF Broadcast
<1>12. ASSUME NEW s \in signing, SignFails(s) PROVE SendInv'
  BY <1>12 DEF SignFails
<1>13. CASE UNCHANGED sendVars
  BY <1>13 DEF sendVars
<1> QED
  BY <1>1, <1>2, <1>3, <1>4, <1>5, <1>6, <1>7, <1>8, <1>9, <1>10, <1>11, <1>12, <1>13 DEF SendNext

\* The messages broadcast pay the address the confirm screen named, if the form
\* was left alone while the review was prepared and no other answer was on its
\* way (SendScreen.tsx review, reprice, confirmAndBroadcast).
THEOREM LeftAlone == SendSpec => []ShownWhenLeftAlone
<1>1. SendInv => ShownWhenLeftAlone
  BY DEF SendInv, SignedForForm, ShownWhenLeftAlone
<1> QED BY <1>1, SendInitially, SendNextKeeps, PTL DEF SendSpec

\* The confirm screen's messages pay an address.
ConfirmNames == phase = "confirm" => pending \in Targets

LEMMA SendStarts == SendInit => SendTypeOK /\ ConfirmNames
  BY DEF SendInit, NoPrices, SendTypeOK, ConfirmNames

LEMMA SendStays == SendTypeOK /\ ConfirmNames /\ [SendNext]_sendVars => SendTypeOK' /\ ConfirmNames'
<1> SUFFICES ASSUME SendTypeOK, ConfirmNames, [SendNext]_sendVars PROVE SendTypeOK' /\ ConfirmNames'
  OBVIOUS
<1> USE DEF SendTypeOK, ConfirmNames, forms, waits, result
<1>1. CASE EditsForm
  BY <1>1 DEF EditsForm
<1>2. CASE PlanSettles
  BY <1>2 DEF PlanSettles
<1>3. CASE Review
  BY <1>3 DEF Review, CanReview
<1>4. ASSUME NEW p \in asking, ReviewBuilt(p) PROVE SendTypeOK' /\ ConfirmNames'
  BY <1>4 DEF ReviewBuilt
<1>5. ASSUME NEW p \in asking, ReviewFails(p) PROVE SendTypeOK' /\ ConfirmNames'
  BY <1>5 DEF ReviewFails
<1>6. ASSUME NEW n \in 1 .. MaxPrices, Reprice(n) PROVE SendTypeOK' /\ ConfirmNames'
  BY <1>6 DEF Reprice
<1>7. ASSUME NEW n \in 1 .. MaxPrices, Repriced(n) PROVE SendTypeOK' /\ ConfirmNames'
  BY <1>7 DEF Repriced
<1>8. CASE Back
  BY <1>8 DEF Back
<1>9. CASE Sign
  BY <1>9 DEF Sign, Signatures
<1>10. ASSUME NEW signature \in signing, Broadcast(signature) PROVE SendTypeOK' /\ ConfirmNames'
  BY <1>10 DEF Broadcast
<1>11. ASSUME NEW signature \in signing, SignFails(signature) PROVE SendTypeOK' /\ ConfirmNames'
  BY <1>11 DEF SignFails
<1>12. CASE Leaves
  BY <1>12 DEF Leaves, NoPrices
<1>13. CASE UNCHANGED sendVars
  BY <1>13 DEF sendVars
<1> QED
  BY <1>1, <1>2, <1>3, <1>4, <1>5, <1>6, <1>7, <1>8, <1>9, <1>10, <1>11, <1>12, <1>13 DEF SendNext

-----------------------------------------------------------------------------
(* The watch of the accounts *)

USE AccountsAssumption, RealtimeBoundsAssumption

Changes == [from : MaybeAccount, to : MaybeAccount]

-----------------------------------------------------------------------------
(* Types *)

\* A call, and one that has moved on.
LEMMA SyncLemma ==
  /\ SyncOnly \in Syncs /\ ReadOnly \in Syncs /\ SyncThenRead \in Syncs /\ AfterSwitch \in Syncs
  /\ \A s \in Syncs :
       /\ \A pc \in {"begins", "asks", "permits", "looks", "creates"} : [s EXCEPT !.pc = pc] \in Syncs
       /\ \A a \in MaybeAccount : [s EXCEPT !.pc = "opens", !.account = a] \in Syncs
  BY DEF Sync, SyncOnly, ReadOnly, SyncThenRead, AfterSwitch, Syncs, MaybeAccount

LEMMA NoteLemma ==
  ASSUME NEW n \in Notes, NEW read \in SUBSET AccountIds
  PROVE  /\ [n EXCEPT !.pc = "writes", !.read = read] \in Notes
         /\ [n EXCEPT !.pc = "arms", !.read = {}] \in Notes
  BY DEF Notes

LEMMA NowhereLemma ==
  Nobody \in [ChainIds -> MaybeAccount] /\ \A c \in ChainIds : Nobody[c] = NoAccount
  BY DEF Nobody, MaybeAccount

LEMMA WakesTypes ==
  ASSUME RealtimeTypeOK, NEW more \in SUBSET Syncs, Wakes(more)
  PROVE  up' \in BOOLEAN /\ syncs' \subseteq Syncs /\ up' /\ syncs \cup more \subseteq syncs'
  BY SyncLemma DEF RealtimeTypeOK, Wakes

LEMMA MovesTypes ==
  ASSUME RealtimeTypeOK, NEW s \in syncs,
         NEW pc \in {"begins", "asks", "permits", "looks", "creates"},
         Moves(s, pc) \/ Concludes(s)
  PROVE  syncs' \subseteq Syncs
  <1>1. s \in Syncs
    BY DEF RealtimeTypeOK
  <1>2. [s EXCEPT !.pc = pc] \in Syncs
    BY <1>1, SyncLemma
  <1> QED BY <1>2, SyncLemma DEF RealtimeTypeOK, Moves, Concludes

LEMMA AnsweredTypes ==
  ASSUME RealtimeTypeOK, NEW s \in syncs, NEW yes \in BOOLEAN, Answered(s, yes)
  PROVE  /\ syncs' \subseteq Syncs /\ reading' \subseteq AccountIds
         /\ {streams', bursts'} \subseteq [ChainIds -> MaybeAccount]
         /\ ticking' \in BOOLEAN /\ unheard' \in BOOLEAN /\ misled' \in BOOLEAN
  <1> USE DEF RealtimeTypeOK
  <1>1. s \in Syncs /\ activeAccount \in MaybeAccount
    OBVIOUS
  <1>2. unheard' \in BOOLEAN /\ misled' \in BOOLEAN
    BY DEF Answered, MayRead
  <1>3. CASE yes
    <2>1. [s EXCEPT !.pc = "opens", !.account = activeAccount] \in Syncs
      BY <1>1, SyncLemma
    <2>2. reading' \subseteq AccountIds
      BY <1>3 DEF Answered, Allowed, MaybeAccount
    <2>3. syncs' \subseteq Syncs
      BY <1>3, <2>1, SyncLemma DEF Answered, Allowed, Concludes
    <2> QED BY <1>2, <1>3, <2>2, <2>3 DEF Answered, Allowed
  <1>4. CASE ~yes
    <2>1. Concludes(s)
      BY <1>4 DEF Answered, Refused, StopsAll
    <2>2. syncs' \subseteq Syncs
      BY <2>1, SyncLemma DEF Concludes
    <2> QED BY <1>2, <1>4, <2>2, NowhereLemma DEF Answered, Refused, StopsAll
  <1> QED BY <1>3, <1>4

LEMMA RealtimeInitTypes == RealtimeInit => RealtimeTypeOK
  <1> SUFFICES ASSUME RealtimeInit PROVE RealtimeTypeOK
    OBVIOUS
  <1>1. sessionChanges \in Seq(Changes) /\ changeCount \in 0 .. MaxEvents
    BY DEF RealtimeInit
  <1>2. {ticking, up, liveBalances, settingsChanged, readsPermitted, unheard, misled} \subseteq BOOLEAN
    BY DEF RealtimeInit
  <1>3. {streams, bursts, rows} \subseteq [ChainIds -> MaybeAccount]
    BY NowhereLemma DEF RealtimeInit
  <1> QED BY <1>1, <1>2, <1>3 DEF RealtimeInit, RealtimeTypeOK, MaybeAccount, Changes

LEMMA ReactionTypes ==
  ASSUME RealtimeTypeOK,
         SessionChanges \/ SaveBegins \/ SettingWrites \/ PermissionFlips \/ ChangeIsHeard
         \/ SettingIsHeard \/ SwitchFollowsUp \/ SurfaceOpens \/ AlarmTicks
  PROVE  RealtimeTypeOK'
  <1> USE DEF MaybeAccount
  <1>1. CASE SessionChanges
    <2>1. PICK to \in MaybeAccount \ {activeAccount} :
            /\ activeAccount' = to
            /\ sessionChanges' = Append(sessionChanges, [from |-> activeAccount, to |-> to])
            /\ followUps' = IF activeAccount # NoAccount /\ to # NoAccount
                            THEN followUps \cup {to} ELSE followUps
            /\ up' = TRUE
            /\ syncs' = IF up THEN syncs ELSE {SyncOnly}
      BY <1>1 DEF SessionChanges
    <2>2. [from |-> activeAccount, to |-> to] \in Changes
      BY DEF Changes, RealtimeTypeOK
    <2>3. sessionChanges' \in Seq(Changes)
      BY <2>1, <2>2 DEF RealtimeTypeOK, Changes
    <2>4. changeCount' \in 0 .. MaxEvents
      BY <1>1 DEF SessionChanges, CountsIt, RealtimeTypeOK
    <2> QED BY <1>1, <2>1, <2>3, <2>4, SyncLemma
            DEF SessionChanges, RealtimeTypeOK, Changes, allowance
  <1>2. CASE SaveBegins
    <2>1. changeCount' \in 0 .. MaxEvents
      BY <1>2 DEF SaveBegins, CountsIt, RealtimeTypeOK
    <2>2. up' \in BOOLEAN /\ syncs' \subseteq Syncs
      BY <1>2, WakesTypes DEF SaveBegins
    <2> QED BY <1>2, <2>1, <2>2 DEF SaveBegins, RealtimeTypeOK
  <1>8. CASE SettingWrites
    BY <1>8 DEF SettingWrites, RealtimeTypeOK, disk, memory
  <1>9. CASE PermissionFlips
    <2>1. changeCount' \in 0 .. MaxEvents
      BY <1>9 DEF PermissionFlips, CountsIt, RealtimeTypeOK
    <2> QED BY <1>9, <2>1 DEF PermissionFlips, RealtimeTypeOK, memory
  <1>3. CASE ChangeIsHeard
    <2>1. sessionChanges' \in Seq(Changes)
      BY <1>3 DEF ChangeIsHeard, RealtimeTypeOK, Changes
    <2>2. \E more \in SUBSET Syncs : Wakes(more)
      BY <1>3, SyncLemma DEF ChangeIsHeard
    <2>3. up' \in BOOLEAN /\ syncs' \subseteq Syncs
      BY <2>2, WakesTypes
    <2>5. {streams', bursts', rows'} \subseteq [ChainIds -> MaybeAccount]
      BY <1>3, NowhereLemma DEF ChangeIsHeard, Renewed, RealtimeTypeOK
    <2> QED BY <1>3, <2>1, <2>3, <2>5
            DEF ChangeIsHeard, RealtimeTypeOK, Changes, allowance
  <1>4. CASE SettingIsHeard
    BY <1>4, WakesTypes, SyncLemma DEF SettingIsHeard, RealtimeTypeOK, disk
  <1>5. CASE SwitchFollowsUp
    BY <1>5, WakesTypes, SyncLemma, NowhereLemma
    DEF SwitchFollowsUp, RealtimeTypeOK, Renewed, disk, allowance
  <1>6. CASE SurfaceOpens
    BY <1>6, WakesTypes, SyncLemma DEF SurfaceOpens, RealtimeTypeOK, disk, allowance
  <1>7. CASE AlarmTicks
    BY <1>7, WakesTypes, SyncLemma DEF AlarmTicks, RealtimeTypeOK, disk, allowance
  <1> QED BY <1>1, <1>2, <1>3, <1>4, <1>5, <1>6, <1>7, <1>8, <1>9

LEMMA SyncTypes ==
  ASSUME RealtimeTypeOK, NEW s \in syncs,
         Clears(s) \/ Begins(s) \/ AsksCache(s) \/ AsksSetting(s) \/ AsksPermission(s)
         \/ OpensStreams(s) \/ Looks(s) \/ Creates(s)
  PROVE  RealtimeTypeOK'
  <1> USE DEF RealtimeTypeOK
  <1>1. CASE Clears(s)
    BY <1>1, MovesTypes DEF Clears, allowance
  <1>2. CASE Begins(s)
    <2>1. syncs' \subseteq Syncs
      BY <1>2, MovesTypes DEF Begins, Refused, StopsAll
    <2> QED BY <1>2, <2>1, NowhereLemma DEF Begins, Refused, StopsAll, allowance
  <1>3. CASE \E yes \in BOOLEAN : Answered(s, yes) /\ readsCache' \in {"none", "yes", "no"}
    BY <1>3, AnsweredTypes DEF Answered
  <1>4. CASE OpensStreams(s)
    <2>1. s.account \in MaybeAccount
      BY DEF Syncs
    <2>2. streams' \in [ChainIds -> MaybeAccount]
      BY <1>4, <2>1 DEF OpensStreams, Reconciled, MaybeAccount
    <2> QED BY <1>4, <2>2, MovesTypes DEF OpensStreams, disk, allowance
  <1>5. CASE Looks(s)
    BY <1>5, MovesTypes DEF Looks, disk, allowance
  <1>6. CASE Creates(s)
    BY <1>6, MovesTypes DEF Creates, allowance
  <1>7. CASE AsksSetting(s) /\ liveBalances
    BY <1>7, MovesTypes DEF AsksSetting, disk, allowance
  <1>8. CASE AsksCache(s) \/ (AsksSetting(s) /\ ~liveBalances) \/ AsksPermission(s)
    <2>1. \E yes \in BOOLEAN : Answered(s, yes)
      BY <1>8 DEF AsksCache, AsksSetting, AsksPermission
    <2>2. readsCache' \in {"none", "yes", "no"}
      BY <1>8 DEF AsksCache, AsksSetting, AsksPermission
    <2> QED BY <1>3, <2>1, <2>2
  <1> QED BY <1>1, <1>2, <1>4, <1>5, <1>6, <1>7, <1>8

LEMMA ChainTypes ==
  ASSUME RealtimeTypeOK, NEW c \in ChainIds, ChainEvent(c) \/ BurstEnds(c)
  PROVE  RealtimeTypeOK'
  <1> USE DEF RealtimeTypeOK
  <1>1. CASE ChainEvent(c)
    <2>1. PICK pc \in {"reads", "arms"} :
            noting' = noting \cup {[pc |-> pc, chain |-> c, account |-> streams[c], read |-> {}]}
      BY <1>1 DEF ChainEvent
    <2>2. streams[c] \in AccountIds
      BY <1>1 DEF ChainEvent, MaybeAccount
    <2>3. noting' \subseteq Notes
      BY <2>1, <2>2 DEF Notes
    <2>4. changeCount' \in 0 .. MaxEvents
      BY <1>1 DEF ChainEvent, CountsIt
    <2> QED BY <1>1, <2>3, <2>4 DEF ChainEvent, allowance
  <1>2. CASE BurstEnds(c)
    BY <1>2 DEF BurstEnds, MaybeAccount, disk, allowance
  <1> QED BY <1>1, <1>2

LEMMA NoteTypes ==
  ASSUME RealtimeTypeOK, NEW n \in noting, ArrivalReads(n) \/ ArrivalWrites(n) \/ BurstBegins(n)
  PROVE  RealtimeTypeOK'
  <1> USE DEF RealtimeTypeOK
  <1>1. n \in Notes /\ n.account \in AccountIds /\ n.read \subseteq AccountIds /\ n.chain \in ChainIds
    BY DEF Notes
  <1>2. CASE ArrivalReads(n)
    BY <1>1, <1>2, NoteLemma DEF ArrivalReads, disk, allowance
  <1>3. CASE ArrivalWrites(n)
    BY <1>1, <1>3, NoteLemma DEF ArrivalWrites, allowance
  <1>4. CASE BurstBegins(n)
    BY <1>1, <1>4 DEF BurstBegins, MaybeAccount, disk, allowance
  <1> QED BY <1>2, <1>3, <1>4

LEMMA OtherTypes ==
  ASSUME RealtimeTypeOK,
         (\E a \in AccountIds : BalancesArrive(a)) \/ RealtimeWorkerStops
         \/ UNCHANGED realtimeVars
  PROVE  RealtimeTypeOK'
  <1> USE DEF RealtimeTypeOK
  <1>1. ASSUME NEW a \in AccountIds, BalancesArrive(a) PROVE RealtimeTypeOK'
    <2>1. PICK read \in SUBSET ChainIds :
            rows' = [c \in ChainIds |-> IF c \in read THEN a ELSE rows[c]]
      BY <1>1 DEF BalancesArrive
    <2>2. rows' \in [ChainIds -> MaybeAccount]
      BY <2>1 DEF MaybeAccount
    <2> QED BY <1>1, <2>2 DEF BalancesArrive, disk, allowance
  <1>2. CASE RealtimeWorkerStops
    BY <1>2, NowhereLemma DEF RealtimeWorkerStops, disk
  <1>3. CASE UNCHANGED realtimeVars
    BY <1>3 DEF realtimeVars, disk, memory, allowance
  <1> QED BY <1>1, <1>2, <1>3

LEMMA RealtimeNextTypes == RealtimeTypeOK /\ [RealtimeNext]_realtimeVars => RealtimeTypeOK'
  BY ReactionTypes, SyncTypes, ChainTypes, NoteTypes, OtherTypes DEF RealtimeNext

\* What the worker, the browser and storage hold has its types.
THEOREM RealtimeTypesHold == RealtimeSpec => []RealtimeTypeOK
  BY RealtimeInitTypes, RealtimeNextTypes, PTL DEF RealtimeSpec

-----------------------------------------------------------------------------
(* Open streams have an alarm *)

LEMMA MovedIsThere ==
  ASSUME RealtimeTypeOK, NEW s \in syncs, NEW pc, Moves(s, pc)
  PROVE  \E o \in syncs' : o.pc = pc
  <1>1. s \in Syncs
    BY DEF RealtimeTypeOK
  <1>2. [s EXCEPT !.pc = pc].pc = pc
    BY <1>1 DEF Syncs
  <1> QED BY <1>2 DEF Moves

Watching == \E c \in ChainIds : streams[c] # NoAccount
StoppedHoldsNothing == ~up => syncs = {} /\ ~Watching

LEMMA ReactionsStayTicked ==
  ASSUME RealtimeTypeOK, StreamsAreTicked, StoppedHoldsNothing,
         SessionChanges \/ SaveBegins \/ SettingWrites \/ PermissionFlips \/ ChangeIsHeard
         \/ SettingIsHeard \/ SwitchFollowsUp \/ SurfaceOpens \/ AlarmTicks
  PROVE  StreamsAreTicked' /\ StoppedHoldsNothing'
  <1>1. ticking' = ticking
    BY DEF SessionChanges, SaveBegins, SettingWrites, PermissionFlips, ChangeIsHeard, SettingIsHeard,
           SwitchFollowsUp, SurfaceOpens, AlarmTicks, disk
  <1>2. streams' = streams \/ streams' = Nobody
    BY DEF SessionChanges, SaveBegins, SettingWrites, PermissionFlips, ChangeIsHeard, SettingIsHeard,
           SwitchFollowsUp, SurfaceOpens, AlarmTicks, memory
  <1>3. Watching' => Watching
    BY <1>2, NowhereLemma DEF Watching
  <1>4. syncs \subseteq syncs' \/ ~up
    BY DEF SessionChanges, SaveBegins, SettingWrites, PermissionFlips, ChangeIsHeard, SettingIsHeard,
           SwitchFollowsUp, SurfaceOpens, AlarmTicks, Wakes, memory
  <1>5. up' \/ (up' = up /\ syncs' = syncs)
    BY DEF SessionChanges, SaveBegins, SettingWrites, PermissionFlips, ChangeIsHeard, SettingIsHeard,
           SwitchFollowsUp, SurfaceOpens, AlarmTicks, Wakes, memory
  <1>6. StreamsAreTicked'
    BY <1>1, <1>3, <1>4 DEF StreamsAreTicked, StoppedHoldsNothing, Watching
  <1>7. StoppedHoldsNothing'
    BY <1>3, <1>5 DEF StoppedHoldsNothing
  <1> QED BY <1>6, <1>7

LEMMA SyncsStayTicked ==
  ASSUME RealtimeTypeOK, StreamsAreTicked, StoppedHoldsNothing, NEW s \in syncs,
         Clears(s) \/ Begins(s) \/ AsksCache(s) \/ AsksSetting(s) \/ AsksPermission(s)
         \/ OpensStreams(s) \/ Looks(s) \/ Creates(s)
  PROVE  StreamsAreTicked' /\ StoppedHoldsNothing'
  <1>1. StoppedHoldsNothing'
    <2>1. up
      BY DEF StoppedHoldsNothing
    <2>2. up' = up
      BY DEF Clears, Begins, AsksCache, AsksSetting, AsksPermission, Answered, OpensStreams,
             Looks, Creates, disk
    <2> QED BY <2>1, <2>2 DEF StoppedHoldsNothing
  <1>2. CASE StopsAll(s)
    BY <1>1, <1>2, NowhereLemma DEF StopsAll, StreamsAreTicked
  <1>3. CASE /\ ~StopsAll(s)
             /\ Clears(s) \/ Begins(s) \/ AsksCache(s) \/ AsksSetting(s) \/ AsksPermission(s)
    <2>1. s.pc \in {"clears", "begins", "asks", "permits"}
      BY <1>3 DEF Clears, Begins, AsksCache, AsksSetting, AsksPermission
    <2>2. streams' = streams /\ ticking' = ticking
      BY <1>3 DEF Clears, Begins, AsksCache, AsksSetting, AsksPermission, Answered, Allowed,
                  Refused, disk
    <2>3. \A o \in syncs : o # s => o \in syncs'
      BY <1>3 DEF Clears, Begins, AsksCache, AsksSetting, AsksPermission, Answered, Allowed,
                  Refused, Moves, Concludes
    <2> QED BY <1>1, <2>1, <2>2, <2>3 DEF StreamsAreTicked
  <1>4. CASE OpensStreams(s)
    BY <1>1, <1>4, MovedIsThere DEF OpensStreams, StreamsAreTicked
  <1>5. CASE Looks(s)
    <2>1. streams' = streams /\ ticking' = ticking
      BY <1>5 DEF Looks, disk
    <2>2. ticking \/ \E o \in syncs' : o.pc = "creates"
      BY <1>5, MovedIsThere DEF Looks
    <2> QED BY <1>1, <2>1, <2>2 DEF StreamsAreTicked
  <1>6. CASE Creates(s)
    BY <1>1, <1>6 DEF Creates, StreamsAreTicked
  <1> QED BY <1>1, <1>2, <1>3, <1>4, <1>5, <1>6

LEMMA OthersStayTicked ==
  ASSUME StreamsAreTicked, StoppedHoldsNothing,
         \/ \E c \in ChainIds : ChainEvent(c) \/ BurstEnds(c)
         \/ \E n \in noting : ArrivalReads(n) \/ ArrivalWrites(n) \/ BurstBegins(n)
         \/ \E a \in AccountIds : BalancesArrive(a)
         \/ RealtimeWorkerStops
         \/ UNCHANGED realtimeVars
  PROVE  StreamsAreTicked' /\ StoppedHoldsNothing'
  <1>1. CASE RealtimeWorkerStops
    BY <1>1, NowhereLemma DEF RealtimeWorkerStops, StreamsAreTicked, StoppedHoldsNothing, Watching
  <1>2. CASE ~RealtimeWorkerStops
    <2>1. UNCHANGED <<streams, ticking, syncs, up>>
      BY <1>2 DEF ChainEvent, BurstEnds, ArrivalReads, ArrivalWrites, BurstBegins,
                  BalancesArrive, realtimeVars, disk, memory
    <2> QED BY <2>1 DEF StreamsAreTicked, StoppedHoldsNothing, Watching
  <1> QED BY <1>1, <1>2

\* A stream that is open has an alarm that looks at it again, or is about to.
THEOREM StreamsAreTickedHolds == RealtimeSpec => []StreamsAreTicked
  <1> DEFINE Inv == StreamsAreTicked /\ StoppedHoldsNothing
  <1>1. RealtimeInit => Inv
    BY NowhereLemma DEF RealtimeInit, StreamsAreTicked, StoppedHoldsNothing, Watching
  <1>2. RealtimeTypeOK /\ Inv /\ [RealtimeNext]_realtimeVars => Inv'
    BY ReactionsStayTicked, SyncsStayTicked, OthersStayTicked DEF RealtimeNext
  <1>3. Inv => StreamsAreTicked
    OBVIOUS
  <1> QED BY <1>1, <1>2, <1>3, RealtimeTypesHold, PTL DEF RealtimeSpec

-----------------------------------------------------------------------------
(* An unlocked wallet is polled *)

\* The last change on its way to the worker is to the account that is active.
LastChangeIsNow == sessionChanges # <<>> => sessionChanges[Len(sessionChanges)].to = activeAccount

\* What will see to it that an unlocked wallet is polled, when nothing does yet.
SyncUnderWay == \E s \in syncs : s.kind # "read"
PolledOrSeenTo ==
  up /\ activeAccount # NoAccount /\ MayRead
    => ticking \/ unheard \/ misled \/ sessionChanges # <<>> \/ settingsChanged \/ SyncUnderWay

LEMMA KindLemma ==
  SyncOnly.kind # "read" /\ SyncThenRead.kind # "read" /\ AfterSwitch.kind # "read"
  BY DEF SyncOnly, SyncThenRead, AfterSwitch, Sync

LEMMA MovesOn ==
  ASSUME RealtimeTypeOK, NEW s \in syncs, s.kind # "read", NEW pc, NEW account,
         [s EXCEPT !.pc = pc] \in syncs' \/ [s EXCEPT !.pc = pc, !.account = account] \in syncs'
  PROVE  SyncUnderWay'
  <1>1. s \in Syncs
    BY DEF RealtimeTypeOK
  <1>2. [s EXCEPT !.pc = pc].kind = s.kind /\ [s EXCEPT !.pc = pc, !.account = account].kind = s.kind
    BY <1>1 DEF Syncs
  <1> QED BY <1>2 DEF SyncUnderWay

LEMMA WakesSyncs ==
  ASSUME NEW more, Wakes(more)
  PROVE  up' /\ syncs \subseteq syncs' /\ more \subseteq syncs'
  BY DEF Wakes

LEMMA LastChangeStays ==
  ASSUME RealtimeTypeOK, LastChangeIsNow, [RealtimeNext]_realtimeVars
  PROVE  LastChangeIsNow'
  <1>0. sessionChanges \in Seq(Changes)
    BY DEF RealtimeTypeOK, Changes
  <1>1. CASE SessionChanges
    <2>1. PICK to \in MaybeAccount \ {activeAccount} :
            activeAccount' = to /\ sessionChanges' = Append(sessionChanges, [from |-> activeAccount, to |-> to])
      BY <1>1 DEF SessionChanges
    <2> DEFINE change == [from |-> activeAccount, to |-> to]
    <2>2. change \in Changes /\ change.to = to
      BY DEF Changes, RealtimeTypeOK
    <2> HIDE DEF change
    <2>3. sessionChanges' = Append(sessionChanges, change)
      BY <2>1 DEF change
    <2>4. sessionChanges'[Len(sessionChanges')] = change
      BY <1>0, <2>2, <2>3, AppendProperties
    <2> QED BY <2>1, <2>2, <2>4 DEF LastChangeIsNow
  <1>2. CASE ChangeIsHeard
    <2>1. sessionChanges # <<>> /\ sessionChanges' = Tail(sessionChanges) /\ activeAccount' = activeAccount
      BY <1>2 DEF ChangeIsHeard
    <2>2. sessionChanges' # <<>> => sessionChanges'[Len(sessionChanges')] = sessionChanges[Len(sessionChanges)]
      BY <1>0, <2>1, HeadTailProperties, EmptySeq
    <2> QED BY <2>1, <2>2 DEF LastChangeIsNow
  <1>3. CASE ~SessionChanges /\ ~ChangeIsHeard
    <2>1. UNCHANGED <<activeAccount, sessionChanges>>
      BY <1>3 DEF RealtimeNext, SaveBegins, SettingWrites, PermissionFlips, SettingIsHeard,
                  SwitchFollowsUp, SurfaceOpens, AlarmTicks, Clears, Begins, AsksCache, AsksSetting,
                  AsksPermission, Answered, OpensStreams, Looks, Creates, ChainEvent,
                  BurstEnds, ArrivalReads, ArrivalWrites, BurstBegins, BalancesArrive,
                  RealtimeWorkerStops, realtimeVars, disk, memory
    <2> QED BY <2>1 DEF LastChangeIsNow
  <1> QED BY <1>1, <1>2, <1>3

LEMMA ReactionsSeeToIt ==
  ASSUME RealtimeTypeOK, PolledOrSeenTo, LastChangeIsNow,
         SessionChanges \/ SaveBegins \/ SettingWrites \/ PermissionFlips \/ ChangeIsHeard
         \/ SettingIsHeard \/ SwitchFollowsUp \/ SurfaceOpens \/ AlarmTicks
  PROVE  PolledOrSeenTo'
  <1>0. sessionChanges \in Seq(Changes)
    BY DEF RealtimeTypeOK, Changes
  <1>1. CASE SessionChanges
    <2>1. PICK to \in MaybeAccount : sessionChanges' = Append(sessionChanges, [from |-> activeAccount, to |-> to])
      BY <1>1 DEF SessionChanges
    <2>2. [from |-> activeAccount, to |-> to] \in Changes
      BY DEF Changes, RealtimeTypeOK
    <2>3. sessionChanges' # <<>>
      BY <1>0, <2>1, <2>2
    <2> QED BY <2>3 DEF PolledOrSeenTo
  <1>2. CASE SaveBegins
    <2>1. UNCHANGED <<activeAccount, liveBalances, readsPermitted, ticking, unheard, misled, sessionChanges, settingsChanged>>
      BY <1>2 DEF SaveBegins
    <2>2. (up /\ syncs \subseteq syncs') \/ SyncOnly \in syncs'
      BY <1>2 DEF SaveBegins, Wakes
    <2> QED BY <2>1, <2>2, KindLemma DEF PolledOrSeenTo, MayRead, SyncUnderWay
  <1>5. CASE SettingWrites
    BY <1>5 DEF SettingWrites, PolledOrSeenTo, MayRead, SyncUnderWay, RealtimeTypeOK, disk, memory
  <1>6. CASE PermissionFlips
    BY <1>6 DEF PermissionFlips, PolledOrSeenTo, MayRead, RealtimeTypeOK
  <1>3. CASE ChangeIsHeard
    <2>1. sessionChanges # <<>> /\ sessionChanges' = Tail(sessionChanges) /\ activeAccount' = activeAccount
      BY <1>3 DEF ChangeIsHeard
    <2>2. CASE Head(sessionChanges).to = NoAccount
      <3>1. sessionChanges' = <<>> => Head(sessionChanges) = sessionChanges[Len(sessionChanges)]
        <4>1. Len(Tail(sessionChanges)) = Len(sessionChanges) - 1
          BY <1>0, <2>1, HeadTailProperties
        <4>2. Len(sessionChanges) \in Nat /\ Len(<<>>) = 0
          BY <1>0, EmptySeq
        <4>3. sessionChanges' = <<>> => Len(sessionChanges) = 1
          BY <2>1, <4>1, <4>2
        <4> QED BY <1>0, <2>1, <4>3
      <3>2. sessionChanges' = <<>> => activeAccount = NoAccount
        BY <2>1, <2>2, <3>1 DEF LastChangeIsNow
      <3> QED BY <2>1, <3>2 DEF PolledOrSeenTo
    <2>3. CASE Head(sessionChanges).to # NoAccount
      <3>1. Wakes({SyncOnly, ReadOnly}) \/ Wakes({AfterSwitch})
        BY <1>3, <2>3 DEF ChangeIsHeard
      <3>2. SyncUnderWay'
        BY <3>1, WakesSyncs, KindLemma DEF SyncUnderWay
      <3> QED BY <3>2 DEF PolledOrSeenTo
    <2> QED BY <2>2, <2>3
  <1>4. CASE SettingIsHeard \/ SwitchFollowsUp \/ SurfaceOpens \/ AlarmTicks
    <2>1. \/ Wakes({SyncOnly}) \/ Wakes({AfterSwitch})
          \/ Wakes({SyncOnly, ReadOnly}) \/ Wakes({SyncThenRead})
      BY <1>4 DEF SettingIsHeard, SwitchFollowsUp, SurfaceOpens, AlarmTicks
    <2>2. SyncUnderWay'
      BY <2>1, WakesSyncs, KindLemma DEF SyncUnderWay
    <2> QED BY <2>2 DEF PolledOrSeenTo
  <1> QED BY <1>1, <1>2, <1>3, <1>4, <1>5, <1>6

LEMMA SyncsSeeToIt ==
  ASSUME RealtimeTypeOK, PolledOrSeenTo, NEW s \in syncs,
         Clears(s) \/ Begins(s) \/ AsksCache(s) \/ AsksSetting(s) \/ AsksPermission(s)
         \/ OpensStreams(s) \/ Looks(s) \/ Creates(s)
  PROVE  PolledOrSeenTo'
  <1>1. UNCHANGED <<activeAccount, liveBalances, readsPermitted, up, sessionChanges, settingsChanged>>
    BY DEF Clears, Begins, AsksCache, AsksSetting, AsksPermission, Answered, OpensStreams,
           Looks, Creates, disk, allowance
  <1>2. CASE s.kind = "read" /\ ~OpensStreams(s) /\ ~Looks(s) /\ ~Creates(s)
    <2>1. UNCHANGED <<ticking, unheard, misled>>
      BY <1>2 DEF Clears, Begins, AsksCache, AsksSetting, AsksPermission, Answered, Allowed,
                  Refused, disk, allowance
    <2>2. \A o \in syncs : o # s => o \in syncs'
      BY <1>2 DEF Clears, Begins, AsksCache, AsksSetting, AsksPermission, Answered, Allowed,
                  Refused, Moves, Concludes
    <2> QED BY <1>1, <1>2, <2>1, <2>2 DEF PolledOrSeenTo, MayRead, SyncUnderWay
  <1>3. CASE SyncUnderWay' \/ ticking' \/ activeAccount = NoAccount \/ ~MayRead \/ misled'
    BY <1>1, <1>3 DEF PolledOrSeenTo, MayRead
  <1>4. CASE s.kind # "read" /\ \E pc : Moves(s, pc)
    BY <1>3, <1>4, MovesOn DEF Moves
  <1>5. CASE s.kind # "read" /\ \E yes \in BOOLEAN : Answered(s, yes)
    <2>1. PICK yes \in BOOLEAN : Answered(s, yes)
      BY <1>5
    <2>2. CASE yes
      <3>1. [s EXCEPT !.pc = "opens", !.account = activeAccount] \in syncs'
        BY <1>5, <2>1, <2>2 DEF Answered, Allowed
      <3> QED BY <1>3, <1>5, <3>1, MovesOn
    <2>3. CASE ~yes
      BY <1>3, <1>5, <2>1, <2>3 DEF Answered, MayRead
    <2> QED BY <2>2, <2>3
  <1>6. CASE Looks(s)
    <2>1. UNCHANGED <<ticking, unheard, misled>>
      BY <1>6 DEF Looks, disk, allowance
    <2>2. ticking \/ Moves(s, "creates")
      BY <1>6 DEF Looks
    <2>3. CASE s.kind # "read"
      BY <1>3, <1>4, <2>1, <2>2, <2>3
    <2>4. CASE s.kind = "read"
      <3>1. \A o \in syncs : o # s => o \in syncs'
        BY <1>6 DEF Looks, Moves, Concludes
      <3> QED BY <1>1, <2>1, <2>4, <3>1 DEF PolledOrSeenTo, MayRead, SyncUnderWay
    <2> QED BY <2>3, <2>4
  <1>7. CASE Creates(s)
    BY <1>3, <1>7 DEF Creates
  <1>8. CASE OpensStreams(s)
    <2>1. UNCHANGED <<ticking, unheard, misled>> /\ Moves(s, "looks")
      BY <1>8 DEF OpensStreams, disk, allowance
    <2>2. CASE s.kind # "read"
      BY <1>4, <2>1, <2>2
    <2>3. CASE s.kind = "read"
      <3>1. \A o \in syncs : o # s => o \in syncs'
        BY <2>1 DEF Moves
      <3> QED BY <1>1, <2>1, <2>3, <3>1 DEF PolledOrSeenTo, MayRead, SyncUnderWay
    <2> QED BY <2>2, <2>3
  <1>9. CASE s.kind # "read" /\ (Clears(s) \/ Begins(s))
    BY <1>3, <1>4, <1>9 DEF Clears, Begins
  <1>10. CASE s.kind # "read" /\ (AsksCache(s) \/ AsksSetting(s) \/ AsksPermission(s))
    <2>1. (\E pc : Moves(s, pc)) \/ \E yes \in BOOLEAN : Answered(s, yes)
      BY <1>10 DEF AsksCache, AsksSetting, AsksPermission, RealtimeTypeOK
    <2> QED BY <1>4, <1>5, <1>10, <2>1
  <1> QED BY <1>2, <1>6, <1>7, <1>8, <1>9, <1>10

\* At rest, an unlocked wallet that may read has the alarm that polls, unless no
\* sync has heard of the permission or a kept answer told the last one no.
THEOREM UnlockedIsPolledHolds == RealtimeSpec => []UnlockedIsPolled
  <1> DEFINE Inv == PolledOrSeenTo /\ LastChangeIsNow
  <1>1. RealtimeInit => Inv
    BY DEF RealtimeInit, PolledOrSeenTo, LastChangeIsNow
  <1>2. ASSUME RealtimeTypeOK, PolledOrSeenTo, LastChangeIsNow, [RealtimeNext]_realtimeVars
        PROVE  PolledOrSeenTo'
    <2>1. CASE \/ \E c \in ChainIds : ChainEvent(c) \/ BurstEnds(c)
               \/ \E n \in noting : ArrivalReads(n) \/ ArrivalWrites(n) \/ BurstBegins(n)
               \/ \E a \in AccountIds : BalancesArrive(a)
               \/ UNCHANGED realtimeVars
      <3>1. UNCHANGED <<activeAccount, ticking, sessionChanges, up, syncs, allowance>>
        BY <2>1 DEF ChainEvent, BurstEnds, ArrivalReads, ArrivalWrites, BurstBegins,
                    BalancesArrive, realtimeVars, disk, memory
      <3> QED BY <1>2, <3>1 DEF PolledOrSeenTo, MayRead, SyncUnderWay, allowance
    <2>2. CASE RealtimeWorkerStops
      BY <2>2 DEF RealtimeWorkerStops, PolledOrSeenTo
    <2> QED BY <1>2, <2>1, <2>2, ReactionsSeeToIt, SyncsSeeToIt DEF RealtimeNext
  <1>3. RealtimeTypeOK /\ Inv /\ [RealtimeNext]_realtimeVars => Inv'
    BY <1>2, LastChangeStays
  <1>4. Inv => UnlockedIsPolled
    BY DEF PolledOrSeenTo, SyncUnderWay, NothingToDo, UnlockedIsPolled
  <1> QED BY <1>1, <1>3, <1>4, RealtimeTypesHold, PTL DEF RealtimeSpec

-----------------------------------------------------------------------------
(* The parts together *)

(***************************************************************************)
(* The argument: whichever part runs, the others stutter, so each part's own *)
(* invariant is kept by its own lemma.                                       *)
(***************************************************************************)
SitesInv == /\ IInv /\ GateInv /\ WaitInv /\ WallBounds /\ HeldInv
            /\ SendTypeOK /\ ConfirmNames /\ RealtimeTypeOK

LEMMA SitesStart == SitesInit => SitesInv
  BY InitIInv, GateStarts, ThrottleStarts, HeldStart, SendStarts, RealtimeInitTypes DEF SitesInit, SitesInv

LEMMA SitesStay == SitesInv /\ [SitesNext]_<<part, allVars>> => SitesInv'
<1> SUFFICES ASSUME SitesInv, [SitesNext]_<<part, allVars>> PROVE SitesInv'
  OBVIOUS
<1>1. /\ [Next]_vars /\ [GateNext]_gateVars /\ [ThrottleNext]_throttleVars
      /\ [OverlayNext]_overlayVars /\ [SendNext]_sendVars /\ [RealtimeNext]_realtimeVars
  BY DEF SitesNext, NoMoreGuesses, allVars
<1>2. IInv' /\ GateInv'
  BY <1>1, StepIInv, GateStays DEF SitesInv
<1>3. WaitInv' /\ WallBounds' /\ HeldInv'
  BY <1>1, WaitKeeps, WallStays, HeldStep DEF SitesInv
<1>4. SendTypeOK' /\ ConfirmNames' /\ RealtimeTypeOK'
  BY <1>1, SendStays, RealtimeNextTypes DEF SitesInv
<1> QED
  BY <1>2, <1>3, <1>4 DEF SitesInv

\* The calls, the answer that is kept, the backoff, the prompt in the page, the Send
\* screen and the live balances have their types whichever of them runs.
THEOREM SitesTypes == SitesSpec => []SitesTypeOK
<1>1. SitesInv => SitesTypeOK
  BY GateFits, ThrottleFits DEF SitesInv, SitesTypeOK, IInv, HeldInv
<1> QED BY <1>1, SitesStart, SitesStay, PTL DEF SitesSpec
=============================================================================
