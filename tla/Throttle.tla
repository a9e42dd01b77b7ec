------------------------------ MODULE Throttle ------------------------------
(***************************************************************************)
(* The backoff for wrong passwords: the schedule of lib/password-throttle.ts *)
(* and the queue of password checks in lib/session.ts.  A check reads what   *)
(* is stored of earlier failures, opens the keyring, and stores its own; the *)
(* worker may stop between any two of these, and the clock it compares with  *)
(* is one the user can set back.                                            *)
(***************************************************************************)
EXTENDS Integers, Sequences

CONSTANTS MaxGuesses, \* bound: password checks, numbered as they are sent
          FreeAttempts, BaseDelay, MaxDelay, \* the schedule
          MaxWall,    \* bound: the wall clock
          MaxCuts,    \* bound: how often the worker stops
          MaxShifts   \* bound: how often the clock is set back

ASSUME ScheduleAssumption ==
  /\ FreeAttempts \in Nat \ {0} /\ BaseDelay \in Nat \ {0}
  /\ MaxDelay \in Nat /\ BaseDelay <= MaxDelay
ASSUME WallAssumption == MaxWall \in Nat \ {0} /\ MaxCuts \in Nat /\ MaxShifts \in Nat
ASSUME GuessesAssumption == MaxGuesses \in Nat

Guesses == 1 .. MaxGuesses

VARIABLES
  stored,     \* passwordThrottle in storage.local
  wall,       \* Date.now()
  guess,      \* each check: where it stands and the throttle it has read
  checks,     \* passwordQueue: the checks that wait for each other
  failed,     \* wrong passwords since the last right one, counted by an onlooker
  uncounted,  \* those of them whose check the worker's end cut off
  sinceWrong, \* time since the last wrong password, up to MaxDelay
  sinceCounted, \* time since the last one that was stored, up to MaxDelay
  cuts, shifts

watched == <<failed, uncounted, sinceWrong, sinceCounted>>
throttleVars == <<stored, wall, guess, checks, watched, cuts, shifts>>

EmptyThrottle == [failures |-> 0, retryAt |-> 0]
Lesser(a, b) == IF a <= b THEN a ELSE b

\* throttleDelayMs
Delay(failures) ==
  IF failures < FreeAttempts THEN 0
  ELSE LET doubled == BaseDelay * 2 ^ (failures - FreeAttempts)
       IN IF doubled \in 0 .. MaxDelay THEN doubled ELSE MaxDelay

\* recordFailure with an attempt more for free.
RecordFailureLate(throttle) ==
  LET delay == Delay(throttle.failures)
  IN [failures |-> throttle.failures + 1, retryAt |-> IF delay = 0 THEN 0 ELSE wall + delay]

\* recordFailure
RecordFailure(throttle) ==
  LET failures == throttle.failures + 1
      delay == Delay(failures)
  IN [failures |-> failures, retryAt |-> IF delay = 0 THEN 0 ELSE wall + delay]

\* readThrottleState: what is stored, as of now.
AsOfNow(throttle) ==
  [failures |-> throttle.failures,
   retryAt |-> IF throttle.retryAt > wall THEN Lesser(throttle.retryAt, wall + MaxDelay) ELSE 0]

Works(st, throttle) == [st |-> st, throttle |-> throttle]
NewGuess == Works("new", EmptyThrottle)
CheckEnded(how) == Works(how, EmptyThrottle)

ThrottleInit ==
  /\ stored = EmptyThrottle
  /\ wall = 1
  /\ guess = [g \in Guesses |-> NewGuess]
  /\ checks = <<>>
  /\ failed = 0 /\ uncounted = 0
  /\ sinceWrong = MaxDelay /\ sinceCounted = MaxDelay
  /\ cuts = 0 /\ shifts = 0

\* serialized: the check waits for those before it.
Enters(g) ==
  /\ guess[g].st = "new"
  /\ \A earlier \in 1 .. g - 1 : guess[earlier].st # "new"
  /\ guess' = [guess EXCEPT ![g] = Works("queued", EmptyThrottle)]
  /\ checks' = Append(checks, g)
  /\ UNCHANGED <<stored, wall, watched, cuts, shifts>>

\* Checks that do not wait for each other.
HasTurnAtOnce(g) == guess[g].st = "queued"

HasTurn(g) == guess[g].st = "queued" /\ checks # <<>> /\ Head(checks) = g

CheckEnds(g, end) ==
  /\ guess' = [guess EXCEPT ![g] = end]
  /\ checks' = Tail(checks)

\* openEnvelopeNow reads the throttle and refuses while a wait is in force
\* (assertNotThrottled).
ReadsThrottle(g) ==
  /\ HasTurn(g)
  /\ LET throttle == AsOfNow(stored)
     IN IF throttle.retryAt > wall
        THEN CheckEnds(g, CheckEnded("refused"))
        ELSE /\ guess' = [guess EXCEPT ![g] = Works("opening", throttle)]
             /\ UNCHANGED checks
  /\ UNCHANGED <<stored, wall, watched, cuts, shifts>>

\* kernel.openKeyring refuses the password.
OpensWrong(g) ==
  /\ guess[g].st = "opening"
  /\ guess' = [guess EXCEPT ![g] = Works("failing", RecordFailure(guess[g].throttle))]
  /\ failed' = failed + 1
  /\ sinceWrong' = 0
  /\ UNCHANGED <<stored, wall, checks, uncounted, sinceCounted, cuts, shifts>>

\* It takes it; nothing is stored where nothing had failed.
OpensRight(g) ==
  /\ guess[g].st = "opening"
  /\ IF guess[g].throttle.failures > 0
     THEN /\ guess' = [guess EXCEPT ![g] = Works("clearing", guess[g].throttle)]
          /\ UNCHANGED <<checks, failed, uncounted>>
     ELSE CheckEnds(g, CheckEnded("opened")) /\ failed' = 0 /\ uncounted' = 0
  /\ UNCHANGED <<stored, wall, sinceWrong, sinceCounted, cuts, shifts>>

StoresFailure(g) ==
  /\ guess[g].st = "failing"
  /\ stored' = guess[g].throttle
  /\ CheckEnds(g, CheckEnded("wrong"))
  /\ sinceCounted' = sinceWrong
  /\ UNCHANGED <<wall, failed, uncounted, sinceWrong, cuts, shifts>>

ClearsThrottle(g) ==
  /\ guess[g].st = "clearing"
  /\ stored' = EmptyThrottle
  /\ CheckEnds(g, CheckEnded("opened"))
  /\ failed' = 0 /\ uncounted' = 0
  /\ UNCHANGED <<wall, sinceWrong, sinceCounted, cuts, shifts>>

\* The queue and the checks in it are memory of the worker.
CheckIsCut ==
  /\ cuts < MaxCuts /\ checks # <<>>
  /\ cuts' = cuts + 1
  /\ uncounted' = IF guess[Head(checks)].st = "failing" THEN uncounted + 1 ELSE uncounted
  /\ guess' = [g \in Guesses |-> IF guess[g].st \in {"queued", "opening", "failing", "clearing"}
                                 THEN CheckEnded("lost") ELSE guess[g]]
  /\ checks' = <<>>
  /\ UNCHANGED <<stored, wall, failed, sinceWrong, sinceCounted, shifts>>

TimePasses ==
  /\ wall < MaxWall
  /\ wall' = wall + 1
  /\ sinceWrong' = Lesser(sinceWrong + 1, MaxDelay)
  /\ sinceCounted' = Lesser(sinceCounted + 1, MaxDelay)
  /\ UNCHANGED <<stored, guess, checks, failed, uncounted, cuts, shifts>>

ClockSetBack ==
  /\ shifts < MaxShifts
  /\ \E earlier \in 0 .. wall - 1 : wall' = earlier
  /\ shifts' = shifts + 1
  /\ UNCHANGED <<stored, guess, checks, failed, uncounted, sinceWrong, sinceCounted, cuts>>

ThrottleNext ==
  \/ \E g \in Guesses : \/ Enters(g) \/ ReadsThrottle(g) \/ OpensWrong(g) \/ OpensRight(g)
                        \/ StoresFailure(g) \/ ClearsThrottle(g)
  \/ CheckIsCut \/ TimePasses \/ ClockSetBack

ThrottleSpec == ThrottleInit /\ [][ThrottleNext]_throttleVars

-----------------------------------------------------------------------------
(* Properties *)

Throttles == [failures : Nat, retryAt : Nat]
Records == [st : {"new", "queued", "opening", "failing", "clearing", "opened", "wrong", "refused",
                  "lost"}, throttle : Throttles]
ThrottleTypeOK ==
  /\ stored \in Throttles
  /\ wall \in 0 .. MaxWall
  /\ guess \in [Guesses -> Records]
  /\ checks \in Seq(Guesses)
  /\ failed \in Nat /\ uncounted \in Nat
  /\ {sinceWrong, sinceCounted} \subseteq 0 .. MaxDelay
  /\ cuts \in 0 .. MaxCuts /\ shifts \in 0 .. MaxShifts

\* No password is tried before the wait that all earlier wrong ones imposed is
\* over, however many checks are sent at once, wherever the worker stops (only
\* the check it cuts off is not counted) and however often the clock is set
\* back (lib/session.ts serialized, openEnvelopeNow).
GuessesWait ==
  \A g \in Guesses : guess[g].st = "opening" => sinceCounted >= Delay(failed - uncounted)
=============================================================================
