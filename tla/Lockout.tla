-------------------------------- MODULE Lockout --------------------------------
(***************************************************************************)
(* Failed logins of one address (src/src/auth/service.rs): the map         *)
(* failed_attempts under logins whose password check, a database read and  *)
(* an argon2 hash, lies between the look at the lock and the record.       *)
(***************************************************************************)
EXTENDS Integers, FiniteSets

CONSTANTS
  Attempts,     \* logins in flight
  Address,      \* the address
  MaxFailed,    \* MAX_FAILED_ATTEMPTS: 5
  LockTime,     \* LOCKOUT_DURATION_MINUTES: 15
  HourBound     \* bound of the clock

ASSUME LockoutAssumption ==
  /\ IsFiniteSet(Attempts) /\ Attempts # {} /\ MaxFailed \in Nat \ {0}
  /\ LockTime \in Nat \ {0} /\ HourBound \in Nat

VARIABLES
  failed,   \* the entry of the address: count, until (0: no lock)
  attempt,  \* where each login is
  guesses,  \* history: failures since the address was last unlocked
  hour

lockVars == <<failed, attempt, guesses, hour>>

LockoutInit ==
  /\ failed = [count |-> 0, until |-> 0] /\ attempt = [a \in Attempts |-> "idle"]
  /\ guesses = 0 /\ hour = 0

CheckBruteForce(a) ==
  /\ attempt[a] = "idle" /\ hour >= failed.until
  /\ attempt' = [attempt EXCEPT ![a] = "password"] /\ UNCHANGED <<failed, guesses, hour>>

\* Mutant: the lock comes one failure late.
RecordFailed_Late(a) ==
  /\ attempt[a] = "password" /\ attempt' = [attempt EXCEPT ![a] = "idle"]
  /\ failed' = [count |-> failed.count + 1,
                until |-> IF failed.count >= MaxFailed THEN hour + LockTime ELSE failed.until]
  /\ guesses' = guesses + 1 /\ UNCHANGED hour

\* The count outlives the lock: the next failure locks again.
RecordFailed(a) ==
  /\ attempt[a] = "password" /\ attempt' = [attempt EXCEPT ![a] = "idle"]
  /\ failed' = [count |-> failed.count + 1,
                until |-> IF failed.count + 1 >= MaxFailed THEN hour + LockTime ELSE failed.until]
  /\ guesses' = guesses + 1 /\ UNCHANGED hour

\* Mutant: a success takes back one failure.
ResetFailed_One(a) ==
  /\ attempt[a] = "password" /\ attempt' = [attempt EXCEPT ![a] = "idle"]
  /\ failed' = [count |-> failed.count - 1, until |-> 0] /\ guesses' = 0 /\ UNCHANGED hour

\* A login with the right password removes the entry, and a lock with it.
ResetFailed(a) ==
  /\ attempt[a] = "password" /\ attempt' = [attempt EXCEPT ![a] = "idle"]
  /\ failed' = [count |-> 0, until |-> 0] /\ guesses' = 0 /\ UNCHANGED hour

LoginFails(a) ==
  /\ attempt[a] = "password" /\ attempt' = [attempt EXCEPT ![a] = "idle"]
  /\ UNCHANGED <<failed, guesses, hour>>

HourPasses ==
  /\ hour < HourBound /\ hour' = hour + 1
  /\ guesses' = IF hour < failed.until /\ hour' >= failed.until THEN 0 ELSE guesses
  /\ UNCHANGED <<failed, attempt>>

LockoutNext ==
  \/ \E a \in Attempts : CheckBruteForce(a) \/ RecordFailed(a) \/ ResetFailed(a) \/ LoginFails(a)
  \/ HourPasses

LockoutSpec == LockoutInit /\ [][LockoutNext]_lockVars
-----------------------------------------------------------------------------
LockoutTypeOK ==
  /\ failed \in [count: Nat, until: Nat] /\ attempt \in [Attempts -> {"idle", "password"}]
  /\ guesses \in Nat /\ hour \in Nat

Guessing == {a \in Attempts : attempt[a] = "password"}

Guesses == INSTANCE CheckThenAct WITH
  Resources <- {Address}, Actors <- Attempts, Capacity <- [x \in {Address} |-> MaxFailed],
  used <- [x \in {Address} |-> guesses], checked <- [x \in {Address} |-> Guessing]

\* Between two locks at most MaxFailed wrong passwords are tried, and as many more as
\* logins were in flight: an expired lock or a success of another login never opens
\* the address for a further round.
GuessesImplement == Guesses!Spec
=============================================================================
