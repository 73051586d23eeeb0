---------------------------- MODULE LoginLockout ----------------------------
(***************************************************************************)
(* The brute-force lock of ONE login identifier                            *)
(* (src/src/auth/auth.service.ts): a counter of wrong passwords that       *)
(* expires a window after the first of them, and a lock that expires as    *)
(* long after it was set.  INCR, EXPIRE and SET are three Redis commands,  *)
(* and login attempts interleave between them.                             *)
(*                                                                         *)
(* An attempt on a locked identifier is refused and changes nothing here;  *)
(* the audit row each attempt leaves in login_attempts is left out.        *)
(***************************************************************************)
EXTENDS Naturals, FiniteSets

CONSTANTS Caller,       \* attempts in flight at the same time
          MaxAttempts,  \* AUTH_LOGIN_MAX_ATTEMPTS
          MaxFails,     \* bound: the counter
          MaxCrashes    \* bound: attempts that die

ASSUME LockoutAssumption ==
  /\ IsFiniteSet(Caller)
  /\ MaxAttempts \in Nat \ {0}
  /\ MaxFails \in Nat /\ MaxCrashes \in Nat

VARIABLES
  fails,      \* login:fail:<login>, 0 when the key is absent
  window,     \* whether that key has a TTL
  lock,       \* login:lock:<login>; it always has one
  lockFirst,  \* of the two TTLs, the lock's started first
  attempt,    \* the attempts in flight
  crashes,
  \* History, read by the properties alone:
  endless,    \* an attempt died between INCR and EXPIRE of this counter
  slips       \* locks this counter earned that were never set or expired before it

lockoutHistory == <<endless, slips>>
lockoutVars == <<fails, window, lock, lockFirst, attempt, crashes, lockoutHistory>>

(* `pc` is the await an attempt stands at, `count` what INCR answered it.   *)
Resting == [pc |-> "idle", count |-> 0]
AttemptState ==
  [pc: {"idle", "verify"}, count: {0}] \cup [pc: {"expire", "lock"}, count: 1 .. MaxFails]

Stands(r, pc) == attempt[r].pc = pc

LockoutInit ==
  /\ fails = 0 /\ window = FALSE /\ lock = FALSE /\ lockFirst = FALSE
  /\ attempt = [r \in Caller |-> Resting]
  /\ crashes = 0 /\ endless = FALSE /\ slips = 0

(* login: the lock is read once, before the password is compared.           *)
Attempt(r) ==
  /\ Stands(r, "idle") /\ ~lock
  /\ attempt' = [attempt EXCEPT ![r] = [Resting EXCEPT !.pc = "verify"]]
  /\ UNCHANGED <<fails, window, lock, lockFirst, crashes, lockoutHistory>>

(* Right password, but a banned account or an unverified e-mail: neither    *)
(* counted nor cleared.                                                     *)
Refuse(r) ==
  /\ Stands(r, "verify")
  /\ attempt' = [attempt EXCEPT ![r] = Resting]
  /\ UNCHANGED <<fails, window, lock, lockFirst, crashes, lockoutHistory>>

(* clearLoginFailures: one DEL of both keys.                                *)
Clear ==
  /\ fails' = 0 /\ window' = FALSE /\ lock' = FALSE /\ lockFirst' = FALSE
  /\ endless' = FALSE /\ slips' = 0

Succeed(r) ==
  /\ Stands(r, "verify")
  /\ Clear
  /\ attempt' = [attempt EXCEPT ![r] = Resting]
  /\ UNCHANGED crashes

(* An administrator's unlockLogin.                                          *)
Unlock ==
  /\ Clear
  /\ UNCHANGED <<attempt, crashes>>

-----------------------------------------------------------------------------
(* registerFailedCredentials: unknown login or wrong password.              *)

(* Mutant: the lock takes one failure more than the threshold.              *)
ThresholdOffByOne(count) ==
  IF count > MaxAttempts THEN [pc |-> "lock", count |-> count] ELSE Resting

(* Whether the failure goes on to set the lock.                             *)
AfterWindow(count) ==
  IF count >= MaxAttempts THEN [pc |-> "lock", count |-> count] ELSE Resting

(* Mutant: the window is opened by the failure that reaches the threshold.  *)
AfterIncrAtThreshold(count) ==
  IF count = MaxAttempts THEN [pc |-> "expire", count |-> count] ELSE AfterWindow(count)

(* INCR has answered `count`: the first failure gives the counter its TTL.  *)
AfterIncr(count) ==
  IF count = 1 THEN [pc |-> "expire", count |-> count] ELSE AfterWindow(count)

RegisterFailure(r) ==
  /\ Stands(r, "verify") /\ fails < MaxFails
  /\ fails' = fails + 1
  /\ attempt' = [attempt EXCEPT ![r] = AfterIncr(fails + 1)]
  /\ UNCHANGED <<window, lock, lockFirst, crashes, lockoutHistory>>

(* Mutant: the TTL outlives the counter that a clear has just deleted.      *)
OpenWindowAlways(r) ==
  /\ Stands(r, "expire")
  /\ window' = TRUE
  /\ lockFirst' = lock
  /\ attempt' = [attempt EXCEPT ![r] = AfterWindow(@.count)]
  /\ UNCHANGED <<fails, lock, crashes, lockoutHistory>>

(* EXPIRE, without effect when the counter has been deleted.                *)
OpenWindow(r) ==
  /\ Stands(r, "expire")
  /\ window' = (fails # 0)
  /\ lockFirst' = (fails # 0 /\ lock)
  /\ attempt' = [attempt EXCEPT ![r] = AfterWindow(@.count)]
  /\ UNCHANGED <<fails, lock, crashes, lockoutHistory>>

(* Mutant: the lock is set when the threshold is met, and only then.        *)
SetLockOnce(r) ==
  /\ Stands(r, "lock")
  /\ lock' = (lock \/ attempt[r].count = MaxAttempts)
  /\ lockFirst' = FALSE
  /\ attempt' = [attempt EXCEPT ![r] = Resting]
  /\ UNCHANGED <<fails, window, crashes, lockoutHistory>>

SetLock(r) ==
  /\ Stands(r, "lock")
  /\ lock' = TRUE
  /\ lockFirst' = FALSE
  /\ attempt' = [attempt EXCEPT ![r] = Resting]
  /\ UNCHANGED <<fails, window, crashes, lockoutHistory>>

-----------------------------------------------------------------------------
(* The environment.  Both keys are given the same TTL.                      *)

ExpireCounter ==
  /\ window /\ ~lockFirst
  /\ fails' = 0 /\ window' = FALSE
  /\ endless' = FALSE /\ slips' = 0
  /\ UNCHANGED <<lock, lockFirst, attempt, crashes>>

(* With its counter still there, the lock has lapsed early: the EXPIRE came *)
(* after the SET of an overlapping attempt, or it never came.               *)
ExpireLock ==
  /\ lock /\ (lockFirst \/ ~window)
  /\ lock' = FALSE /\ lockFirst' = FALSE
  /\ slips' = IF fails >= MaxAttempts THEN slips + 1 ELSE slips
  /\ UNCHANGED <<fails, window, attempt, crashes, endless>>

(* The process stops, or Redis fails, between two awaits of an attempt.     *)
Dies(r) ==
  /\ ~Stands(r, "idle") /\ crashes < MaxCrashes
  /\ crashes' = crashes + 1
  /\ endless' = (endless \/ (Stands(r, "expire") /\ fails # 0 /\ ~window))
  /\ slips' = IF attempt[r].count >= MaxAttempts /\ fails >= MaxAttempts THEN slips + 1 ELSE slips
  /\ attempt' = [attempt EXCEPT ![r] = Resting]
  /\ UNCHANGED <<fails, window, lock, lockFirst>>

LockoutNext ==
  \/ \E r \in Caller :
       \/ Attempt(r) \/ Refuse(r) \/ Succeed(r)
       \/ RegisterFailure(r) \/ OpenWindow(r) \/ SetLock(r) \/ Dies(r)
  \/ Unlock \/ ExpireCounter \/ ExpireLock

LockoutSpec == LockoutInit /\ [][LockoutNext]_lockoutVars

-----------------------------------------------------------------------------
LockoutTypeOK ==
  /\ fails \in 0 .. MaxFails
  /\ window \in BOOLEAN /\ lock \in BOOLEAN /\ lockFirst \in BOOLEAN
  /\ window => fails # 0
  /\ lockFirst => lock /\ window
  /\ attempt \in [Caller -> AttemptState]
  /\ crashes \in 0 .. MaxCrashes
  /\ endless \in BOOLEAN /\ slips \in Nat

(* CounterWillExpire: a counter without TTL belongs to an attempt that is   *)
(* about to give it one, or to one that died just before, whatever clears   *)
(* and other failures come between INCR and EXPIRE.                         *)
CounterWillExpire ==
  fails # 0 /\ ~window => endless \/ \E r \in Caller : Stands(r, "expire")

(* ThresholdLocks: a counter at the threshold stands with its lock, unless  *)
(* the attempt that sets it is on its way, or the lock was lost to a crash  *)
(* or to a TTL that ran out first.                                          *)
ThresholdLocks ==
  fails >= MaxAttempts =>
    lock \/ slips # 0 \/ \E r \in Caller : attempt[r].count >= MaxAttempts

(* GuessesBounded: overlapping attempts get the identifier at most one      *)
(* wrong password each beyond the threshold, and as many again for every    *)
(* lock that was lost.                                                      *)
GuessesBounded ==
  fails <= (MaxAttempts - 1) + Cardinality(Caller) * (1 + slips)

=============================================================================
