-------------------------------- MODULE Auth --------------------------------
(***************************************************************************)
(* The account of the web page: its creation at the first start, the       *)
(* change of its password, and the count of failed logins of one client    *)
(* (service/auth.go).  Passwords are numbers, 0 for none.                  *)
(***************************************************************************)
EXTENDS Naturals, FiniteSets

CONSTANTS
  Sessions,    \* requests handled at a time
  MaxAttempts, \* maxLoginAttempts
  MaxPasswords,   \* bound: passwords ever made up
  MaxAuthFaults,  \* bound: failing statements
  MaxAuthCrashes  \* bound: crashes of the process

VARIABLES
  user, password, default, initialized, \* the settings of the account
  passwords,   \* passwords made up so far
  initPc,      \* InitAuth
  task,        \* what each request is doing, and with which password
  failures, lockedAt, \* loginAttempts of the client; TRUE while in the window, or after it
  window,      \* less than loginLockWindow has gone by since lockedAt
  authFaults, authCrashes

account == <<user, password, default, initialized>>
attempts == <<failures, lockedAt, window>>
authVars == <<account, passwords, initPc, task, attempts, authFaults, authCrashes>>

InitStage == {"start", "user", "password", "default", "flag", "serving"}
TaskAt == {"none", "checking", "wrong", "right", "store", "forget"}

AuthTypeOK ==
  /\ user \in BOOLEAN /\ initialized \in BOOLEAN
  /\ password \in 0..MaxPasswords /\ default \in 0..MaxPasswords /\ passwords \in 0..MaxPasswords
  /\ initPc \in InitStage
  /\ task \in [Sessions -> [at : TaskAt, pwd : 0..MaxPasswords]]
  /\ failures \in Nat /\ lockedAt \in BOOLEAN /\ window \in BOOLEAN
  /\ authFaults \in Nat /\ authCrashes \in Nat

----------------------------------------------------------------------------
Ok == UNCHANGED authFaults
Fails == authFaults < MaxAuthFaults /\ authFaults' = authFaults + 1

Idle == [at |-> "none", pwd |-> 0]

AuthInit ==
  /\ user = FALSE /\ password = 0 /\ default = 0 /\ initialized = FALSE
  /\ passwords = 0 /\ initPc = "start"
  /\ task = [s \in Sessions |-> Idle]
  /\ failures = 0 /\ lockedAt = FALSE /\ window = FALSE
  /\ authFaults = 0 /\ authCrashes = 0

(* InitAuth: four settings, the flag last; an error ends it, and the process *)
(* goes on to serve.                                                        *)

\* A flag that cannot be read is taken for one that is not set.
ReadInitialized ==
  /\ initPc = "start"
  /\ \/ /\ Ok /\ initialized /\ initPc' = "serving" /\ UNCHANGED passwords
     \/ /\ \/ Ok /\ ~initialized
           \/ Fails
        /\ passwords < MaxPasswords /\ passwords' = passwords + 1
        /\ initPc' = "user"
  /\ UNCHANGED <<account, task, attempts, authCrashes>>

\* Mutant: the flag is set before the password.
SetAccount_FlagFirst ==
  /\ initPc \in {"user", "password", "default", "flag"}
  /\ \/ /\ Ok
        /\ CASE initPc = "user" -> user' = TRUE /\ initPc' = "flag" /\ UNCHANGED <<password, default, initialized>>
             [] initPc = "flag" -> initialized' = TRUE /\ initPc' = "password" /\ UNCHANGED <<user, password, default>>
             [] initPc = "password" -> password' = passwords /\ initPc' = "default" /\ UNCHANGED <<user, default, initialized>>
             [] initPc = "default" -> default' = passwords /\ initPc' = "serving" /\ UNCHANGED <<user, password, initialized>>
     \/ Fails /\ initPc' = "serving" /\ UNCHANGED account
  /\ UNCHANGED <<passwords, task, attempts, authCrashes>>
SetAccount ==
  /\ initPc \in {"user", "password", "default", "flag"}
  /\ \/ /\ Ok
        /\ CASE initPc = "user" -> user' = TRUE /\ initPc' = "password" /\ UNCHANGED <<password, default, initialized>>
             [] initPc = "password" -> password' = passwords /\ initPc' = "default" /\ UNCHANGED <<user, default, initialized>>
             [] initPc = "default" -> default' = passwords /\ initPc' = "flag" /\ UNCHANGED <<user, password, initialized>>
             [] initPc = "flag" -> initialized' = TRUE /\ initPc' = "serving" /\ UNCHANGED <<user, password, default>>
     \/ Fails /\ initPc' = "serving" /\ UNCHANGED account
  /\ UNCHANGED <<passwords, task, attempts, authCrashes>>

----------------------------------------------------------------------------
(* Login: the lock, the password, and what comes of it are looked at and     *)
(* written one after the other, with other requests in between.              *)

Goto(s, l) == task' = [task EXCEPT ![s].at = l]

\* Mutant: the count is not reset with the lock.
LoginLocked_KeepsCount(s) ==
  /\ initPc = "serving" /\ task[s].at = "none" /\ ~(lockedAt /\ window)
  /\ Goto(s, "checking")
  /\ lockedAt' = FALSE /\ UNCHANGED <<failures, window>>
  /\ UNCHANGED <<account, passwords, initPc, authFaults, authCrashes>>

\* loginLocked: a request of a locked client ends here; a lock whose window is over
\* is taken off, with its count.
LoginLocked(s) ==
  /\ initPc = "serving" /\ task[s].at = "none" /\ ~(lockedAt /\ window)
  /\ Goto(s, "checking")
  /\ lockedAt' = FALSE /\ UNCHANGED window
  /\ failures' = IF lockedAt THEN 0 ELSE failures
  /\ UNCHANGED <<account, passwords, initPc, authFaults, authCrashes>>

\* What was typed is right or not; an account that cannot be read is wrong.
CheckPassword(s) ==
  /\ task[s].at = "checking"
  /\ \/ Ok /\ user /\ password # 0 /\ Goto(s, "right")
     \/ Ok /\ Goto(s, "wrong")
     \/ Fails /\ Goto(s, "wrong")
  /\ UNCHANGED <<account, passwords, initPc, attempts, authCrashes>>

RegisterFailure(s) ==
  /\ task[s].at = "wrong" /\ Goto(s, "none")
  /\ failures' = failures + 1
  /\ IF failures' >= MaxAttempts THEN lockedAt' = TRUE /\ window' = TRUE
     ELSE UNCHANGED <<lockedAt, window>>
  /\ UNCHANGED <<account, passwords, initPc, authFaults, authCrashes>>

ClearFailures(s) ==
  /\ task[s].at = "right" /\ Goto(s, "none")
  /\ failures' = 0 /\ lockedAt' = FALSE /\ UNCHANGED window
  /\ UNCHANGED <<account, passwords, initPc, authFaults, authCrashes>>

WindowEnds ==
  /\ window /\ window' = FALSE
  /\ UNCHANGED <<account, passwords, initPc, task, failures, lockedAt, authFaults, authCrashes>>

----------------------------------------------------------------------------
(* ChangePassword: the old one is compared, the new one stored, and then the *)
(* default password is forgotten.                                            *)

CompareOld(s) ==
  /\ initPc = "serving" /\ task[s].at = "none" /\ password # 0
  /\ passwords < MaxPasswords /\ passwords' = passwords + 1
  /\ task' = [task EXCEPT ![s] = [at |-> "store", pwd |-> passwords + 1]]
  /\ UNCHANGED <<account, initPc, attempts, authFaults, authCrashes>>

StoreNew(s) ==
  /\ task[s].at = "store"
  /\ \/ Ok /\ password' = task[s].pwd /\ Goto(s, "forget")
     \/ Fails /\ task' = [task EXCEPT ![s] = Idle] /\ UNCHANGED password
  /\ UNCHANGED <<user, default, initialized, passwords, initPc, attempts, authCrashes>>

\* Mutant: the default password is forgotten only if it still is the password.
ForgetDefault_IfSame(s) ==
  /\ task[s].at = "forget"
  /\ \/ Ok /\ default' = IF default = password THEN 0 ELSE default
     \/ Fails /\ UNCHANGED default
  /\ task' = [task EXCEPT ![s] = Idle]
  /\ UNCHANGED <<user, password, initialized, passwords, initPc, attempts, authCrashes>>
ForgetDefault(s) ==
  /\ task[s].at = "forget"
  /\ \/ Ok /\ default' = 0
     \/ Fails /\ UNCHANGED default
  /\ task' = [task EXCEPT ![s] = Idle]
  /\ UNCHANGED <<user, password, initialized, passwords, initPc, attempts, authCrashes>>

----------------------------------------------------------------------------
AuthCrash ==
  /\ authCrashes < MaxAuthCrashes /\ authCrashes' = authCrashes + 1
  /\ initPc' = "start" /\ task' = [s \in Sessions |-> Idle]
  /\ failures' = 0 /\ lockedAt' = FALSE /\ window' = FALSE
  /\ UNCHANGED <<account, passwords, authFaults>>

AuthNext ==
  \/ ReadInitialized \/ SetAccount
  \/ \E s \in Sessions :
       \/ LoginLocked(s) \/ CheckPassword(s) \/ RegisterFailure(s) \/ ClearFailures(s)
       \/ CompareOld(s) \/ StoreNew(s) \/ ForgetDefault(s)
  \/ WindowEnds \/ AuthCrash

AuthSpec == AuthInit /\ [][AuthNext]_authVars

----------------------------------------------------------------------------
(* Properties. *)

\* InitAuth: an account that counts as created can be logged in to, wherever its
\* creation was cut short before.
InitializedIsWhole == initialized => user /\ password # 0

\* AuthStatus shows the default password as long as there is one: it is the
\* password, unless a change of password is under way or was cut short.
DefaultOpens ==
  /\ initPc = "serving" /\ initialized /\ default # 0
  /\ authFaults = 0 /\ authCrashes = 0
  /\ \A s \in Sessions : task[s].at # "forget"
  => default = password

\* Both, of the account InitAuth creates.
AccountIsSound == InitializedIsWhole /\ DefaultOpens

\* The lock after MaxAttempts failures: a client gets no more of them counted than
\* that, and one for each other request that was past the lock at that time; and a
\* lock that holds was earned.
FailuresAreBounded ==
  /\ failures < MaxAttempts + Cardinality(Sessions)
  /\ lockedAt => failures >= MaxAttempts
=============================================================================
