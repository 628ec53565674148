----------------------------- MODULE LoginCodes ------------------------------
(***************************************************************************)
(* E-mail login codes of one address (emailauth.Service).                  *)
(*                                                                         *)
(* A request is answered at once and its job queued; one goroutine per     *)
(* shard sends the mails in order and stores a code only when its mail has *)
(* been sent.  A login takes three steps: the code is reserved under the   *)
(* mutex, the account service opens a session, and the code is deleted, or *)
(* released if the service failed.  Codes are drawn at random, so the same *)
(* one may be drawn twice.                                                 *)
(*                                                                         *)
(* The settings that switch the feature off let a job or a request end     *)
(* early; GiveUp and leaving out the request stand for them.               *)
(***************************************************************************)
EXTENDS Naturals, FiniteSets

CONSTANTS Codes, NoCode,
          Visitors,          \* logins under way at once
          Addresses,         \* IP addresses that ask for codes
          QueueSize,         \* of a shard (64 in the code)
          MaxFailedAttempts,
          MaxMails, MaxRestarts   \* bounds

ASSUME LoginCodesAssumption ==
    /\ NoCode \notin Codes /\ IsFiniteSet(Visitors)
    /\ QueueSize \in Nat /\ MaxFailedAttempts \in Nat \ {0}
    /\ MaxMails \in Nat /\ MaxRestarts \in Nat

VARIABLES codeEntry,  \* codes[email]: code, failedCount, consuming, expired
          cooling,    \* addresses with a cooldown in the future
          jobs,       \* deliveries queued in the shard
          delivery,   \* the job that runs: its stage and the code it mailed
          login,      \* login[v]: its stage and the code it was given
          mails, restarts,
          storedTimes, openedTimes  \* how often a code was stored, and let in

lcVars == <<codeEntry, cooling, jobs, delivery, login, mails, restarts,
            storedTimes, openedTimes>>

NoEntry == [code |-> NoCode, failed |-> 0, consuming |-> FALSE, expired |-> FALSE]
Idle == [stage |-> "idle", code |-> NoCode]

-----------------------------------------------------------------------------
(* cleanup; cleanupIfDue leaves it out within a minute of the last one.    *)
Cleaned == IF codeEntry.expired THEN NoEntry ELSE codeEntry

(* RequestCode, with reserveSend and Dispatch.  An address that cools down *)
(* is refused.  The shard also has jobs of other e-mail addresses; if it   *)
(* is full the request is refused, and the cooldown has begun all the same.*)
RequestCode(ip) ==
    /\ codeEntry' \in {codeEntry, Cleaned}
    /\ \/ ip \in cooling /\ UNCHANGED <<cooling, jobs>>
       \/ /\ ip \notin cooling
          /\ cooling' = cooling \cup {ip}
          /\ jobs' \in IF jobs < QueueSize THEN {jobs, jobs + 1} ELSE {jobs}
    /\ UNCHANGED <<delivery, login, mails, restarts, storedTimes, openedTimes>>

(* deliverCode: the job is taken, its mail is sent, its code is stored.    *)
TakeJob ==
    /\ delivery = Idle /\ jobs > 0
    /\ jobs' = jobs - 1 /\ delivery' = [Idle EXCEPT !.stage = "taken"]
    /\ UNCHANGED <<codeEntry, cooling, login, mails, restarts, storedTimes,
                   openedTimes>>

SendMail(code) ==
    /\ delivery.stage = "taken" /\ mails < MaxMails
    /\ delivery' = [stage |-> "mailed", code |-> code] /\ mails' = mails + 1
    /\ UNCHANGED <<codeEntry, cooling, jobs, login, restarts, storedTimes,
                   openedTimes>>

(* No active account, an error, or a mail server that fails after the mail *)
(* was accepted.                                                           *)
GiveUp ==
    /\ delivery # Idle /\ delivery' = Idle
    /\ UNCHANGED <<codeEntry, cooling, jobs, login, mails, restarts,
                   storedTimes, openedTimes>>

StoreCode ==
    /\ delivery.stage = "mailed"
    /\ codeEntry' = [NoEntry EXCEPT !.code = delivery.code]
    /\ storedTimes' = [storedTimes EXCEPT ![delivery.code] = @ + 1]
    /\ delivery' = Idle
    /\ UNCHANGED <<cooling, jobs, login, mails, restarts, openedTimes>>

-----------------------------------------------------------------------------
(* Mutant: a code that is being used can be reserved again.                *)
Reservable_Consuming(code) == codeEntry.code = code

Reservable(code) == codeEntry.code = code /\ ~codeEntry.consuming

(* reserveCode.                                                            *)
Reserve(v, code) ==
    /\ login[v] = Idle
    /\ codeEntry # NoEntry
    /\ LET live == ~codeEntry.expired
       IN  \/ /\ ~live /\ codeEntry' = NoEntry /\ UNCHANGED login
           \/ /\ live /\ ~codeEntry.consuming /\ codeEntry.code # code
              /\ codeEntry' = IF codeEntry.failed + 1 >= MaxFailedAttempts
                              THEN NoEntry
                              ELSE [codeEntry EXCEPT !.failed = @ + 1]
              /\ UNCHANGED login
           \/ /\ live /\ Reservable(code)
              /\ codeEntry' = [codeEntry EXCEPT !.consuming = TRUE]
              /\ login' = [login EXCEPT ![v] =
                               [stage |-> "reserved", code |-> code]]
    /\ UNCHANGED <<cooling, jobs, delivery, mails, restarts, storedTimes,
                   openedTimes>>

(* LoginWithVerifiedEmail returns: with a session, without one because the *)
(* account is gone or disabled, or because of an internal error.           *)
AccountAnswers(v, outcome) ==
    /\ login[v].stage = "reserved"
    /\ login' = [login EXCEPT ![v].stage = outcome]
    /\ openedTimes' = IF outcome = "opened"
                      THEN [openedTimes EXCEPT ![login[v].code] = @ + 1]
                      ELSE openedTimes
    /\ UNCHANGED <<codeEntry, cooling, jobs, delivery, mails, restarts,
                   storedTimes>>

(* consumeCode and releaseCode: only if the entry still has this code.     *)
Settle(v) ==
    /\ login[v].stage \in {"opened", "refused", "error"}
    /\ codeEntry' = IF codeEntry.code # login[v].code THEN codeEntry
                    ELSE IF login[v].stage = "error"
                    THEN [codeEntry EXCEPT !.consuming = FALSE] ELSE NoEntry
    /\ login' = [login EXCEPT ![v] = Idle]
    /\ UNCHANGED <<cooling, jobs, delivery, mails, restarts, storedTimes,
                   openedTimes>>

-----------------------------------------------------------------------------
CodeExpires ==
    /\ codeEntry # NoEntry /\ ~codeEntry.expired
    /\ codeEntry' = [codeEntry EXCEPT !.expired = TRUE]
    /\ UNCHANGED <<cooling, jobs, delivery, login, mails, restarts, storedTimes,
                   openedTimes>>

CooldownEnds(ip) ==
    /\ ip \in cooling /\ cooling' = cooling \ {ip}
    /\ UNCHANGED <<codeEntry, jobs, delivery, login, mails, restarts,
                   storedTimes, openedTimes>>

(* The process ends: codes, cooldowns, jobs and logins under way are gone. *)
RestartServer ==
    /\ restarts < MaxRestarts /\ restarts' = restarts + 1
    /\ codeEntry' = NoEntry /\ cooling' = {} /\ jobs' = 0 /\ delivery' = Idle
    /\ login' = [v \in Visitors |-> Idle]
    /\ UNCHANGED <<mails, storedTimes, openedTimes>>

CodesInit ==
    /\ codeEntry = NoEntry /\ cooling = {} /\ jobs = 0 /\ delivery = Idle
    /\ login = [v \in Visitors |-> Idle] /\ mails = 0 /\ restarts = 0
    /\ storedTimes = [c \in Codes |-> 0] /\ openedTimes = [c \in Codes |-> 0]

CodesNext ==
    \/ TakeJob \/ GiveUp \/ StoreCode \/ CodeExpires \/ RestartServer
    \/ \E ip \in Addresses : RequestCode(ip) \/ CooldownEnds(ip)
    \/ \E c \in Codes : SendMail(c) \/ \E v \in Visitors : Reserve(v, c)
    \/ \E v \in Visitors :
          \/ Settle(v)
          \/ \E o \in {"opened", "refused", "error"} : AccountAnswers(v, o)

CodesSpec == CodesInit /\ [][CodesNext]_lcVars

-----------------------------------------------------------------------------
(* The variables have their types.                                         *)
CodesTypeOK ==
    /\ codeEntry = NoEntry
       \/ codeEntry \in [code : Codes, failed : 0..(MaxFailedAttempts - 1),
                         consuming : BOOLEAN, expired : BOOLEAN]
    /\ cooling \subseteq Addresses /\ jobs \in 0..QueueSize
    /\ delivery \in {Idle, [Idle EXCEPT !.stage = "taken"]} \cup
                       [stage : {"mailed"}, code : Codes]
    /\ login \in [Visitors -> {Idle} \cup
           [stage : {"reserved", "opened", "refused", "error"}, code : Codes]]
    /\ mails \in 0..MaxMails /\ restarts \in 0..MaxRestarts
    /\ storedTimes \in [Codes -> Nat] /\ openedTimes \in [Codes -> Nat]

(* A mailed code lets in once, however logins with it overlap, expire, are *)
(* replaced by a new code (or by the same one) and fail in between         *)
(* (reserveCode, consumeCode, releaseCode).                                *)
LoginOnce == \A c \in Codes : openedTimes[c] <= storedTimes[c]
=============================================================================
