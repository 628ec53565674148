---------------------------- MODULE ServerProofs ----------------------------
(*************************************************************************)
(* Theorems about parts of the server that share no state: login codes,  *)
(* and the reminders of tasks.                                           *)
(*************************************************************************)
EXTENDS LoginCodes, TaskReminders, FiniteSetTheorems, NaturalsInduction,
        WellFoundedInduction, TLAPS

(*************************************************************************)
(* Login codes: a stored code lets in at most once, for any number of codes, *)
(* visitors and addresses.                                               *)
(*                                                                       *)
(* The reason is an account of what a storing of a code has been spent on: *)
(* a login that was let in, a login that holds the code and may still be *)
(* let in or give it back, or the entry from which it can be reserved.   *)
(*************************************************************************)

Holders(c) ==
    {v \in Visitors : login[v].stage \in {"reserved", "error"} /\ login[v].code = c}
Available(c) == IF Reservable(c) THEN 1 ELSE 0

(* Whatever was stored covers all of it.                                   *)
Covered(c) ==
    openedTimes[c] + Cardinality(Holders(c)) + Available(c) <= storedTimes[c]

LoginInv == CodesTypeOK /\ \A c \in Codes : Covered(c)

-----------------------------------------------------------------------------
(* The holders of a code are finitely many.                                *)
LEMMA HoldersFinite ==
    ASSUME NEW c
    PROVE  IsFiniteSet(Holders(c)) /\ Cardinality(Holders(c)) \in Nat
  <1>1. Holders(c) \in SUBSET Visitors
    BY DEF Holders
  <1>2. IsFiniteSet(Holders(c))
    BY <1>1, FS_Subset, LoginCodesAssumption DEF LoginCodesAssumption
  <1>. QED BY <1>2, FS_CardinalityType

(* One holder more, or one less.                                           *)
LEMMA HolderJoins ==
    ASSUME NEW c, NEW v, v \notin Holders(c), Holders(c)' = Holders(c) \cup {v}
    PROVE  Cardinality(Holders(c)') = Cardinality(Holders(c)) + 1
  BY HoldersFinite, FS_AddElement

LEMMA HolderLeaves ==
    ASSUME NEW c, NEW v, v \in Holders(c), Holders(c)' = Holders(c) \ {v}
    PROVE  Cardinality(Holders(c)') = Cardinality(Holders(c)) - 1
  BY HoldersFinite, FS_RemoveElement

(* The account is in numbers.                                              *)
LEMMA CoveredInNat ==
    ASSUME CodesTypeOK, NEW c \in Codes
    PROVE  openedTimes[c] \in Nat /\ storedTimes[c] \in Nat /\ Available(c) \in 0..1
  BY DEF CodesTypeOK, Available

(* The entry is a record, and a login that is under way has a code.        *)
LEMMA Records ==
    ASSUME CodesTypeOK
    PROVE  /\ codeEntry \in [code : Codes \cup {NoCode}, failed : Nat,
                             consuming : BOOLEAN, expired : BOOLEAN]
           /\ codeEntry # NoEntry =>
                 codeEntry \in [code : Codes, failed : 0..(MaxFailedAttempts - 1),
                               consuming : BOOLEAN, expired : BOOLEAN]
           /\ \A v \in Visitors :
                 login[v] # Idle => login[v].code \in Codes
  <1>. USE LoginCodesAssumption DEF LoginCodesAssumption
  <1>1. codeEntry # NoEntry =>
           codeEntry \in [code : Codes, failed : 0..(MaxFailedAttempts - 1),
                         consuming : BOOLEAN, expired : BOOLEAN]
    BY DEF CodesTypeOK
  <1>2. NoEntry \in [code : Codes \cup {NoCode}, failed : Nat,
                     consuming : BOOLEAN, expired : BOOLEAN]
    BY DEF NoEntry
  <1>3. codeEntry \in [code : Codes \cup {NoCode}, failed : Nat,
                       consuming : BOOLEAN, expired : BOOLEAN]
    BY <1>1, <1>2
  <1>4. ASSUME NEW v \in Visitors, login[v] # Idle PROVE login[v].code \in Codes
    BY <1>4 DEF CodesTypeOK
  <1>. QED BY <1>1, <1>3, <1>4

-----------------------------------------------------------------------------
(* The variables keep their types.                                         *)
LEMMA CodesTyped ==
    ASSUME CodesTypeOK, [CodesNext]_lcVars
    PROVE  CodesTypeOK'
  <1>. USE LoginCodesAssumption DEF LoginCodesAssumption, CodesTypeOK, NoEntry, Idle
  <1>1. ASSUME NEW ip \in Addresses, RequestCode(ip) PROVE CodesTypeOK'
    BY <1>1 DEF RequestCode, Cleaned
  <1>2. CASE TakeJob
    BY <1>2 DEF TakeJob
  <1>3. ASSUME NEW c \in Codes, SendMail(c) PROVE CodesTypeOK'
    BY <1>3 DEF SendMail
  <1>4. CASE GiveUp
    BY <1>4 DEF GiveUp
  <1>5. CASE StoreCode
    <2>1. delivery.code \in Codes
      BY <1>5 DEF StoreCode
    <2>2. codeEntry' = [code |-> delivery.code, failed |-> 0, consuming |-> FALSE,
                        expired |-> FALSE]
      BY <1>5 DEF StoreCode
    <2>3. codeEntry' \in [code : Codes, failed : 0..(MaxFailedAttempts - 1),
                          consuming : BOOLEAN, expired : BOOLEAN]
      BY <2>1, <2>2
    <2>4. storedTimes' \in [Codes -> Nat]
      BY <1>5, <2>1 DEF StoreCode
    <2>. QED BY <1>5, <2>3, <2>4 DEF StoreCode
  <1>6. ASSUME NEW v \in Visitors, NEW c \in Codes, Reserve(v, c) PROVE CodesTypeOK'
    <2>. DEFINE Entry == [code : Codes, failed : 0..(MaxFailedAttempts - 1),
                          consuming : BOOLEAN, expired : BOOLEAN]
    <2>1. codeEntry \in Entry
      BY <1>6, Records DEF Reserve
    <2>2. ~(codeEntry.failed + 1 >= MaxFailedAttempts)
             => [codeEntry EXCEPT !.failed = @ + 1] \in Entry
      BY <2>1
    <2>3. [codeEntry EXCEPT !.consuming = TRUE] \in Entry
      BY <2>1
    <2>4. codeEntry' = NoEntry \/ codeEntry' \in Entry
      BY <1>6, <2>1, <2>2, <2>3 DEF Reserve
    <2>5. login' \in [Visitors -> {Idle} \cup
             [stage : {"reserved", "opened", "refused", "error"}, code : Codes]]
      BY <1>6 DEF Reserve
    <2>. QED BY <1>6, <2>4, <2>5 DEF Reserve
  <1>7. ASSUME NEW v \in Visitors, NEW o \in {"opened", "refused", "error"},
               AccountAnswers(v, o)
        PROVE  CodesTypeOK'
    BY <1>7 DEF AccountAnswers
  <1>8. ASSUME NEW v \in Visitors, Settle(v) PROVE CodesTypeOK'
    <2>. DEFINE Entry == [code : Codes, failed : 0..(MaxFailedAttempts - 1),
                          consuming : BOOLEAN, expired : BOOLEAN]
    <2>1. login[v].code \in Codes
      BY <1>8, Records DEF Settle
    <2>2. codeEntry.code = login[v].code => codeEntry \in Entry
      BY <2>1
    <2>3. codeEntry.code = login[v].code
             => [codeEntry EXCEPT !.consuming = FALSE] \in Entry
      BY <2>2
    <2>4. codeEntry' = NoEntry \/ codeEntry' \in Entry
      BY <1>8, <2>3 DEF Settle
    <2>5. login' \in [Visitors -> {Idle} \cup
             [stage : {"reserved", "opened", "refused", "error"}, code : Codes]]
      BY <1>8 DEF Settle
    <2>. QED BY <1>8, <2>4, <2>5 DEF Settle
  <1>9. CASE CodeExpires
    BY <1>9 DEF CodeExpires
  <1>10. ASSUME NEW ip \in Addresses, CooldownEnds(ip) PROVE CodesTypeOK'
    BY <1>10 DEF CooldownEnds
  <1>11. CASE RestartServer
    BY <1>11 DEF RestartServer
  <1>12. CASE UNCHANGED lcVars
    BY <1>12 DEF lcVars
  <1>. QED
    BY <1>1, <1>2, <1>3, <1>4, <1>5, <1>6, <1>7, <1>8, <1>9, <1>10, <1>11, <1>12
       DEF CodesNext

-----------------------------------------------------------------------------
(* The account stays covered when it does not grow.                        *)
LEMMA StillCovered ==
    ASSUME LoginInv, CodesTypeOK', NEW c \in Codes,
           openedTimes' = openedTimes, storedTimes' = storedTimes,
           login' = login, Reservable(c)' => Reservable(c)
    PROVE  Covered(c)'
  <1>1. Holders(c)' = Holders(c)
    BY DEF Holders
  <1>2. Available(c)' <= Available(c)
    BY DEF Available
  <1>. QED
    BY <1>1, <1>2, HoldersFinite, CoveredInNat DEF LoginInv, Covered, Available

(* A reserved code is no longer available.                                 *)
LEMMA ReserveCovered ==
    ASSUME LoginInv, CodesTypeOK', NEW c \in Codes, NEW v \in Visitors,
           NEW code \in Codes, Reserve(v, code)
    PROVE  Covered(c)'
  <1>1. CASE login' = login
    <2>1. Reservable(c)' => Reservable(c)
      <3>1. CASE codeEntry' = NoEntry
        BY <3>1, LoginCodesAssumption DEF Reservable, NoEntry, LoginCodesAssumption
      <3>2. CASE codeEntry' = [codeEntry EXCEPT !.failed = @ + 1]
        BY <3>2, Records DEF Reservable, LoginInv
      <3>3. CASE login' = [login EXCEPT ![v] = [stage |-> "reserved", code |-> code]]
        <4>1. login'[v].stage = "reserved" /\ login[v].stage = "idle"
          BY <3>3 DEF Reserve, Idle, LoginInv, CodesTypeOK
        <4>. QED BY <1>1, <4>1
      <3>. QED BY <3>1, <3>2, <3>3 DEF Reserve
    <2>. QED BY <1>1, <2>1, StillCovered DEF Reserve
  <1>2. CASE /\ Reservable(code)
             /\ codeEntry' = [codeEntry EXCEPT !.consuming = TRUE]
             /\ login' = [login EXCEPT ![v] = [stage |-> "reserved", code |-> code]]
    <2>1. login[v] = Idle /\ codeEntry # NoEntry
      BY DEF Reserve
    <2>2. codeEntry' = [code |-> code, failed |-> codeEntry.failed,
                        consuming |-> TRUE, expired |-> codeEntry.expired]
      BY <1>2, <2>1 DEF LoginInv, CodesTypeOK, Reservable
    <2>3. ~Reservable(c)'
      BY <2>2 DEF Reservable
    <2>4. CASE c = code
      <3>1. v \notin Holders(c) /\ Holders(c)' = Holders(c) \cup {v}
        BY <1>2, <2>1, <2>4 DEF Holders, Idle, LoginInv, CodesTypeOK
      <3>2. Available(c) = 1 /\ Available(c)' = 0
        BY <1>2, <2>3, <2>4 DEF Available
      <3>3. Cardinality(Holders(c)') = Cardinality(Holders(c)) + 1
        BY <3>1, HolderJoins
      <3>. QED
        BY <3>2, <3>3, HoldersFinite, CoveredInNat DEF LoginInv, Covered, Reserve
    <2>5. CASE c # code
      <3>1. Holders(c)' = Holders(c)
        BY <1>2, <2>1, <2>5 DEF Holders, Idle, LoginInv, CodesTypeOK
      <3>2. Available(c)' = 0
        BY <2>3 DEF Available
      <3>. QED
        BY <3>1, <3>2, HoldersFinite, CoveredInNat DEF LoginInv, Covered, Reserve
    <2>. QED BY <2>4, <2>5
  <1>. QED BY <1>1, <1>2 DEF Reserve

(* Who is let in, or turned away, no longer holds the code.                *)
LEMMA AnswerCovered ==
    ASSUME LoginInv, CodesTypeOK', NEW c \in Codes, NEW v \in Visitors,
           NEW o \in {"opened", "refused", "error"}, AccountAnswers(v, o)
    PROVE  Covered(c)'
  <1>1. Available(c)' = Available(c) /\ storedTimes' = storedTimes
    BY DEF AccountAnswers, Available, Reservable
  <1>2. CASE o = "error" \/ c # login[v].code
    <2>1. Holders(c)' = Holders(c)
      BY <1>2 DEF Holders, AccountAnswers, LoginInv, CodesTypeOK, Idle
    <2>2. openedTimes'[c] = openedTimes[c]
      BY <1>2 DEF AccountAnswers, LoginInv, CodesTypeOK
    <2>. QED
      BY <1>1, <2>1, <2>2, HoldersFinite, CoveredInNat DEF LoginInv, Covered
  <1>3. CASE o # "error" /\ c = login[v].code
    <2>1. v \in Holders(c) /\ Holders(c)' = Holders(c) \ {v}
      BY <1>3 DEF Holders, AccountAnswers, LoginInv, CodesTypeOK, Idle
    <2>2. openedTimes'[c] \in {openedTimes[c], openedTimes[c] + 1}
      BY <1>3 DEF AccountAnswers, LoginInv, CodesTypeOK
    <2>3. Cardinality(Holders(c)') = Cardinality(Holders(c)) - 1
      BY <2>1, HolderLeaves
    <2>. QED
      BY <1>1, <2>2, <2>3, HoldersFinite, CoveredInNat DEF LoginInv, Covered
  <1>. QED BY <1>2, <1>3

(* A code that is given back is available again, if the entry still has    *)
(* it, and is no longer held.                                              *)
LEMMA SettleCovered ==
    ASSUME LoginInv, CodesTypeOK', NEW c \in Codes, NEW v \in Visitors, Settle(v)
    PROVE  Covered(c)'
  <1>1. openedTimes' = openedTimes /\ storedTimes' = storedTimes
    BY DEF Settle
  <1>2. CASE v \in Holders(c)
    <2>1. Holders(c)' = Holders(c) \ {v}
      BY <1>2 DEF Holders, Settle, LoginInv, CodesTypeOK, Idle
    <2>2. Cardinality(Holders(c)') = Cardinality(Holders(c)) - 1
      BY <1>2, <2>1, HolderLeaves
    <2>3. Available(c)' \in 0..1
      BY DEF Available
    <2>. QED
      BY <1>1, <2>2, <2>3, HoldersFinite, CoveredInNat DEF LoginInv, Covered
  <1>3. CASE v \notin Holders(c)
    <2>1. Holders(c)' = Holders(c)
      BY <1>3 DEF Holders, Settle, LoginInv, CodesTypeOK, Idle
    <2>2. Reservable(c)' => Reservable(c)
      <3>1. CASE codeEntry' = codeEntry
        BY <3>1 DEF Reservable
      <3>2. CASE codeEntry' = NoEntry
        BY <3>2, LoginCodesAssumption DEF Reservable, NoEntry, LoginCodesAssumption
      <3>3. CASE /\ login[v].stage = "error" /\ codeEntry.code = login[v].code
                 /\ codeEntry' = [codeEntry EXCEPT !.consuming = FALSE]
        <4>1. c # login[v].code
          BY <1>3, <3>3 DEF Holders
        <4>2. codeEntry'.code = codeEntry.code
          BY <3>3, Records DEF LoginInv
        <4>. QED BY <3>3, <4>1, <4>2 DEF Reservable
      <3>. QED BY <3>1, <3>2, <3>3 DEF Settle
    <2>3. Available(c)' \in 0..1 /\ Available(c)' <= Available(c)
      BY <2>2 DEF Available
    <2>. QED
      BY <1>1, <2>1, <2>3, HoldersFinite, CoveredInNat DEF LoginInv, Covered
  <1>. QED BY <1>2, <1>3

(* Storing a code makes it available and pays for it.                      *)
LEMMA StoreCovered ==
    ASSUME LoginInv, CodesTypeOK', NEW c \in Codes, StoreCode
    PROVE  Covered(c)'
  <1>1. Holders(c)' = Holders(c) /\ openedTimes' = openedTimes
    BY DEF StoreCode, Holders
  <1>2. CASE c = delivery.code
    <2>1. storedTimes'[c] = storedTimes[c] + 1
      BY <1>2 DEF StoreCode, LoginInv, CodesTypeOK
    <2>2. Available(c)' \in 0..1
      BY DEF Available
    <2>. QED
      BY <1>1, <2>1, <2>2, HoldersFinite, CoveredInNat DEF LoginInv, Covered
  <1>3. CASE c # delivery.code
    <2>1. storedTimes'[c] = storedTimes[c]
      BY <1>3 DEF StoreCode, LoginInv, CodesTypeOK
    <2>2. Available(c)' = 0
      BY <1>3 DEF StoreCode, Available, Reservable, NoEntry
    <2>. QED
      BY <1>1, <2>1, <2>2, HoldersFinite, CoveredInNat DEF LoginInv, Covered
  <1>. QED BY <1>2, <1>3

(* A restart takes the entry and all holders away.                         *)
LEMMA RestartCovered ==
    ASSUME LoginInv, CodesTypeOK', NEW c \in Codes, RestartServer
    PROVE  Covered(c)'
  <1>1. Holders(c)' = {}
    BY DEF RestartServer, Holders, Idle
  <1>2. Available(c)' = 0
    BY LoginCodesAssumption
       DEF RestartServer, Available, Reservable, NoEntry, LoginCodesAssumption
  <1>3. Cardinality(Holders(c)') = 0
    BY <1>1, FS_EmptySet
  <1>. QED
    BY <1>2, <1>3, HoldersFinite, CoveredInNat DEF LoginInv, Covered, RestartServer

-----------------------------------------------------------------------------
(* The account is an invariant.                                            *)
LEMMA LoginInvInductive ==
    ASSUME LoginInv, [CodesNext]_lcVars
    PROVE  LoginInv'
  <1>1. CodesTypeOK'
    BY CodesTyped DEF LoginInv
  <1>2. ASSUME NEW c \in Codes PROVE Covered(c)'
    <2>1. ASSUME NEW ip \in Addresses, RequestCode(ip) PROVE Covered(c)'
      <3>1. Reservable(c)' => Reservable(c)
        BY <2>1, LoginCodesAssumption
           DEF RequestCode, Cleaned, Reservable, NoEntry, LoginCodesAssumption
      <3>. QED BY <1>1, <2>1, <3>1, StillCovered DEF RequestCode
    <2>2. CASE TakeJob
      BY <1>1, <2>2, StillCovered DEF TakeJob, Reservable
    <2>3. ASSUME NEW d \in Codes, SendMail(d) PROVE Covered(c)'
      BY <1>1, <2>3, StillCovered DEF SendMail, Reservable
    <2>4. CASE GiveUp
      BY <1>1, <2>4, StillCovered DEF GiveUp, Reservable
    <2>5. CASE CodeExpires
      <3>1. Reservable(c)' => Reservable(c)
        BY <2>5 DEF CodeExpires, Reservable, LoginInv, CodesTypeOK
      <3>. QED BY <1>1, <2>5, <3>1, StillCovered DEF CodeExpires
    <2>6. ASSUME NEW ip \in Addresses, CooldownEnds(ip) PROVE Covered(c)'
      BY <1>1, <2>6, StillCovered DEF CooldownEnds, Reservable
    <2>7. CASE UNCHANGED lcVars
      BY <1>1, <2>7, StillCovered DEF lcVars, Reservable
    <2>. QED
      BY <1>1, <2>1, <2>2, <2>3, <2>4, <2>5, <2>6, <2>7, ReserveCovered,
         AnswerCovered, SettleCovered, StoreCovered, RestartCovered
         DEF CodesNext
  <1>. QED BY <1>1, <1>2 DEF LoginInv

LEMMA LoginInvInitially == CodesInit => LoginInv
  <1>. SUFFICES ASSUME CodesInit PROVE LoginInv
    OBVIOUS
  <1>1. CodesTypeOK
    BY LoginCodesAssumption DEF CodesInit, CodesTypeOK, Idle, LoginCodesAssumption
  <1>2. ASSUME NEW c \in Codes PROVE Covered(c)
    <2>1. Holders(c) = {}
      BY DEF CodesInit, Holders, Idle
    <2>2. Cardinality(Holders(c)) = 0
      BY <2>1, FS_EmptySet
    <2>3. Available(c) = 0
      BY LoginCodesAssumption
         DEF CodesInit, Available, Reservable, NoEntry, LoginCodesAssumption
    <2>. QED BY <2>2, <2>3 DEF Covered, CodesInit
  <1>. QED BY <1>1, <1>2 DEF LoginInv

(* A code lets in at most as often as it was stored, which is once for     *)
(* every mail with it, whatever overlaps (Service.Login, deliverCode).     *)
THEOREM CodeLetsInOnce == CodesSpec => []LoginOnce
  <1>1. LoginInv => LoginOnce
    <2>. SUFFICES ASSUME LoginInv, NEW c \in Codes
                  PROVE  openedTimes[c] <= storedTimes[c]
      BY DEF LoginOnce
    <2>. QED BY HoldersFinite, CoveredInNat DEF LoginInv, Covered
  <1>. QED
    BY <1>1, LoginInvInitially, LoginInvInductive, PTL DEF CodesSpec

(* The type of the login codes: an entry that is stored has an attempt     *)
(* left, and no more mails wait than the queue has room for (Service.Login, *)
(* Service.RequestCode).                                                   *)
THEOREM CodesTypeCorrect == CodesSpec => []CodesTypeOK
  <1>1. LoginInv => CodesTypeOK
    BY DEF LoginInv
  <1>. QED
    BY <1>1, LoginInvInitially, LoginInvInductive, PTL DEF CodesSpec

-----------------------------------------------------------------------------
(*************************************************************************)
(* Reminders: no occurrence is announced twice to the same person, for any *)
(* number of tasks, users and schedules and whatever users do meanwhile. *)
(*                                                                       *)
(* What keeps a message from being sent again is not the set of messages *)
(* but the row: once an occurrence has been announced, the next one of the *)
(* row is later, and every change by a user leaves it later than now.    *)
(*************************************************************************)
(* Every message is of an occurrence that has passed and that the schedule *)
(* has left behind.                                                        *)
MessagesPassed ==
    \A m \in reminded : m.at <= clock /\ m.at < reminder[m.id].next

(* The type of the reminders, and what announcing once rests on: the       *)
(* worker's clock is never ahead, and nothing was sent twice.              *)
RemindersInv ==
    RemindersTypeOK /\ worker.now <= clock /\ MessagesPassed /\ ~repeated

-----------------------------------------------------------------------------
(* Instants.                                                               *)

\* A non-empty set of numbers has a least one.
LEMMA LeastNumber ==
    ASSUME NEW T, T \subseteq Nat, T # {}
    PROVE  \E m \in T : \A j \in T : m <= j
  <1>1. PICK m \in T : \A j \in T : <<j, m>> \notin OpToRel(<, Nat)
    BY NatLessThanWellFounded, WFMin
  <1>2. \A j \in T : ~(j < m)
    BY <1>1 DEF OpToRel
  <1> QED BY <1>2

\* A non-empty set of instants has a first one, and a last one.
LEMMA FirstAndLast ==
    ASSUME NEW S, S \subseteq 1..MaxTime, S # {}
    PROVE  /\ \E o \in S : \A p \in S : o <= p
           /\ \E o \in S : \A p \in S : p <= o
  <1>0. MaxTime \in Nat
    BY RemindersAssumption
  <1>1. S \subseteq Nat
    BY <1>0
  <1>2. \E o \in S : \A p \in S : o <= p
    BY <1>1, LeastNumber
  <1> DEFINE T == {MaxTime - p : p \in S}
  <1>3. PICK d \in T : \A e \in T : d <= e
    <2>1. T # {}
      OBVIOUS
    <2>2. ASSUME NEW e \in T PROVE e \in Nat
      <3>1. PICK p \in S : e = MaxTime - p
        OBVIOUS
      <3>2. p \in 1..MaxTime
        OBVIOUS
      <3> HIDE DEF T
      <3> QED BY <1>0, <3>1, <3>2
    <2> HIDE DEF T
    <2> QED BY <2>1, <2>2, LeastNumber
  <1>4. PICK l \in S : d = MaxTime - l
    OBVIOUS
  <1>5. ASSUME NEW p \in S PROVE p <= l
    <2>1. MaxTime - l <= MaxTime - p
      BY <1>3, <1>4
    <2>2. p \in Int /\ l \in Int
      BY <1>1
    <2> QED BY <1>0, <2>1, <2>2
  <1> QED BY <1>2, <1>5

\* What comes next is later, and no later than never.
LEMMA NextIsLater ==
    ASSUME NEW schedule, schedule \subseteq 1..MaxTime, NEW at \in 0..MaxTime
    PROVE  /\ NextOccurrence(schedule, at) \in 1..Never
           /\ at < NextOccurrence(schedule, at)
  <1> DEFINE later == {o \in schedule : o > at}
  <1>0. MaxTime \in Nat
    BY RemindersAssumption
  <1>1. CASE later = {}
    BY <1>0, <1>1 DEF NextOccurrence, Never
  <1>2. CASE later # {}
    <2>1. \E o \in later : \A p \in later : o <= p
      <3>1. later \subseteq 1..MaxTime
        OBVIOUS
      <3> HIDE DEF later
      <3> QED BY <1>2, <3>1, FirstAndLast
    <2>2. NextOccurrence(schedule, at) = CHOOSE o \in later : \A p \in later : o <= p
      BY <1>2 DEF NextOccurrence
    <2> DEFINE next == NextOccurrence(schedule, at)
    <2>3. next \in later
      <3> HIDE DEF later
      <3> QED BY <2>1, <2>2
    <2>4. next \in 1..MaxTime /\ at < next
      <3> HIDE DEF next
      <3> QED BY <2>3
    <2> HIDE DEF next
    <2>5. next \in 1..Never /\ at < next
      BY <1>0, <2>4 DEF Never
    <2> QED BY <2>5 DEF next
  <1> QED BY <1>1, <1>2

\* What a message announces has passed, and was due.
LEMMA LatestHasPassed ==
    ASSUME NEW schedule, schedule \subseteq 1..MaxTime, NEW at \in 0..MaxTime,
           NEW due \in 1..Never, due <= at
    PROVE  /\ LatestOccurrence(schedule, at, due) \in 1..MaxTime
           /\ due <= LatestOccurrence(schedule, at, due)
           /\ LatestOccurrence(schedule, at, due) <= at
  <1> DEFINE earlier == {o \in schedule : due <= o /\ o <= at}
  <1>0. MaxTime \in Nat
    BY RemindersAssumption
  <1>1. CASE earlier = {}
    BY <1>0, <1>1 DEF LatestOccurrence, Never
  <1>2. CASE earlier # {}
    <2>1. \E o \in earlier : \A p \in earlier : p <= o
      <3>1. earlier \subseteq 1..MaxTime
        OBVIOUS
      <3> HIDE DEF earlier
      <3> QED BY <1>2, <3>1, FirstAndLast
    <2>2. LatestOccurrence(schedule, at, due)
            = CHOOSE o \in earlier : \A p \in earlier : p <= o
      BY <1>2 DEF LatestOccurrence
    <2>3. LatestOccurrence(schedule, at, due) \in earlier
      <3> HIDE DEF earlier
      <3> QED BY <2>1, <2>2
    <2> QED BY <1>0, <2>3 DEF Never
  <1> QED BY <1>1, <1>2

-----------------------------------------------------------------------------
(* The rows of tasks and of reminders, and the worker.                     *)
TaskRows == [present : BOOLEAN, open : BOOLEAN, assignee : Users \cup {NoUser}]
Rows == [schedule : Schedules \cup {{}}, next : 1..Never, waits : BOOLEAN,
         fails : 0..LongAfter]

(* How rows and the worker are changed.                                    *)
NextIs(r, n) == [r EXCEPT !.next = n, !.waits = FALSE, !.fails = 0]
WaitsAfter(r, f) == [r EXCEPT !.waits = TRUE, !.fails = f]
Looks(w, a, n) == [w EXCEPT !.stage = "look", !.attempted = a, !.now = n]
Stops(w, st, t, d) == [w EXCEPT !.stage = st, !.id = t, !.due = d]
GoesOn(w) == [w EXCEPT !.stage = "batch"]

\* They stay what they are.
LEMMA RowStays ==
    ASSUME NEW r \in Rows, NEW n \in 1..Never, NEW f \in 0..LongAfter
    PROVE  /\ NextIs(r, n) \in Rows /\ NextIs(r, n).next = n
           /\ WaitsAfter(r, f) \in Rows /\ WaitsAfter(r, f).next = r.next
           /\ r.next \in 1..Never
  <1> DEFINE S == Schedules \cup {{}}
             N == 1..Never
             B == BOOLEAN
             F == 0..LongAfter
  <1>1. Rows = [schedule : S, next : N, waits : B, fails : F]
    BY DEF Rows
  <1>2. r \in Rows /\ n \in N /\ f \in F /\ 0 \in F /\ TRUE \in B /\ FALSE \in B
    BY RemindersAssumption
  <1> HIDE DEF S, N, B, F
  <1>3. NextIs(r, n) \in Rows /\ NextIs(r, n).next = n
    BY <1>1, <1>2 DEF NextIs
  <1>4. WaitsAfter(r, f) \in Rows /\ WaitsAfter(r, f).next = r.next
    BY <1>1, <1>2 DEF WaitsAfter
  <1>5. r.next \in N
    BY <1>1, <1>2
  <1> QED BY <1>3, <1>4, <1>5 DEF N

Workers == [stage : {"asleep", "batch", "look", "failed"}, attempted : 0..Limit,
            now : 0..MaxTime, id : Tasks \cup {NoTask}, due : 1..Never]

\* The worker goes on with its batch.
LEMMA WorkerGoesOn ==
    ASSUME NEW w \in Workers
    PROVE  GoesOn(w) \in Workers /\ GoesOn(w).now = w.now
  <1> DEFINE S == {"asleep", "batch", "look", "failed"}
             A == 0..Limit
             N == 0..MaxTime
             T == Tasks \cup {NoTask}
             D == 1..Never
  <1>1. Workers = [stage : S, attempted : A, now : N, id : T, due : D]
    BY DEF Workers
  <1>2. w \in Workers /\ "batch" \in S
    OBVIOUS
  <1> HIDE DEF S, A, N, T, D
  <1> QED BY <1>1, <1>2 DEF GoesOn

\* The worker has read the clock and looks for what is due.
LEMMA WorkerLooks ==
    ASSUME NEW w \in Workers, NEW a \in 0..Limit, NEW n \in 0..MaxTime
    PROVE  Looks(w, a, n) \in Workers /\ Looks(w, a, n).now = n
  <1> DEFINE S == {"asleep", "batch", "look", "failed"}
             A == 0..Limit
             N == 0..MaxTime
             T == Tasks \cup {NoTask}
             D == 1..Never
  <1>1. Workers = [stage : S, attempted : A, now : N, id : T, due : D]
    BY DEF Workers
  <1>2. w \in Workers /\ "look" \in S /\ a \in A /\ n \in N
    OBVIOUS
  <1> HIDE DEF S, A, N, T, D
  <1> QED BY <1>1, <1>2 DEF Looks

\* The worker has something in hand, or sleeps.
LEMMA WorkerStops ==
    ASSUME NEW w \in Workers, NEW st \in {"batch", "failed"},
           NEW t \in Tasks \cup {NoTask}, NEW d \in 1..Never
    PROVE  Stops(w, st, t, d) \in Workers /\ Stops(w, st, t, d).now = w.now
  <1> DEFINE S == {"asleep", "batch", "look", "failed"}
             A == 0..Limit
             N == 0..MaxTime
             T == Tasks \cup {NoTask}
             D == 1..Never
  <1>1. Workers = [stage : S, attempted : A, now : N, id : T, due : D]
    BY DEF Workers
  <1>2. w \in Workers /\ st \in S /\ t \in T /\ d \in D
    OBVIOUS
  <1> HIDE DEF S, A, N, T, D
  <1> QED BY <1>1, <1>2 DEF Stops

\* The row of a task and the clock, by themselves.
LEMMA RowFacts ==
    ASSUME RemindersInv, NEW t \in Tasks
    PROVE  /\ reminder[t] \in Rows /\ reminder[t].schedule \subseteq 1..MaxTime
           /\ task[t].open \in BOOLEAN /\ task[t].assignee \in Users \cup {NoUser}
           /\ clock \in 0..MaxTime /\ worker.now \in 0..MaxTime
           /\ MaxTime \in Nat /\ Never = MaxTime + 1
  <1>1. reminder[t] \in Rows
    BY DEF RemindersInv, RemindersTypeOK, Rows
  <1>2. reminder[t].schedule \subseteq 1..MaxTime
    BY <1>1, RemindersAssumption DEF Rows
  <1> QED BY <1>1, <1>2, RemindersAssumption DEF RemindersInv, RemindersTypeOK, Never

\* A row changes to one that is next after now, or never; nothing is sent.
LEMMA RowChanged ==
    ASSUME RemindersInv, NEW t \in Tasks, NEW row \in Rows,
           row.next > clock \/ row.next = reminder[t].next,
           reminder' = [reminder EXCEPT ![t] = row],
           UNCHANGED <<clock, reminded, repeated>>
    PROVE  /\ reminder' \in [Tasks -> Rows] /\ MessagesPassed'
  <1>1. reminder' \in [Tasks -> Rows]
    BY DEF RemindersInv, RemindersTypeOK, Rows
  <1>2. ASSUME NEW m \in reminded PROVE m.at <= clock /\ m.at < reminder'[m.id].next
    <2>1. m.id \in Tasks /\ m.at \in Nat /\ m.at <= clock /\ m.at < reminder[m.id].next
      BY RemindersAssumption DEF RemindersInv, RemindersTypeOK, MessagesPassed
    <2>2. CASE m.id # t
      BY <2>1, <2>2 DEF RemindersInv, RemindersTypeOK
    <2>3. CASE m.id = t
      <3>1. reminder'[m.id] = row
        BY <2>3 DEF RemindersInv, RemindersTypeOK
      <3>2. row.next \in Nat /\ clock \in Nat
        BY RowFacts DEF Rows
      <3> QED BY <2>1, <2>3, <3>1, <3>2
    <2> QED BY <2>2, <2>3
  <1> QED BY <1>1, <1>2 DEF MessagesPassed

\* So do steps that change no row.
LEMMA RowsSame ==
    ASSUME RemindersInv, reminder' = reminder, reminded' = reminded,
           clock' \in Nat, clock <= clock'
    PROVE  MessagesPassed'
  <1>1. ASSUME NEW m \in reminded PROVE m.at <= clock'
    <2>1. m.at \in Nat /\ m.at <= clock /\ clock \in Nat
      BY <1>1, RemindersAssumption DEF RemindersInv, RemindersTypeOK, MessagesPassed
    <2> QED BY <2>1
  <1> QED BY <1>1 DEF RemindersInv, MessagesPassed

-----------------------------------------------------------------------------
\* What users do: whatever they set is next after now.
LEMMA UserInv ==
    ASSUME RemindersInv, UserStep
    PROVE  RemindersInv'
  <1> USE DEF Change
  <1>1. /\ UNCHANGED <<clock, reminded, repeated, failures>>
        /\ changes' = changes + 1 /\ changes < MaxChanges
        /\ worker' \in {worker, Asleep}
    BY DEF UserStep, SkipLocked, RemoveReminder, SetStatus, DeleteTask, SetReminder, Assign
  <1>2. clock \in 0..MaxTime /\ MaxTime \in Nat /\ Never = MaxTime + 1 /\ NoReminder \in Rows
        /\ NoReminder.next > clock
    BY RemindersAssumption DEF RemindersInv, RemindersTypeOK, Never, NoReminder, Rows
  <1>3. reminder' \in [Tasks -> Rows] /\ MessagesPassed'
    <2>1. CASE reminder' = reminder
      BY <1>1, <1>2, <2>1, RowsSame DEF RemindersInv, RemindersTypeOK, Rows
    <2>2. ASSUME NEW t \in Tasks, RemoveReminder(t) \/ DeleteTask(t)
          PROVE  reminder' \in [Tasks -> Rows] /\ MessagesPassed'
      <3>1. reminder' = [reminder EXCEPT ![t] = NoReminder]
        BY <2>2 DEF RemoveReminder, DeleteTask
      <3> QED BY <1>1, <1>2, <3>1, RowChanged
    <2>3. ASSUME NEW t \in Tasks, NEW s \in Schedules, SetReminder(t, s)
          PROVE  reminder' \in [Tasks -> Rows] /\ MessagesPassed'
      <3> DEFINE next == IF task[t].open THEN NextOccurrence(s, clock) ELSE Never
                 row == [schedule |-> s, waits |-> FALSE, fails |-> 0, next |-> next]
      <3>1. s \subseteq 1..MaxTime
        BY RemindersAssumption
      <3>2. NextOccurrence(s, clock) \in 1..Never /\ NextOccurrence(s, clock) > clock
        BY <1>2, <3>1, NextIsLater
      <3>3. next \in 1..Never /\ next > clock
        BY <1>2, <3>2
      <3>4. reminder' = [reminder EXCEPT ![t] = row]
        BY <2>3 DEF SetReminder
      <3> HIDE DEF next
      <3>5. row \in Rows /\ row.next > clock
        BY <3>3, RemindersAssumption DEF Rows
      <3> HIDE DEF row
      <3> QED BY <1>1, <3>4, <3>5, RowChanged
    <2>4. ASSUME NEW t \in Tasks, SetStatus(t), reminder' # reminder
          PROVE  reminder' \in [Tasks -> Rows] /\ MessagesPassed'
      <3> DEFINE next == IF task[t].open THEN Never
                         ELSE NextOccurrence(reminder[t].schedule, clock)
                 row == NextIs(reminder[t], next)
      <3>1. reminder[t] \in Rows /\ reminder[t].schedule \subseteq 1..MaxTime
        BY RowFacts
      <3>2. /\ NextOccurrence(reminder[t].schedule, clock) \in 1..Never
            /\ NextOccurrence(reminder[t].schedule, clock) > clock
        BY <1>2, <3>1, NextIsLater
      <3>3. next \in 1..Never /\ next > clock
        BY <1>2, <3>2
      <3>4. reminder' = [reminder EXCEPT ![t].next = next, ![t].waits = FALSE, ![t].fails = 0]
        BY <2>4 DEF SetStatus
      <3> HIDE DEF next
      <3>5. reminder' = [reminder EXCEPT ![t] = row]
        BY <3>4 DEF RemindersInv, RemindersTypeOK, NextIs
      <3>6. row \in Rows /\ row.next > clock
        BY <3>1, <3>3, RowStays, RemindersAssumption
      <3> HIDE DEF row
      <3> QED BY <1>1, <3>5, <3>6, RowChanged
    <2> QED BY <2>1, <2>2, <2>3, <2>4 DEF UserStep, SkipLocked, Assign
  <1>4. task' \in [Tasks -> [present : BOOLEAN, open : BOOLEAN, assignee : Users \cup {NoUser}]]
    <2> USE DEF RemindersInv, RemindersTypeOK
    <2>1. CASE task' = task
      BY <2>1
    <2>2. ASSUME NEW t \in Tasks, SetStatus(t) \/ DeleteTask(t)
          PROVE  task' \in [Tasks -> TaskRows]
      <3>1. task[t] \in TaskRows /\ task \in [Tasks -> TaskRows]
        BY DEF TaskRows
      <3>2. \A b \in BOOLEAN : /\ [task[t] EXCEPT !.open = b] \in TaskRows
                              /\ [task[t] EXCEPT !.present = b] \in TaskRows
        BY <3>1 DEF TaskRows
      <3>3. \/ task' = [task EXCEPT ![t] = [task[t] EXCEPT !.open = ~task[t].open]]
            \/ task' = [task EXCEPT ![t] = [task[t] EXCEPT !.present = FALSE]]
        BY <2>2 DEF SetStatus, DeleteTask
      <3>4. (~task[t].open) \in BOOLEAN
        OBVIOUS
      <3> QED BY <3>1, <3>2, <3>3, <3>4
    <2>3. ASSUME NEW t \in Tasks, NEW u \in Users \cup {NoUser}, Assign(t, u)
          PROVE  task' \in [Tasks -> TaskRows]
      BY <2>3 DEF Assign, TaskRows
    <2> QED BY <2>1, <2>2, <2>3
            DEF UserStep, SkipLocked, RemoveReminder, SetReminder, TaskRows
  <1>5. worker' \in [stage : {"asleep", "batch", "look", "failed"}, attempted : 0..Limit,
                     now : 0..MaxTime, id : Tasks \cup {NoTask}, due : 1..Never]
        /\ worker'.now <= clock
    BY <1>1, <1>2, RemindersAssumption DEF RemindersInv, RemindersTypeOK, Asleep
  <1>6. changes' \in 0..MaxChanges
    BY <1>1, RemindersAssumption DEF RemindersInv, RemindersTypeOK
  <1> QED BY <1>1, <1>3, <1>4, <1>5, <1>6 DEF RemindersInv, RemindersTypeOK, Rows

-----------------------------------------------------------------------------
\* Steps of the worker that send nothing.
LEMMA WorkerInv ==
    ASSUME RemindersInv, Tick \/ ReadClock \/ NothingDue \/ RecordFailure \/ WorkerFails
           \/ \E t \in Tasks : HandleFails(t)
    PROVE  RemindersInv'
  <1> USE RemindersAssumption
  <1>1. UNCHANGED <<clock, task, reminded, repeated, changes>>
    BY DEF Tick, ReadClock, NothingDue, RecordFailure, WorkerFails, HandleFails
  <1>2. /\ worker \in Workers /\ clock \in 0..MaxTime /\ worker.now <= clock
        /\ Never = MaxTime + 1 /\ reminder \in [Tasks -> Rows]
        /\ failures \in 0..MaxFailures
    BY DEF RemindersInv, RemindersTypeOK, Workers, Rows, Never
  <1>3. failures' \in 0..MaxFailures
    <2>1. failures' = failures \/ (failures < MaxFailures /\ failures' = failures + 1)
      BY DEF Tick, ReadClock, NothingDue, RecordFailure, WorkerFails, HandleFails
    <2> QED BY <1>2, <2>1
  <1>4. worker' \in Workers /\ worker'.now <= clock
    <2>1. Asleep \in Workers /\ Asleep.now <= clock
      BY <1>2 DEF Asleep, Workers
    <2>2. CASE ReadClock /\ worker.attempted # Limit
      <3>1. worker' = Looks(worker, worker.attempted + 1, clock)
        BY <2>2 DEF ReadClock, Looks
      <3>2. worker.attempted + 1 \in 0..Limit
        BY <1>2, <2>2 DEF Workers
      <3>3. worker' \in Workers /\ worker'.now = clock
        BY <1>2, <3>1, <3>2, WorkerLooks
      <3> QED BY <1>2, <3>3
    <2>3. CASE Tick
      <3>1. worker' = [stage |-> "batch", attempted |-> 0, now |-> 0, id |-> NoTask,
                       due |-> Never]
        BY <2>3 DEF Tick, Asleep
      <3> QED BY <1>2, <3>1 DEF Workers
    <2>4. CASE worker' = [worker EXCEPT !.stage = "batch", !.id = NoTask, !.due = Never]
      <3>1. NoTask \in Tasks \cup {NoTask} /\ Never \in 1..Never
        BY <1>2
      <3>2. worker' = Stops(worker, "batch", NoTask, Never)
        BY <2>4 DEF Stops
      <3>3. worker' \in Workers /\ worker'.now = worker.now
        BY <1>2, <3>1, <3>2, WorkerStops
      <3> QED BY <1>2, <3>3
    <2>5. ASSUME NEW t \in Tasks, HandleFails(t)
          PROVE  worker' \in Workers /\ worker'.now <= clock
      <3>1. worker' = Stops(worker, "failed", t, reminder[t].next)
        BY <2>5 DEF HandleFails, Stops
      <3>2. reminder[t].next \in 1..Never /\ t \in Tasks \cup {NoTask}
        BY <1>2 DEF Rows
      <3>3. worker' \in Workers /\ worker'.now = worker.now
        BY <1>2, <3>1, <3>2, WorkerStops
      <3> QED BY <1>2, <3>3
    <2>6. CASE worker' = Asleep
      BY <2>1, <2>6
    <2> QED BY <2>2, <2>3, <2>4, <2>5, <2>6
            DEF ReadClock, NothingDue, RecordFailure, WorkerFails
  <1>5. reminder' \in [Tasks -> Rows] /\ MessagesPassed'
    <2>1. CASE reminder' = reminder
      BY <1>1, <1>2, <2>1, RowsSame
    <2>2. CASE RecordFailure /\ worker.id \in Tasks /\ reminder' # reminder
      <3> DEFINE t == worker.id
                 n == IF reminder[t].fails = LongAfter THEN reminder[t].fails
                      ELSE reminder[t].fails + 1
                 row == WaitsAfter(reminder[t], n)
      <3>1. reminder[t] \in Rows
        BY <1>2, <2>2
      <3>2. n \in 0..LongAfter
        BY <3>1 DEF Rows
      <3>3. reminder' = [reminder EXCEPT ![t].waits = TRUE, ![t].fails = n]
        BY <2>2 DEF RecordFailure
      <3> HIDE DEF n
      <3>4. reminder' = [reminder EXCEPT ![t] = row]
        BY <1>2, <2>2, <3>3 DEF WaitsAfter
      <3>5. 1 \in 1..Never
        BY <1>2
      <3>6. row \in Rows /\ row.next = reminder[t].next
        BY <3>1, <3>2, <3>5, RowStays
      <3> HIDE DEF row
      <3> QED BY <1>1, <2>2, <3>4, <3>6, RowChanged
    <2>3. CASE RecordFailure /\ worker.id \notin Tasks
      <3>1. reminder' = reminder
        BY <1>2, <2>3 DEF RecordFailure
      <3> QED BY <2>1, <3>1
    <2> QED BY <2>1, <2>2, <2>3 DEF Tick, ReadClock, NothingDue, RecordFailure, WorkerFails,
                                    HandleFails
  <1> QED BY <1>1, <1>2, <1>3, <1>4, <1>5 DEF RemindersInv, RemindersTypeOK, Rows, Workers

\* The transaction of the worker: what it announces has not been announced,
\* and is behind what is next.
LEMMA HandleInv ==
    ASSUME RemindersInv, NEW t \in Tasks, Handle(t)
    PROVE  RemindersInv'
  <1> USE RemindersAssumption
  <1> DEFINE now == worker.now
             old == reminder[t]
             at == LatestOccurrence(old.schedule, now, old.next)
             next == IF task[t].open THEN NextOccurrence(old.schedule, now) ELSE Never
             row == NextIs(old, next)
             m == [id |-> t, to |-> task[t].assignee, at |-> at]
  <1>1. /\ old \in Rows /\ old.schedule \subseteq 1..MaxTime
        /\ clock \in 0..MaxTime /\ now \in 0..MaxTime /\ now <= clock
        /\ Never = MaxTime + 1 /\ reminder \in [Tasks -> Rows]
        /\ worker \in Workers /\ failures \in 0..MaxFailures
        /\ old.next \in 1..Never /\ old.next <= now
    BY RowFacts DEF RemindersInv, RemindersTypeOK, Handle, Earliest, Due, Rows, Workers
  <1>2. at \in 1..MaxTime /\ old.next <= at /\ at <= now
    BY <1>1, LatestHasPassed
  <1>3. next \in 1..Never /\ now < next
    BY <1>1, NextIsLater
  <1>4. UNCHANGED <<clock, task, changes>>
        /\ reminder' = [reminder EXCEPT ![t].next = next, ![t].waits = FALSE, ![t].fails = 0]
        /\ \/ /\ task[t].open /\ task[t].assignee # NoUser /\ reminded' = reminded \cup {m}
              /\ repeated' = (repeated \/ \E k \in reminded, n \in {m} :
                                            k # n /\ k.id = n.id /\ k.at = n.at)
           \/ UNCHANGED <<reminded, repeated>>
    BY DEF Handle, Remind, Message
  <1> HIDE DEF at, next
  <1>5. reminder' = [reminder EXCEPT ![t] = row]
    BY <1>1, <1>4 DEF NextIs
  <1>6. row \in Rows /\ row.next = next
    BY <1>1, <1>3, RowStays
  <1>7. ASSUME NEW k \in reminded
        PROVE  /\ k.id \in Tasks /\ k.at \in Nat /\ k.at <= clock
               /\ k.at < reminder[k.id].next
               /\ k.id = t => k.at < old.next
    BY DEF RemindersInv, RemindersTypeOK, MessagesPassed
  <1>8. ASSUME NEW k \in reminded PROVE k.at <= clock /\ k.at < reminder'[k.id].next
    <2> HIDE DEF row
    <2>1. CASE k.id = t
      BY <1>1, <1>3, <1>5, <1>6, <1>7, <2>1
    <2>2. CASE k.id # t
      BY <1>1, <1>5, <1>7, <2>2
    <2> QED BY <2>1, <2>2
  <1>9. m.at <= clock /\ m.at < reminder'[m.id].next
    <2>1. m.at = at /\ m.id = t /\ reminder'[t] = row
      BY <1>1, <1>5
    <2> HIDE DEF row, m
    <2> QED BY <1>1, <1>2, <1>3, <1>6, <2>1
  <1>10. MessagesPassed'
    <2> HIDE DEF m
    <2> QED BY <1>4, <1>8, <1>9 DEF MessagesPassed
  <1>11. ~repeated'
    <2>1. ASSUME NEW k \in reminded PROVE ~(k.id = m.id /\ k.at = m.at)
      <3>1. m.id = t /\ m.at = at
        OBVIOUS
      <3> HIDE DEF m
      <3> QED BY <1>1, <1>2, <1>7, <3>1
    <2> HIDE DEF m
    <2> QED BY <1>4, <2>1 DEF RemindersInv
  <1>12. reminded' \subseteq [id : Tasks, at : 1..MaxTime, to : Users]
    <2>1. task[t].assignee \in Users \cup {NoUser}
      BY RowFacts
    <2>2. task[t].assignee # NoUser => m \in [id : Tasks, at : 1..MaxTime, to : Users]
      BY <1>2, <2>1
    <2> HIDE DEF m
    <2> QED BY <1>4, <2>2 DEF RemindersInv, RemindersTypeOK
  <1>13. reminder' \in [Tasks -> Rows]
    <2> HIDE DEF row
    <2> QED BY <1>1, <1>5, <1>6
  <1>14. worker' \in Workers /\ worker'.now <= clock /\ failures' \in 0..MaxFailures
    <2>1. \/ worker' = GoesOn(worker) /\ failures' = failures
          \/ /\ failures < MaxFailures /\ failures' = failures + 1
             /\ worker' = Stops(worker, "failed", t, old.next)
      BY DEF Handle, GoesOn, Stops
    <2>2. worker' \in Workers /\ worker'.now = now
      <3>1. CASE worker' = GoesOn(worker)
        BY <1>1, <3>1, WorkerGoesOn
      <3>2. CASE worker' = Stops(worker, "failed", t, old.next)
        <4>1. t \in Tasks \cup {NoTask}
          OBVIOUS
        <4> QED BY <1>1, <3>2, <4>1, WorkerStops
      <3> QED BY <2>1, <3>1, <3>2
    <2>3. failures' \in 0..MaxFailures
      BY <1>1, <2>1
    <2> QED BY <1>1, <2>2, <2>3
  <1> QED BY <1>4, <1>10, <1>11, <1>12, <1>13, <1>14
          DEF RemindersInv, RemindersTypeOK, Rows, Workers

\* Time passes, and delays end.
LEMMA TimeInv ==
    ASSUME RemindersInv, TimePasses \/ \E t \in Tasks : DelayEnds(t)
    PROVE  RemindersInv'
  <1> USE RemindersAssumption
  <1>1. CASE TimePasses
    <2>1. clock \in Nat /\ clock' \in 0..MaxTime /\ clock <= clock'
          /\ UNCHANGED <<task, reminder, worker, reminded, repeated, changes, failures>>
      BY <1>1 DEF TimePasses, RemindersInv, RemindersTypeOK
    <2>2. MessagesPassed'
      BY <2>1, RowsSame
    <2>3. worker.now \in Nat /\ worker.now <= clock
      BY DEF RemindersInv, RemindersTypeOK
    <2> QED BY <2>1, <2>2, <2>3 DEF RemindersInv, RemindersTypeOK
  <1>2. ASSUME NEW t \in Tasks, DelayEnds(t) PROVE RemindersInv'
    <2> DEFINE row == [reminder[t] EXCEPT !.waits = FALSE]
    <2>1. reminder[t] \in Rows /\ row \in Rows /\ row.next = reminder[t].next
      BY RowFacts DEF Rows
    <2>2. reminder' = [reminder EXCEPT ![t] = row]
          /\ UNCHANGED <<clock, task, worker, reminded, repeated, changes, failures>>
      BY <1>2 DEF DelayEnds
    <2> HIDE DEF row
    <2>3. reminder' \in [Tasks -> Rows] /\ MessagesPassed'
      BY <2>1, <2>2, RowChanged
    <2> QED BY <2>2, <2>3 DEF RemindersInv, RemindersTypeOK, Rows
  <1> QED BY <1>1, <1>2

\* At the start.
LEMMA RemindersInvInitially ==
    ASSUME RemindersInit
    PROVE  RemindersInv
  <1> USE RemindersAssumption
  <1>1. reminder \in [Tasks -> Rows]
    <2>1. ASSUME NEW s \in Schedules
          PROVE  [schedule |-> s, next |-> NextOccurrence(s, 0), waits |-> FALSE, fails |-> 0]
                   \in Rows
      <3>1. NextOccurrence(s, 0) \in 1..Never
        <4>1. s \subseteq 1..MaxTime /\ 0 \in 0..MaxTime
          OBVIOUS
        <4> QED BY <4>1, NextIsLater
      <3> DEFINE n == NextOccurrence(s, 0)
      <3>2. n \in 1..Never /\ s \in Schedules \cup {{}} /\ 0 \in 0..LongAfter
        BY <3>1
      <3> HIDE DEF n
      <3>3. [schedule |-> s, next |-> n, waits |-> FALSE, fails |-> 0] \in Rows
        BY <3>2 DEF Rows
      <3> QED BY <3>3 DEF n
    <2> QED BY <2>1 DEF RemindersInit
  <1>2. worker \in Workers /\ worker.now <= clock
    BY DEF RemindersInit, Asleep, Workers, Never
  <1>3. task \in [Tasks -> TaskRows]
    <2> DEFINE u == CHOOSE someone \in Users : TRUE
    <2>1. u \in Users
      OBVIOUS
    <2>2. task = [t \in Tasks |-> [present |-> TRUE, open |-> TRUE, assignee |-> u]]
      BY DEF RemindersInit
    <2> HIDE DEF u
    <2>3. [present |-> TRUE, open |-> TRUE, assignee |-> u] \in TaskRows
      BY <2>1 DEF TaskRows
    <2> DEFINE first == [present |-> TRUE, open |-> TRUE, assignee |-> u]
    <2>4. first \in TaskRows /\ task = [t \in Tasks |-> first]
      BY <2>2, <2>3
    <2> HIDE DEF first
    <2> QED BY <2>4
  <1>4. /\ clock \in 0..MaxTime /\ changes \in 0..MaxChanges
        /\ failures \in 0..MaxFailures /\ repeated = FALSE /\ reminded = {}
    BY DEF RemindersInit
  <1>5. RemindersTypeOK
    BY <1>1, <1>2, <1>3, <1>4 DEF RemindersTypeOK, Rows, Workers, TaskRows
  <1> QED BY <1>2, <1>4, <1>5 DEF RemindersInv, MessagesPassed

\* The type of the reminders, and what comes with it.
THEOREM RemindersInvariant == RemindersSpec => []RemindersInv
  <1>1. RemindersInit => RemindersInv
    BY RemindersInvInitially
  <1>2. RemindersInv /\ [RemindersNext]_trVars => RemindersInv'
    <2> SUFFICES ASSUME RemindersInv, [RemindersNext]_trVars PROVE RemindersInv'
      OBVIOUS
    <2>1. CASE UserStep
      BY <2>1, UserInv
    <2>2. CASE WorkerStep \/ WorkerFails
      BY <2>2, WorkerInv, HandleInv DEF WorkerStep
    <2>3. CASE TimePasses \/ \E t \in Tasks : DelayEnds(t)
      BY <2>3, TimeInv
    <2>4. CASE UNCHANGED trVars
      BY <2>4 DEF trVars, RemindersInv, RemindersTypeOK, MessagesPassed
    <2> QED BY <2>1, <2>2, <2>3, <2>4 DEF RemindersNext
  <1> QED BY <1>1, <1>2, PTL DEF RemindersSpec

\* An occurrence is announced once, to one person, and not before its time.
THEOREM AnnouncedOnce == RemindersSpec => []RemindedOnce
  <1>1. RemindersInv => RemindedOnce
    BY DEF RemindersInv, MessagesPassed, RemindedOnce
  <1> QED BY <1>1, RemindersInvariant, PTL

\* The type of the reminders: a worker's batch is no larger than its limit, and
\* what is announced has an instant and a person (reminder_worker.go).
THEOREM RemindersTypeCorrect == RemindersSpec => []RemindersTypeOK
  <1>1. RemindersInv => RemindersTypeOK
    BY DEF RemindersInv
  <1> QED BY <1>1, RemindersInvariant, PTL
=============================================================================
