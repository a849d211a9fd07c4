--------------------------- MODULE PlatformProofs ---------------------------
(* Proofs about the components of MCPlatform that hold for every value of their *)
(* constants, and the properties of the run that follow from them.              *)
EXTENDS MCPlatform, FiniteSetTheorems, TLAPS

-----------------------------------------------------------------------------
(* AiCredits: what the counters say.                                         *)

Inv == TypeOK /\ CreditsAddUp

LEMMA Initially == Init => Inv
<1> SUFFICES ASSUME Init PROVE Inv
  OBVIOUS
<1>1. TypeOK
  BY CreditsAssumption DEF Init, TypeOK, Call, Months
<1>2. \A m \in Months : ChargedTo(m) = {}
  BY DEF Init, ChargedTo, Holding
<1>3. CreditsAddUp
  BY <1>2, FS_EmptySet DEF CreditsAddUp, Init
<1>4. QED BY <1>1, <1>3 DEF Inv

LEMMA ChargesAreFinite ==
  ASSUME NEW m
  PROVE  IsFiniteSet(ChargedTo(m)) /\ Cardinality(ChargedTo(m)) \in Nat
<1>1. IsFiniteSet(Calls)
  BY CreditsAssumption, FS_Union DEF Calls
<1>2. IsFiniteSet(ChargedTo(m))
  BY <1>1, FS_Subset DEF ChargedTo
<1>3. QED BY <1>2, FS_CardinalityType

-----------------------------------------------------------------------------
(* What a step may do to a counter and to the calls charged to it. *)

\* The fields of a call that decide whether, and to which month, it is charged.
Charged(c) == call[c].pc \in Holding \union {"paid", "lost"}

\* A step that leaves the counters, and who is charged to them, alone.
LEMMA CountersStay ==
  ASSUME Inv, used' = used,
         \A c \in Calls : /\ Charged(c)' <=> Charged(c)
                          /\ Charged(c) => call'[c].month = call[c].month
  PROVE  CreditsAddUp'
<1>1. \A m \in Months : ChargedTo(m)' = ChargedTo(m)
  BY DEF ChargedTo, Charged
<1>2. QED BY <1>1 DEF Inv, CreditsAddUp, Months

\* A step that takes a credit of month k for call c.
LEMMA CreditTaken ==
  ASSUME Inv, NEW c \in Calls, NEW k \in Months,
         used' = [used EXCEPT ![k] = @ + 1],
         ~Charged(c), Charged(c)', call'[c].month = k,
         \A d \in Calls \ {c} : call'[d] = call[d]
  PROVE  CreditsAddUp'
<1> SUFFICES ASSUME NEW m \in Months
             PROVE  used'[m] = Cardinality(ChargedTo(m)')
  BY DEF CreditsAddUp, Months
<1>1. used \in [Months -> Nat] /\ used[m] = Cardinality(ChargedTo(m))
  BY DEF Inv, TypeOK, CreditsAddUp
<1>2. CASE m = k
  <2>1. ChargedTo(m)' = ChargedTo(m) \union {c} /\ c \notin ChargedTo(m)
    BY <1>2 DEF ChargedTo, Charged
  <2>2. Cardinality(ChargedTo(m) \union {c}) = Cardinality(ChargedTo(m)) + 1
    BY <2>1, ChargesAreFinite, FS_AddElement
  <2>3. QED BY <1>1, <1>2, <2>1, <2>2
<1>3. CASE m # k
  <2>1. ChargedTo(m)' = ChargedTo(m)
    BY <1>3 DEF ChargedTo, Charged
  <2>2. QED BY <1>1, <1>3, <2>1
<1>4. QED BY <1>2, <1>3

\* A step that gives the credit of call c back to the month it was charged to.
LEMMA CreditReturned ==
  ASSUME Inv, NEW c \in Calls, NEW k \in Months,
         used' = [used EXCEPT ![k] = IF @ > 0 THEN @ - 1 ELSE @],
         Charged(c), ~Charged(c)', call[c].month = k,
         \A d \in Calls \ {c} : call'[d] = call[d]
  PROVE  used' \in [Months -> Nat] /\ CreditsAddUp'
<1>1. used \in [Months -> Nat]
  BY DEF Inv, TypeOK
<1>2. ASSUME NEW m \in Months
      PROVE  used'[m] = Cardinality(ChargedTo(m)')
  <2>1. used[m] = Cardinality(ChargedTo(m)) /\ used[m] \in Nat
    BY <1>1 DEF Inv, CreditsAddUp
  <2>2. CASE m = k
    <3>1. ChargedTo(m)' = ChargedTo(m) \ {c} /\ c \in ChargedTo(m)
      BY <2>2 DEF ChargedTo, Charged
    <3>2. Cardinality(ChargedTo(m) \ {c}) = Cardinality(ChargedTo(m)) - 1
      BY <3>1, ChargesAreFinite, FS_RemoveElement
    <3>3. ChargedTo(m) # {}
      BY <3>1
    <3>4. used[m] > 0
      BY <2>1, <3>3, ChargesAreFinite, FS_EmptySet
    <3>5. QED BY <1>1, <2>1, <2>2, <3>1, <3>2, <3>4
  <2>3. CASE m # k
    <3>1. ChargedTo(m)' = ChargedTo(m)
      BY <2>3 DEF ChargedTo, Charged
    <3>2. QED BY <1>1, <2>1, <2>3, <3>1
  <2>4. QED BY <2>2, <2>3
<1>3. used' \in [Months -> Nat]
  BY <1>1
<1>4. QED BY <1>2, <1>3 DEF CreditsAddUp, Months

-----------------------------------------------------------------------------
(* Every action keeps the types. *)

LEMMA SpendType ==
  ASSUME budget \in [Events -> Nat], NEW e \in Events, Spend(e)
  PROVE  budget' \in [Events -> Nat]
BY DEF Spend

PCs == {"idle"} \union InProgress \union Outcomes

LEMMA GotoType ==
  ASSUME TypeOK, NEW c \in Calls, NEW pc \in PCs, Goto(c, pc)
  PROVE  /\ call' \in [Calls -> Call]
         /\ call'[c].pc = pc /\ call'[c].month = call[c].month
         /\ \A d \in Calls \ {c} : call'[d] = call[d]
BY DEF TypeOK, Goto, Call, PCs

LEMMA StartType ==
  ASSUME TypeOK, NEW c \in Calls, NEW pc \in PCs, Start(c, pc)
  PROVE  /\ call' \in [Calls -> Call]
         /\ call'[c].pc = pc /\ call'[c].month = month
         /\ \A d \in Calls \ {c} : call'[d] = call[d]
BY DEF TypeOK, Start, Call, PCs

-----------------------------------------------------------------------------
(* One lemma per action. *)

LEMMA BeginKeeps ==
  ASSUME Inv, NEW c \in Calls, Begin(c)
  PROVE  Inv'
<1>1. PICK pc \in {"reserve", "ended"} : Start(c, pc)
  BY DEF Begin
<1>2. pc \in PCs
  BY DEF PCs, InProgress, Outcomes
<1>3. /\ call' \in [Calls -> Call]
      /\ call'[c].pc = pc /\ call'[c].month = month
      /\ \A d \in Calls \ {c} : call'[d] = call[d]
  BY <1>1, <1>2, StartType DEF Inv
<1>4. budget' \in [Events -> Nat]
  BY SpendType DEF Begin, Inv, TypeOK, Events
<1>5. TypeOK'
  BY <1>3, <1>4 DEF Begin, Inv, TypeOK, Months
<1>6. ~Charged(c) /\ ~Charged(c)'
  BY <1>3 DEF Begin, Charged, Holding
<1>7. CreditsAddUp'
  BY <1>3, <1>6, CountersStay DEF Begin, Charged
<1>8. QED BY <1>5, <1>7 DEF Inv

\* A step of call c along its program that leaves the counters alone and
\* neither charges the call nor discharges it.
LEMMA CallGoesOn ==
  ASSUME Inv, NEW c \in Calls, NEW pc \in PCs, Goto(c, pc),
         Charged(c) <=> pc \in Holding \union {"paid", "lost"},
         UNCHANGED <<limit, month, used>>, budget' \in [Events -> Nat]
  PROVE  Inv'
<1>1. /\ call' \in [Calls -> Call]
      /\ call'[c].pc = pc /\ call'[c].month = call[c].month
      /\ \A d \in Calls \ {c} : call'[d] = call[d]
  BY GotoType DEF Inv
<1>2. TypeOK'
  BY <1>1 DEF Inv, TypeOK, Months
<1>3. CreditsAddUp'
  BY <1>1, CountersStay DEF Charged
<1>4. QED BY <1>2, <1>3 DEF Inv

LEMMA ReserveKeeps ==
  ASSUME Inv, NEW c \in Calls, Reserve(c)
  PROVE  Inv'
<1>1. call[c] \in Call /\ call[c].month \in Months /\ used \in [Months -> Nat]
  BY DEF Inv, TypeOK, Call
<1>2. ~Charged(c)
  BY DEF Reserve, Charged, Holding
<1>3. ASSUME NEW pc \in {"run", "lost"}, Goto(c, pc), used' = [used EXCEPT ![call[c].month] = @ + 1],
             UNCHANGED <<limit, month>>, budget' \in [Events -> Nat]
      PROVE  Inv'
  <2>1. /\ call' \in [Calls -> Call]
        /\ call'[c].pc = pc /\ call'[c].month = call[c].month
        /\ \A d \in Calls \ {c} : call'[d] = call[d]
    BY <1>3, GotoType DEF Inv, PCs, InProgress, Outcomes
  <2>2. TypeOK'
    BY <1>1, <1>3, <2>1 DEF Inv, TypeOK, Months
  <2>3. Charged(c)'
    BY <2>1 DEF Charged, Holding
  <2>4. CreditsAddUp'
    BY <1>1, <1>2, <1>3, <2>1, <2>3, CreditTaken
  <2>5. QED BY <2>2, <2>4 DEF Inv
<1>4. CASE Goto(c, "ended") /\ UNCHANGED <<limit, month, used>> /\ budget' \in [Events -> Nat]
  BY <1>2, <1>4, CallGoesOn DEF PCs, Outcomes, Holding
<1>5. ASSUME Spend("faults") PROVE budget' \in [Events -> Nat]
  BY <1>5, SpendType DEF Inv, TypeOK, Events
<1>6. QED BY <1>3, <1>4, <1>5 DEF Reserve, Inv, TypeOK

LEMMA RunKeeps ==
  ASSUME Inv, NEW c \in Calls, RunInVain(c) \/ RunAnswers(c) \/ Keep(c)
  PROVE  Inv'
<1>1. Charged(c)
  BY DEF RunInVain, RunAnswers, Keep, Charged, Holding
<1>2. PICK pc \in {"release", "answered", "paid"} :
        Goto(c, pc) /\ UNCHANGED <<limit, month, used, budget>>
  BY DEF RunInVain, RunAnswers, Keep
<1>3. pc \in PCs /\ pc \in Holding \union {"paid", "lost"}
  BY DEF PCs, InProgress, Outcomes, Holding
<1>4. QED BY <1>1, <1>2, <1>3, CallGoesOn DEF Inv, TypeOK

LEMMA ReleaseKeeps ==
  ASSUME Inv, NEW c \in Calls, Release(c)
  PROVE  Inv'
<1>1. call[c] \in Call /\ call[c].month \in Months /\ TypeOK
  BY DEF Inv, TypeOK, Call
<1>2. Charged(c)
  BY DEF Release, Charged, Holding
<1>3. CASE /\ used' = [used EXCEPT ![call[c].month] = IF @ > 0 THEN @ - 1 ELSE @]
           /\ Goto(c, "ended") /\ UNCHANGED <<limit, month, budget>>
  <2>1. /\ call' \in [Calls -> Call]
        /\ call'[c].pc = "ended" /\ call'[c].month = call[c].month
        /\ \A d \in Calls \ {c} : call'[d] = call[d]
    BY <1>3, GotoType DEF Inv, PCs, Outcomes
  <2>2. ~Charged(c)'
    BY <2>1 DEF Charged, Holding
  <2>3. used' \in [Months -> Nat] /\ CreditsAddUp'
    BY <1>1, <1>2, <1>3, <2>1, <2>2, CreditReturned
  <2>4. TypeOK'
    BY <1>3, <2>1, <2>3 DEF Inv, TypeOK, Months
  <2>5. QED BY <2>3, <2>4 DEF Inv
<1>4. CASE Spend("faults") /\ Goto(c, "lost") /\ UNCHANGED <<limit, month, used>>
  <2>1. budget' \in [Events -> Nat]
    BY <1>4, SpendType DEF Inv, TypeOK, Events
  <2>2. QED BY <1>2, <1>4, <2>1, CallGoesOn DEF PCs, Outcomes
<1>5. QED BY <1>3, <1>4 DEF Release, PeriodOf

LEMMA CheckKeeps ==
  ASSUME Inv, NEW c \in Calls, Check(c)
  PROVE  Inv'
<1>1. PICK pc \in {"generate", "ended"} : Start(c, pc)
  BY DEF Check
<1>2. pc \in PCs
  BY DEF PCs, InProgress, Outcomes
<1>3. /\ call' \in [Calls -> Call]
      /\ call'[c].pc = pc /\ call'[c].month = month
      /\ \A d \in Calls \ {c} : call'[d] = call[d]
  BY <1>1, <1>2, StartType DEF Inv
<1>4. TypeOK'
  BY <1>3 DEF Check, Inv, TypeOK, Months
<1>5. ~Charged(c) /\ ~Charged(c)'
  BY <1>3 DEF Check, Charged, Holding
<1>6. CreditsAddUp'
  BY <1>3, <1>5, CountersStay DEF Check, Charged
<1>7. QED BY <1>4, <1>6 DEF Inv

LEMMA GenerateKeeps ==
  ASSUME Inv, NEW c \in Calls, Generate(c)
  PROVE  Inv'
<1>1. ~Charged(c)
  BY DEF Generate, Charged, Holding
<1>2. PICK pc \in {"charge", "ended"} : Goto(c, pc)
  BY DEF Generate
<1>3. pc \in PCs /\ pc \notin Holding \union {"paid", "lost"}
  BY DEF PCs, InProgress, Outcomes, Holding
<1>4. QED BY <1>1, <1>2, <1>3, CallGoesOn DEF Generate, Inv, TypeOK

LEMMA ChargeKeeps ==
  ASSUME Inv, NEW c \in Calls, Charge(c)
  PROVE  Inv'
<1>1. call[c] \in Call /\ month \in Months /\ used \in [Months -> Nat]
  BY DEF Inv, TypeOK
<1>2. ~Charged(c)
  BY DEF Charge, Charged, Holding
<1>3. ASSUME NEW outcome \in {"paid", "lost"}, used' = [used EXCEPT ![month] = @ + 1],
             call' = [call EXCEPT ![c].pc = outcome, ![c].month = month],
             UNCHANGED <<limit, month>>, budget' \in [Events -> Nat]
      PROVE  Inv'
  <2>1. /\ call' \in [Calls -> Call]
        /\ call'[c].pc = outcome /\ call'[c].month = month
        /\ \A d \in Calls \ {c} : call'[d] = call[d]
    BY <1>1, <1>3 DEF Inv, TypeOK, Call, Outcomes
  <2>2. Charged(c)'
    BY <2>1 DEF Charged
  <2>3. CreditsAddUp'
    BY <1>1, <1>2, <1>3, <2>1, <2>2, CreditTaken
  <2>4. TypeOK'
    BY <1>1, <1>3, <2>1 DEF Inv, TypeOK, Months
  <2>5. QED BY <2>3, <2>4 DEF Inv
<1>4. CASE Spend("faults") /\ Goto(c, "ended") /\ UNCHANGED <<limit, month, used>>
  <2>1. budget' \in [Events -> Nat]
    BY <1>4, SpendType DEF Inv, TypeOK, Events
  <2>2. QED BY <1>2, <1>4, <2>1, CallGoesOn DEF PCs, Outcomes, Holding
<1>5. Spend("faults") \/ UNCHANGED budget => budget' \in [Events -> Nat]
  BY SpendType DEF Inv, TypeOK, Events
<1>6. QED BY <1>3, <1>4, <1>5 DEF Charge

LEMMA CrashKeeps ==
  ASSUME Inv, NEW c \in Calls, Crash(c)
  PROVE  Inv'
<1>1. budget' \in [Events -> Nat]
  BY SpendType DEF Crash, Inv, TypeOK, Events
<1>2. CASE call[c].pc \in Holding
  <2>1. PICK pc \in {"paid", "lost"} : Goto(c, pc)
    BY <1>2 DEF Crash, Holding
  <2>2. pc \in PCs /\ Charged(c)
    BY <1>2 DEF PCs, Outcomes, Charged
  <2>3. QED BY <1>1, <2>1, <2>2, CallGoesOn DEF Crash
<1>3. CASE call[c].pc \notin Holding
  <2>1. Goto(c, "ended")
    BY <1>3 DEF Crash, Holding
  <2>2. ~Charged(c)
    BY <1>3 DEF Charged, Crash, InProgress
  <2>3. QED BY <1>1, <2>1, <2>2, CallGoesOn DEF Crash, PCs, Outcomes, Holding
<1>4. QED BY <1>2, <1>3

LEMMA SurroundingsKeep ==
  ASSUME Inv, NextMonth \/ (\E n \in Limits : ChangePlan(n)) \/ UNCHANGED vars
  PROVE  Inv'
<1>1. call' = call /\ used' = used
  BY DEF NextMonth, ChangePlan, vars
<1>2. TypeOK'
  BY <1>1, SpendType DEF NextMonth, ChangePlan, vars, Inv, TypeOK, Events, Months
<1>3. CreditsAddUp'
  BY <1>1, CountersStay DEF Charged
<1>4. QED BY <1>2, <1>3 DEF Inv

LEMMA EveryStep == Inv /\ [Next]_vars => Inv'
<1> SUFFICES ASSUME Inv, [Next]_vars PROVE Inv'
  OBVIOUS
<1>1. ASSUME NEW c \in Background,
             Begin(c) \/ Reserve(c) \/ RunInVain(c) \/ RunAnswers(c) \/ Keep(c) \/ Release(c)
      PROVE  Inv'
  BY <1>1, BeginKeeps, ReserveKeeps, RunKeeps, ReleaseKeeps DEF Calls
<1>2. ASSUME NEW c \in Manual, Check(c) \/ Generate(c) \/ Charge(c)
      PROVE  Inv'
  BY <1>2, CheckKeeps, GenerateKeeps, ChargeKeeps DEF Calls
<1>3. ASSUME NEW c \in Calls, Crash(c) PROVE Inv'
  BY <1>3, CrashKeeps
<1>4. QED BY <1>1, <1>2, <1>3, SurroundingsKeep DEF Next

LEMMA Invariance == Spec => []Inv
<1>1. QED BY Initially, EveryStep, PTL DEF Spec

\* Every state of the counters and the calls is well formed: no counter goes
\* below zero, and every call holds a month and the limit it has read.
THEOREM TypeCorrect == Spec => []TypeOK
<1>1. Inv => TypeOK
  BY DEF Inv
<1>2. QED BY <1>1, Invariance, PTL

\* The counter of every month is the number of calls charged to it, for any
\* number of calls and months, any plans, and any failures and crashes.
THEOREM CountersTellTheTruth == Spec => []CreditsAddUp
<1>1. Inv => CreditsAddUp
  BY DEF Inv
<1>2. QED BY <1>1, Invariance, PTL

-----------------------------------------------------------------------------
(* The limit: only a reservation adds to what the flows have taken.        *)

Reserved(m) == ChargedTo(m) \intersect Background

\* Call c has just taken the credit it asked for, whether it knows or not.
Granted(c) ==
  /\ call[c].pc = "reserve" /\ used[call[c].month] < call[c].cap
  /\ call'[c].pc \in {"run", "lost"} /\ call'[c].month = call[c].month
  /\ \A d \in Calls \ {c} : call'[d] = call[d]

LEMMA OnlyGrantsAdd ==
  ASSUME Inv, [Next]_vars
  PROVE  \/ \E c \in Background : Granted(c)
         \/ \A d \in Background : Charged(d)' => Charged(d) /\ call'[d].month = call[d].month
<1> DEFINE NoneAdded ==
      \A d \in Background : Charged(d)' => Charged(d) /\ call'[d].month = call[d].month
<1>1. ASSUME NEW c \in Calls, NEW pc \in PCs, Goto(c, pc),
             Charged(c) \/ pc \notin Holding \union {"paid", "lost"}
      PROVE  NoneAdded
  <2>1. /\ call'[c].pc = pc /\ call'[c].month = call[c].month
        /\ \A d \in Calls \ {c} : call'[d] = call[d]
    BY <1>1, GotoType DEF Inv
  <2>2. QED BY <1>1, <2>1 DEF Charged, Calls
<1>2. ASSUME NEW c \in Calls, NEW pc \in PCs, Start(c, pc), pc \notin Holding \union {"paid", "lost"}
      PROVE  NoneAdded
  <2>1. call'[c].pc = pc /\ \A d \in Calls \ {c} : call'[d] = call[d]
    BY <1>2, StartType DEF Inv
  <2>2. QED BY <1>2, <2>1 DEF Charged, Calls
<1>3. ASSUME NEW c \in Calls, Begin(c) \/ Check(c)
      PROVE  NoneAdded
  <2>1. PICK pc \in {"reserve", "generate", "ended"} : Start(c, pc)
    BY <1>3 DEF Begin, Check
  <2>2. QED BY <1>2, <2>1 DEF PCs, InProgress, Outcomes, Holding
<1>4. ASSUME NEW c \in Background, Reserve(c)
      PROVE  Granted(c) \/ NoneAdded
  <2>1. c \in Calls
    BY DEF Calls
  <2>2. CASE Available(used[call[c].month], call[c].cap) /\ (Goto(c, "run") \/ Goto(c, "lost"))
    <3>1. /\ call'[c].pc \in {"run", "lost"} /\ call'[c].month = call[c].month
          /\ \A d \in Calls \ {c} : call'[d] = call[d]
      BY <2>1, <2>2, GotoType DEF Inv, PCs, InProgress, Outcomes
    <3>2. QED BY <1>4, <2>2, <3>1 DEF Reserve, Available, Granted
  <2>3. CASE Goto(c, "ended")
    BY <1>1, <2>1, <2>3 DEF PCs, Outcomes, Holding
  <2>4. QED BY <1>4, <2>2, <2>3 DEF Reserve
<1>5. ASSUME NEW c \in Calls, RunInVain(c) \/ RunAnswers(c) \/ Keep(c) \/ Release(c)
      PROVE  NoneAdded
  <2>1. PICK pc \in {"release", "answered", "paid", "lost", "ended"} : Goto(c, pc)
    BY <1>5 DEF RunInVain, RunAnswers, Keep, Release
  <2>2. Charged(c)
    BY <1>5 DEF RunInVain, RunAnswers, Keep, Release, Charged, Holding
  <2>3. QED BY <1>1, <2>1, <2>2 DEF PCs, InProgress, Outcomes
<1>6. ASSUME NEW c \in Manual, Generate(c) \/ Charge(c)
      PROVE  NoneAdded
  <2>1. \A d \in Background : call'[d] = call[d]
    <3>1. \A d \in Background : d # c /\ d \in Calls
      BY CreditsAssumption DEF Calls
    <3>2. QED BY <1>6, <3>1 DEF Generate, Charge, Goto, Inv, TypeOK
  <2>2. QED BY <2>1 DEF Charged
<1>7. ASSUME NEW c \in Calls, Crash(c)
      PROVE  NoneAdded
  <2>1. CASE call[c].pc \in Holding
    <3>1. PICK pc \in {"paid", "lost"} : Goto(c, pc)
      BY <1>7, <2>1 DEF Crash, Holding
    <3>2. QED BY <1>1, <2>1, <3>1 DEF PCs, Outcomes, Charged
  <2>2. CASE call[c].pc \notin Holding
    <3>1. Goto(c, "ended")
      BY <1>7, <2>2 DEF Crash, Holding
    <3>2. QED BY <1>1, <3>1 DEF PCs, Outcomes, Holding
  <2>3. QED BY <2>1, <2>2
<1>8. ASSUME NextMonth \/ (\E n \in Limits : ChangePlan(n)) \/ UNCHANGED vars
      PROVE  NoneAdded
  BY <1>8 DEF NextMonth, ChangePlan, vars, Charged
<1> HIDE DEF NoneAdded
<1>9. (\E c \in Background : Granted(c)) \/ NoneAdded
  <2>1. ASSUME NEW c \in Background,
               Begin(c) \/ Reserve(c) \/ RunInVain(c) \/ RunAnswers(c) \/ Keep(c) \/ Release(c)
        PROVE  (\E b \in Background : Granted(b)) \/ NoneAdded
    <3>1. c \in Calls
      BY DEF Calls
    <3>2. CASE Reserve(c)
      BY <1>4, <3>2
    <3>3. QED BY <1>3, <1>5, <2>1, <3>1, <3>2
  <2>2. ASSUME NEW c \in Manual, Check(c) \/ Generate(c) \/ Charge(c)
        PROVE  NoneAdded
    <3>1. c \in Calls
      BY DEF Calls
    <3>2. QED BY <1>3, <1>6, <2>2, <3>1
  <2>3. QED BY <1>7, <1>8, <2>1, <2>2 DEF Next
<1>10. QED BY <1>9 DEF NoneAdded

\* However many flows run at once and whatever fails, the credits they take in a
\* month stay within the largest limit of the plans: the conditional increment
\* is enough, also beside agents' requests that charge without it.
THEOREM ReservationsKeepTheLimit == Spec => []ReservedInLimit
<1>1. Init => ReservedInLimit
  <2> SUFFICES ASSUME Init, NEW m \in Months
               PROVE  \E n \in Limits : Cardinality(Reserved(m)) <= n
    BY DEF ReservedInLimit, Reserved
  <2>1. Reserved(m) = {}
    BY DEF Init, Reserved, ChargedTo, Holding
  <2>2. Cardinality(Reserved(m)) = 0
    BY <2>1, FS_EmptySet
  <2>3. PICK n \in Limits : n \in Nat
    BY CreditsAssumption
  <2>4. Cardinality(Reserved(m)) <= n
    BY <2>2, <2>3
  <2>5. QED BY <2>4
<1>2. Inv /\ ReservedInLimit /\ [Next]_vars => ReservedInLimit'
  <2> SUFFICES ASSUME Inv, ReservedInLimit, [Next]_vars, NEW m \in Months
               PROVE  \E n \in Limits : Cardinality(Reserved(m)') <= n
    BY DEF ReservedInLimit, Months, Reserved
  <2>1. /\ IsFiniteSet(Reserved(m)) /\ Cardinality(Reserved(m)) \in Nat
        /\ Cardinality(Reserved(m)) <= Cardinality(ChargedTo(m))
    BY ChargesAreFinite, FS_Subset, FS_CardinalityType DEF Reserved
  <2>2. PICK n \in Limits : Cardinality(Reserved(m)) <= n
    BY DEF ReservedInLimit, Reserved
  <2>3. Limits \subseteq Nat
    BY CreditsAssumption
  <2>4. CASE \A d \in Background :
               Charged(d)' => Charged(d) /\ call'[d].month = call[d].month
    <3>1. Reserved(m)' \subseteq Reserved(m)
      BY <2>4 DEF Reserved, ChargedTo, Charged
    <3>2. Cardinality(Reserved(m)') \in Nat /\ Cardinality(Reserved(m)') <= Cardinality(Reserved(m))
      BY <2>1, <3>1, FS_Subset, FS_CardinalityType
    <3>3. QED BY <2>1, <2>2, <2>3, <3>2
  <2>5. CASE \E c \in Background : Granted(c)
    <3>1. PICK c \in Background : Granted(c)
      BY <2>5
    <3>2. c \in Calls /\ call[c].cap \in Limits
      BY <3>1 DEF Calls, Inv, TypeOK, Call
    <3>3. CASE call[c].month = m
      <4>1. Reserved(m)' = Reserved(m) \union {c} /\ c \notin Reserved(m)
        <5>1. c \notin Reserved(m)
          BY <3>1 DEF Granted, Reserved, ChargedTo, Holding
        <5>2. c \in Reserved(m)'
          BY <3>1, <3>2, <3>3 DEF Granted, Reserved, ChargedTo, Holding
        <5>3. ASSUME NEW d \in Background \ {c}
              PROVE  d \in Reserved(m)' <=> d \in Reserved(m)
          <6>1. call'[d] = call[d]
            BY <3>1 DEF Granted, Calls
          <6>2. QED BY <6>1 DEF Reserved, ChargedTo
        <5>4. Reserved(m) \subseteq Background /\ Reserved(m)' \subseteq Background
          BY DEF Reserved
        <5>5. QED BY <5>1, <5>2, <5>3, <5>4
      <4>2. Cardinality(Reserved(m)') = Cardinality(Reserved(m)) + 1
        BY <2>1, <4>1, FS_AddElement
      <4>3. Cardinality(ChargedTo(m)) = used[m] /\ used[m] \in Nat /\ used[m] < call[c].cap
        BY <3>1, <3>3 DEF Granted, Inv, CreditsAddUp, TypeOK
      <4>4. Cardinality(Reserved(m)') <= call[c].cap
        <5> DEFINE before == Cardinality(Reserved(m))
                   after == Cardinality(Reserved(m)')
                   cap == call[c].cap
        <5>1. before \in Nat /\ after = before + 1 /\ before <= used[m]
          BY <2>1, <4>2, <4>3
        <5>2. cap \in Nat /\ used[m] \in Nat /\ used[m] < cap
          BY <2>3, <3>2, <4>3
        <5> HIDE DEF before, after, cap
        <5>3. after <= cap
          BY <5>1, <5>2
        <5>4. QED BY <5>3 DEF after, cap
      <4>5. QED BY <3>2, <4>4
    <3>4. CASE call[c].month # m
      <4>1. Reserved(m)' = Reserved(m)
        BY <3>1, <3>2, <3>4 DEF Granted, Reserved, ChargedTo, Calls, Holding
      <4>2. QED BY <2>2, <4>1
    <3>5. QED BY <3>3, <3>4
  <2>6. QED BY <2>4, <2>5, OnlyGrantsAdd
<1>3. QED BY <1>1, <1>2, Invariance, PTL DEF Spec


-----------------------------------------------------------------------------
(* Knowledge: what answers may quote.                                        *)

\* A job has a text once it has read one.
KnJob == {j \in [doc : Docs, pc : {"read", "embed", "replace", "ready", "fail"}, text : {0} \union Texts] :
            j.pc \in {"embed", "replace", "ready"} => j.text \in Texts}
KnDoc == [status : Status, deleted : BOOLEAN, text : {0} \union Texts, counted : BOOLEAN]
KnArticle == [stored : BOOLEAN, active : BOOLEAN, deleted : BOOLEAN, edited : BOOLEAN]

DocsTyped == doc \in [Docs -> KnDoc]
StoreTyped ==
  /\ chunks \in [Docs -> SUBSET Texts] /\ page \in [Docs -> {0} \union Texts]
  /\ purging \subseteq Docs /\ broken \subseteq Docs
QueuesTyped ==
  /\ ingestQueue \in [Docs -> Nat]
  /\ request \in [Docs -> {"none", "found", "clear", "queue"}]
JobsTyped == job \in [KnWorkers -> KnJob \union {NoJob}]
ArticlesTyped == article \in [Articles -> KnArticle]
KnLeftTyped == knLeft \in [KnEvents -> Nat]

KnTyped == DocsTyped /\ StoreTyped /\ QueuesTyped /\ JobsTyped /\ ArticlesTyped /\ KnLeftTyped

Runs(w, d) == job[w] # NoJob /\ job[w].doc = d
Calm(d) == \A w \in KnWorkers : ~Runs(w, d)
NotAsked(d) == request[d] = "none" /\ d \notin purging

\* Nothing is under way for a document that is not there yet.
NoneIsIdle(d) == doc[d].status = "NONE" => NotAsked(d) /\ ingestQueue[d] = 0 /\ Calm(d) /\ ~doc[d].deleted

\* For a document none of whose requests and jobs broke off or ran beside another, at most
\* one thing is under way: a request, a purge, a queued job or a running one.
OneAtATime(d) ==
  /\ request[d] # "none" => d \notin purging /\ ingestQueue[d] = 0 /\ Calm(d)
  /\ d \in purging => ingestQueue[d] = 0 /\ Calm(d)
  /\ ingestQueue[d] > 0 => ingestQueue[d] = 1 /\ Calm(d)
  /\ \A v, w \in KnWorkers : Runs(v, d) /\ Runs(w, d) => v = w
\* A deleted document is purged, or about to be, and nothing else is.
GoneOrGoing(d) ==
  /\ d \in purging => doc[d].deleted
  /\ doc[d].deleted =>
       /\ request[d] = "none" /\ ingestQueue[d] = 0 /\ Calm(d)
       /\ d \in purging \/ chunks[d] = {}
\* A job that is about to say so has stored its text, and nothing else.
JobFits(d) == \A w \in KnWorkers : Runs(w, d) /\ job[w].pc = "ready" => chunks[d] = {job[w].text}
Settled(d) ==
  NotAsked(d) /\ ingestQueue[d] = 0 /\ Calm(d) /\ doc[d].status # "NONE" /\ ~doc[d].deleted =>
    /\ doc[d].status # "PENDING"
    /\ doc[d].status = "READY" => doc[d].counted /\ doc[d].text \in Texts /\ chunks[d] = {doc[d].text}

Unbroken(d) == d \notin broken => OneAtATime(d) /\ GoneOrGoing(d) /\ JobFits(d) /\ Settled(d)

KnInv == KnTyped /\ \A d \in Docs : NoneIsIdle(d) /\ Unbroken(d)

LEMMA KnowledgeInitially == KnInit => KnInv
<1> SUFFICES ASSUME KnInit PROVE KnInv
  OBVIOUS
<1>1. KnTyped
  BY KnowledgeAssumption
  DEF KnInit, KnTyped, DocsTyped, StoreTyped, QueuesTyped, JobsTyped, ArticlesTyped, KnLeftTyped,
      KnDoc, KnArticle, Status, Texts, KnEvents
<1>2. ASSUME NEW d \in Docs
      PROVE  NoneIsIdle(d) /\ Unbroken(d)
  <2>1. /\ doc[d].status = "NONE" /\ ~doc[d].deleted /\ ingestQueue[d] = 0 /\ request[d] = "none"
        /\ d \notin purging /\ Calm(d)
    BY DEF KnInit, Calm, Runs
  <2>2. QED BY <2>1 DEF NoneIsIdle, Unbroken, NotAsked, OneAtATime, GoneOrGoing, JobFits, Settled, Calm
<1>3. QED BY <1>1, <1>2 DEF KnInv

LEMMA KnWorkingIs ==
  ASSUME KnTyped, NEW d \in Docs
  PROVE  ~Working(d) <=> NotAsked(d) /\ ingestQueue[d] = 0 /\ Calm(d)
<1>1. Running(d) = {} <=> Calm(d)
  BY DEF Running, Calm, Runs
<1>2. ~(ingestQueue[d] > 0) <=> ingestQueue[d] = 0
  BY DEF KnTyped, QueuesTyped
<1>3. QED BY <1>1, <1>2 DEF Working, NotAsked

-----------------------------------------------------------------------------
(* A step that is about one document leaves the others as they are.          *)

Untouched(d) ==
  /\ doc'[d] = doc[d] /\ chunks'[d] = chunks[d]
  /\ ingestQueue'[d] = ingestQueue[d] /\ request'[d] = request[d]
  /\ d \in purging' <=> d \in purging
  /\ d \in broken => d \in broken'
  /\ \A w \in KnWorkers : Runs(w, d)' <=> Runs(w, d)
  /\ \A w \in KnWorkers : Runs(w, d) => job'[w] = job[w]

LEMMA UntouchedKeeps ==
  ASSUME KnInv, NEW d \in Docs, Untouched(d)
  PROVE  NoneIsIdle(d)' /\ Unbroken(d)'
<1>1. NoneIsIdle(d) /\ Unbroken(d)
  BY DEF KnInv
<1>2. Calm(d)' <=> Calm(d)
  BY DEF Untouched, Calm
<1>3. NotAsked(d)' <=> NotAsked(d)
  BY DEF Untouched, NotAsked
<1>4. NoneIsIdle(d)'
  BY <1>1, <1>2, <1>3 DEF NoneIsIdle, Untouched
<1>5. ASSUME d \notin broken'
      PROVE  (OneAtATime(d) /\ GoneOrGoing(d) /\ JobFits(d) /\ Settled(d))'
  <2>1. OneAtATime(d) /\ GoneOrGoing(d) /\ JobFits(d) /\ Settled(d)
    BY <1>1, <1>5 DEF Unbroken, Untouched
  <2>2. OneAtATime(d)'
    BY <1>2, <2>1 DEF OneAtATime, Untouched
  <2>3. GoneOrGoing(d)'
    BY <1>2, <2>1 DEF GoneOrGoing, Untouched
  <2>4. JobFits(d)'
    BY <2>1 DEF JobFits, Untouched
  <2>5. Settled(d)'
    BY <1>2, <1>3, <2>1 DEF Settled, Untouched
  <2>6. QED BY <2>2, <2>3, <2>4, <2>5
<1>6. QED BY <1>4, <1>5 DEF Unbroken

LEMMA OnlyThisOne ==
  ASSUME KnInv, KnTyped', NEW d \in Docs, NoneIsIdle(d)', Unbroken(d)',
         \A e \in Docs \ {d} : Untouched(e)
  PROVE  KnInv'
  BY UntouchedKeeps DEF KnInv

\* The jobs stay as they are.
LEMMA SameJobs ==
  ASSUME job' = job, NEW d
  PROVE  /\ \A w \in KnWorkers : (Runs(w, d)' <=> Runs(w, d)) /\ job'[w] = job[w]
         /\ Calm(d)' <=> Calm(d)
  BY DEF Runs, Calm

LEMMA KnUsesTyped ==
  ASSUME KnTyped, NEW e \in KnEvents, KnUses(e)
  PROVE  KnLeftTyped'
  BY DEF KnTyped, KnLeftTyped, KnUses

-----------------------------------------------------------------------------
(* Requests.                                                                 *)

LEMMA CreateDocumentKeeps ==
  ASSUME KnInv, NEW d \in Docs, CreateDocument(d)
  PROVE  KnInv'
<1>1. doc' = [doc EXCEPT ![d] = [[doc[d] EXCEPT !.status = "PENDING"] EXCEPT !.text = page[d]]]
  BY DEF CreateDocument, KnInv, KnTyped, DocsTyped
<1>2. KnTyped'
  <2>1. DocsTyped'
    BY <1>1 DEF KnInv, KnTyped, DocsTyped, StoreTyped, KnDoc, Status
  <2>2. QueuesTyped'
    BY DEF CreateDocument, KnInv, KnTyped, QueuesTyped
  <2>3. QED BY <2>1, <2>2 DEF CreateDocument, KnInv, KnTyped, StoreTyped, JobsTyped, ArticlesTyped, KnLeftTyped
<1>3. \A e \in Docs \ {d} : Untouched(e)
  BY SameJobs DEF CreateDocument, Untouched, KnInv, KnTyped, DocsTyped, QueuesTyped
<1>4. NoneIsIdle(d) /\ doc[d].status = "NONE" /\ (Calm(d)' <=> Calm(d)) /\ Unbroken(d)
  BY SameJobs DEF CreateDocument, KnInv
<1>5. /\ doc'[d].status = "PENDING" /\ ~doc'[d].deleted /\ request'[d] = "queue"
      /\ ingestQueue' = ingestQueue /\ purging' = purging /\ broken' = broken /\ chunks' = chunks
  BY <1>1, <1>4 DEF CreateDocument, KnInv, KnTyped, DocsTyped, QueuesTyped, NoneIsIdle, KnDoc
<1>6. NoneIsIdle(d)'
  BY <1>5 DEF NoneIsIdle
<1>7. Unbroken(d)'
  <2>1. ingestQueue[d] = 0 /\ Calm(d) /\ Calm(d)' /\ d \notin purging
    BY <1>4 DEF NoneIsIdle, NotAsked
  <2>2. QED BY <1>5, <2>1 DEF Unbroken, OneAtATime, GoneOrGoing, JobFits, Settled, NotAsked, Calm
<1>8. QED BY <1>2, <1>3, <1>6, <1>7, OnlyThisOne

LEMMA PageChangesKeeps ==
  ASSUME KnInv, NEW d \in Docs, PageChanges(d)
  PROVE  KnInv'
<1>1. KnTyped'
  <2>1. KnLeftTyped'
    BY KnUsesTyped DEF PageChanges, KnInv, KnEvents
  <2>2. StoreTyped'
    BY DEF PageChanges, KnInv, KnTyped, StoreTyped
  <2>3. QED BY <2>1, <2>2 DEF PageChanges, KnInv, KnTyped, DocsTyped, QueuesTyped, JobsTyped, ArticlesTyped
<1>2. \A e \in Docs : Untouched(e)
  BY SameJobs DEF PageChanges, Untouched
<1>3. QED BY <1>1, <1>2, UntouchedKeeps DEF KnInv

LEMMA BeginReindexKeeps ==
  ASSUME KnInv, NEW d \in Docs, BeginReindex(d)
  PROVE  KnInv'
<1>1. KnTyped'
  <2>1. KnLeftTyped'
    BY KnUsesTyped DEF BeginReindex, KnInv, KnEvents
  <2>2. StoreTyped' /\ QueuesTyped'
    BY DEF BeginReindex, KnInv, KnTyped, StoreTyped, QueuesTyped
  <2>3. QED BY <2>1, <2>2 DEF BeginReindex, KnInv, KnTyped, DocsTyped, JobsTyped, ArticlesTyped
<1>2. \A e \in Docs \ {d} : Untouched(e)
  BY SameJobs DEF BeginReindex, Untouched, KnInv, KnTyped, QueuesTyped
<1>3. /\ doc' = doc /\ chunks' = chunks /\ ingestQueue' = ingestQueue /\ purging' = purging
      /\ request'[d] = "found" /\ doc[d].status # "NONE" /\ ~doc[d].deleted
      /\ (Calm(d)' <=> Calm(d)) /\ (Working(d) => d \in broken')
  BY SameJobs DEF BeginReindex, Live, KnInv, KnTyped, QueuesTyped
<1>4. NoneIsIdle(d)'
  BY <1>3 DEF NoneIsIdle
<1>5. Unbroken(d)'
  <2>1. SUFFICES ASSUME ~Working(d)
                 PROVE  (OneAtATime(d) /\ GoneOrGoing(d) /\ JobFits(d) /\ Settled(d))'
    BY <1>3 DEF Unbroken
  <2>2. ingestQueue[d] = 0 /\ Calm(d) /\ Calm(d)' /\ d \notin purging
    BY <1>3, <2>1, KnWorkingIs DEF KnInv, NotAsked
  <2>3. QED BY <1>3, <2>2 DEF OneAtATime, GoneOrGoing, JobFits, Settled, NotAsked, Calm
<1>6. QED BY <1>1, <1>2, <1>4, <1>5, OnlyThisOne

\* The later steps of a request.
LEMMA RequestStepsKeep ==
  ASSUME KnInv, NEW d \in Docs, MarkPending(d) \/ ClearChunks(d) \/ EnqueueIngest(d)
  PROVE  KnInv'
<1>1. KnTyped'
  <2>1. CASE MarkPending(d)
    <3>1. doc' = [doc EXCEPT ![d] = [doc[d] EXCEPT !.status = "PENDING"]] /\ DocsTyped
      BY <2>1 DEF MarkPending, KnInv, KnTyped
    <3>2. [doc[d] EXCEPT !.status = "PENDING"] \in KnDoc
      BY <3>1 DEF DocsTyped, KnDoc, Status
    <3>3. DocsTyped'
      BY <3>1, <3>2 DEF DocsTyped
    <3>4. StoreTyped' /\ QueuesTyped'
      BY <2>1 DEF MarkPending, KnInv, KnTyped, StoreTyped, QueuesTyped
    <3>5. QED BY <2>1, <3>3, <3>4 DEF MarkPending, KnInv, KnTyped, JobsTyped, ArticlesTyped, KnLeftTyped
  <2>2. CASE ClearChunks(d)
    BY <2>2 DEF ClearChunks, KnInv, KnTyped, DocsTyped, StoreTyped, QueuesTyped, JobsTyped, ArticlesTyped, KnLeftTyped
  <2>3. CASE EnqueueIngest(d)
    BY <2>3 DEF EnqueueIngest, KnInv, KnTyped, DocsTyped, StoreTyped, QueuesTyped, JobsTyped, ArticlesTyped, KnLeftTyped
  <2>4. QED BY <2>1, <2>2, <2>3
<1>2. \A e \in Docs \ {d} : Untouched(e)
  BY SameJobs DEF MarkPending, ClearChunks, EnqueueIngest, Untouched, KnInv, KnTyped, DocsTyped, StoreTyped, QueuesTyped
<1>3. /\ request[d] # "none" /\ purging' = purging /\ broken' = broken
      /\ (Calm(d)' <=> Calm(d)) /\ NoneIsIdle(d) /\ Unbroken(d) /\ KnTyped
  BY SameJobs DEF MarkPending, ClearChunks, EnqueueIngest, KnInv
<1>4. doc[d].status # "NONE"
  BY <1>3 DEF NoneIsIdle, NotAsked
<1>5. doc'[d].status # "NONE" /\ doc'[d].deleted = doc[d].deleted
  BY <1>3, <1>4 DEF MarkPending, ClearChunks, EnqueueIngest, KnTyped, DocsTyped, KnDoc
<1>6. \/ request'[d] # "none" /\ ingestQueue' = ingestQueue
      \/ request'[d] = "none" /\ ingestQueue'[d] = ingestQueue[d] + 1
  BY <1>3 DEF MarkPending, ClearChunks, EnqueueIngest, KnTyped, QueuesTyped
<1>7. NoneIsIdle(d)'
  BY <1>5 DEF NoneIsIdle
<1>8. Unbroken(d)'
  <2>1. SUFFICES ASSUME d \notin broken
                 PROVE  (OneAtATime(d) /\ GoneOrGoing(d) /\ JobFits(d) /\ Settled(d))'
    BY <1>3 DEF Unbroken
  <2>2. OneAtATime(d) /\ GoneOrGoing(d)
    BY <1>3, <2>1 DEF Unbroken
  <2>3. ingestQueue[d] = 0 /\ Calm(d) /\ Calm(d)' /\ d \notin purging /\ ~doc[d].deleted
    BY <1>3, <2>2 DEF OneAtATime, GoneOrGoing
  <2>4. QED BY <1>3, <1>5, <1>6, <2>3 DEF OneAtATime, GoneOrGoing, JobFits, Settled, NotAsked, Calm
<1>9. QED BY <1>1, <1>2, <1>7, <1>8, OnlyThisOne

LEMMA DeleteDocumentKeeps ==
  ASSUME KnInv, NEW d \in Docs, DeleteDocument(d)
  PROVE  KnInv'
<1>0. doc' = [doc EXCEPT ![d] = [[doc[d] EXCEPT !.deleted = TRUE] EXCEPT !.status = "FAILED"]]
  BY DEF DeleteDocument, KnInv, KnTyped, DocsTyped
<1>1. KnTyped'
  <2>1. KnLeftTyped'
    BY KnUsesTyped DEF DeleteDocument, KnInv, KnEvents
  <2>2. DocsTyped'
    BY <1>0 DEF KnInv, KnTyped, DocsTyped, KnDoc, Status
  <2>3. StoreTyped'
    BY DEF DeleteDocument, KnInv, KnTyped, StoreTyped
  <2>4. QED BY <2>1, <2>2, <2>3 DEF DeleteDocument, KnInv, KnTyped, QueuesTyped, JobsTyped, ArticlesTyped
<1>2. \A e \in Docs \ {d} : Untouched(e)
  BY <1>0, SameJobs DEF DeleteDocument, Untouched, KnInv, KnTyped, DocsTyped
<1>3. /\ doc'[d].status # "NONE" /\ doc'[d].deleted
      /\ chunks' = chunks /\ ingestQueue' = ingestQueue /\ request' = request /\ d \in purging'
      /\ (Calm(d)' <=> Calm(d)) /\ (Working(d) => d \in broken')
  BY <1>0, SameJobs DEF DeleteDocument, KnInv, KnTyped, DocsTyped, KnDoc
<1>4. NoneIsIdle(d)'
  BY <1>3 DEF NoneIsIdle
<1>5. Unbroken(d)'
  <2>1. SUFFICES ASSUME ~Working(d)
                 PROVE  (OneAtATime(d) /\ GoneOrGoing(d) /\ JobFits(d) /\ Settled(d))'
    BY <1>3 DEF Unbroken
  <2>2. ingestQueue[d] = 0 /\ Calm(d) /\ Calm(d)' /\ request[d] = "none"
    BY <1>3, <2>1, KnWorkingIs DEF KnInv, NotAsked
  <2>3. QED BY <1>3, <2>2 DEF OneAtATime, GoneOrGoing, JobFits, Settled, NotAsked, Calm
<1>6. QED BY <1>1, <1>2, <1>4, <1>5, OnlyThisOne

LEMMA PurgeKeeps ==
  ASSUME KnInv, NEW d \in Docs, PurgeChunks(d)
  PROVE  KnInv'
<1>1. KnTyped'
  BY DEF PurgeChunks, KnInv, KnTyped, DocsTyped, StoreTyped, QueuesTyped, JobsTyped, ArticlesTyped, KnLeftTyped
<1>2. \A e \in Docs \ {d} : Untouched(e)
  BY SameJobs DEF PurgeChunks, Untouched, KnInv, KnTyped, StoreTyped
<1>3. /\ doc' = doc /\ chunks'[d] = {} /\ ingestQueue' = ingestQueue /\ request' = request
      /\ d \in purging /\ d \notin purging' /\ broken' = broken
      /\ (Calm(d)' <=> Calm(d)) /\ NoneIsIdle(d) /\ Unbroken(d)
  BY SameJobs DEF PurgeChunks, KnInv, KnTyped, StoreTyped
<1>4. NoneIsIdle(d)'
  BY <1>3 DEF NoneIsIdle, NotAsked
<1>5. Unbroken(d)'
  <2>1. SUFFICES ASSUME d \notin broken
                 PROVE  (OneAtATime(d) /\ GoneOrGoing(d) /\ JobFits(d) /\ Settled(d))'
    BY <1>3 DEF Unbroken
  <2>2. ingestQueue[d] = 0 /\ Calm(d) /\ Calm(d)' /\ request[d] = "none" /\ doc[d].deleted
    BY <1>3, <2>1 DEF Unbroken, OneAtATime, GoneOrGoing
  <2>3. QED BY <1>3, <2>2 DEF OneAtATime, GoneOrGoing, JobFits, Settled, NotAsked, Calm
<1>6. QED BY <1>1, <1>2, <1>4, <1>5, OnlyThisOne

LEMMA RequestFailsKeeps ==
  ASSUME KnInv, NEW d \in Docs, RequestFails(d)
  PROVE  KnInv'
<1>1. KnTyped'
  <2>1. KnLeftTyped'
    BY KnUsesTyped DEF RequestFails, KnInv, KnEvents
  <2>2. StoreTyped' /\ QueuesTyped'
    BY DEF RequestFails, KnInv, KnTyped, StoreTyped, QueuesTyped
  <2>3. QED BY <2>1, <2>2 DEF RequestFails, KnInv, KnTyped, DocsTyped, JobsTyped, ArticlesTyped
<1>2. \A e \in Docs \ {d} : Untouched(e)
  BY SameJobs DEF RequestFails, Untouched, KnInv, KnTyped, QueuesTyped
<1>3. NoneIsIdle(d) /\ ~NotAsked(d) /\ doc' = doc /\ d \in broken'
  BY DEF RequestFails, NotAsked, KnInv
<1>4. NoneIsIdle(d)' /\ Unbroken(d)'
  BY <1>3 DEF NoneIsIdle, Unbroken
<1>5. QED BY <1>1, <1>2, <1>4, OnlyThisOne

-----------------------------------------------------------------------------
(* Jobs.                                                                     *)

\* A worker takes up, goes on with, or ends a job of one document.
LEMMA OneWorkerMoves ==
  ASSUME KnTyped, NEW w \in KnWorkers, NEW d \in Docs, NEW new \in KnJob \union {NoJob},
         job' = [job EXCEPT ![w] = new],
         job[w] # NoJob => job[w].doc = d, new # NoJob => new.doc = d
  PROVE  /\ JobsTyped'
         /\ job'[w] = new
         /\ \A v \in KnWorkers \ {w} : job'[v] = job[v]
         /\ \A e \in Docs \ {d} : \A v \in KnWorkers : (Runs(v, e)' <=> Runs(v, e)) /\ (Runs(v, e) => job'[v] = job[v])
         /\ \A v \in KnWorkers \ {w} : Runs(v, d)' <=> Runs(v, d)
         /\ Runs(w, d)' <=> new # NoJob
<1>1. job' \in [KnWorkers -> KnJob \union {NoJob}] /\ job'[w] = new /\ \A v \in KnWorkers \ {w} : job'[v] = job[v]
  BY DEF KnTyped, JobsTyped
<1>2. QED BY <1>1 DEF JobsTyped, Runs

LEMMA StartIngestKeeps ==
  ASSUME KnInv, NEW w \in KnWorkers, NEW d \in Docs, StartIngest(w, d)
  PROVE  KnInv'
<1> DEFINE new == [doc |-> d, pc |-> "read", text |-> 0]
<1>1. new \in KnJob /\ new.doc = d /\ new.pc = "read"
  BY DEF KnJob
<1>2. /\ NoneIsIdle(d) /\ Unbroken(d) /\ KnTyped /\ job[w] = NoJob
      /\ ingestQueue[d] \in Nat /\ ingestQueue[d] > 0 /\ ingestQueue'[d] = ingestQueue[d] - 1
      /\ doc' = doc /\ chunks' = chunks /\ request' = request /\ purging' = purging
      /\ broken \subseteq broken'
  BY DEF StartIngest, KnInv, KnTyped, QueuesTyped
<1>3. doc[d].status # "NONE"
  BY <1>2 DEF NoneIsIdle
<1>4. NoneIsIdle(d)'
  BY <1>2, <1>3 DEF NoneIsIdle
<1>5. ASSUME JobsTyped' PROVE KnTyped'
  <2>1. StoreTyped' /\ QueuesTyped'
    BY DEF StartIngest, KnInv, KnTyped, StoreTyped, QueuesTyped
  <2>2. QED BY <1>5, <2>1 DEF StartIngest, KnInv, KnTyped, DocsTyped, ArticlesTyped, KnLeftTyped
<1>6. CASE Live(d)
  <2>1. job' = [job EXCEPT ![w] = new]
    BY <1>6 DEF StartIngest
  <2> HIDE DEF new
  <2>2. /\ JobsTyped' /\ job'[w] = new /\ new # NoJob
        /\ \A e \in Docs \ {d} : \A v \in KnWorkers : (Runs(v, e)' <=> Runs(v, e)) /\ (Runs(v, e) => job'[v] = job[v])
        /\ \A v \in KnWorkers \ {w} : Runs(v, d)' <=> Runs(v, d)
        /\ Runs(w, d)'
    <3>1. new # NoJob
      BY <1>1 DEF KnJob, NoJob
    <3>2. /\ KnTyped /\ new \in KnJob \union {NoJob}
          /\ job[w] # NoJob => job[w].doc = d
          /\ new # NoJob => new.doc = d
      BY <1>1, <1>2
    <3>3. QED BY <2>1, <3>1, <3>2, OneWorkerMoves
  <2>3. \A e \in Docs \ {d} : Untouched(e)
    BY <1>2, <2>2 DEF StartIngest, Untouched, KnTyped, QueuesTyped
  <2>4. Unbroken(d)'
    <3>1. SUFFICES ASSUME d \notin broken'
                   PROVE  (OneAtATime(d) /\ GoneOrGoing(d) /\ JobFits(d) /\ Settled(d))'
      BY DEF Unbroken
    <3>2. OneAtATime(d) /\ GoneOrGoing(d)
      BY <1>2, <3>1 DEF Unbroken
    <3>3. /\ ingestQueue'[d] = 0 /\ Calm(d) /\ d \notin purging /\ request[d] = "none" /\ ~doc[d].deleted
      BY <1>2, <3>2 DEF OneAtATime, GoneOrGoing
    <3>4. \A v \in KnWorkers : Runs(v, d)' => v = w
      BY <2>2, <3>3 DEF Calm
    <3>5. OneAtATime(d)' /\ GoneOrGoing(d)' /\ JobFits(d)'
      BY <1>1, <1>2, <2>2, <3>3, <3>4 DEF OneAtATime, GoneOrGoing, JobFits
    <3>6. Settled(d)'
      BY <2>2 DEF Settled, Calm
    <3>7. QED BY <3>5, <3>6
  <2>5. QED BY <1>4, <1>5, <2>2, <2>3, <2>4, OnlyThisOne
<1>7. CASE ~Live(d)
  <2>1. job' = job
    BY <1>7 DEF StartIngest
  <2>2. \A e \in Docs \ {d} : Untouched(e)
    BY <1>2, <2>1, SameJobs DEF StartIngest, Untouched, KnTyped, QueuesTyped
  <2>3. Unbroken(d)'
    BY <1>2, <1>3, <1>7 DEF Unbroken, GoneOrGoing, Live
  <2>4. QED BY <1>2, <1>4, <1>5, <2>1, <2>2, <2>3, OnlyThisOne DEF KnTyped, JobsTyped
<1>8. QED BY <1>6, <1>7

\* A job that goes on: the document keeps being worked on by it alone.
LEMMA JobGoesOn ==
  ASSUME KnInv, NEW w \in KnWorkers, job[w] # NoJob,
         NEW new \in KnJob, new.doc = job[w].doc, job' = [job EXCEPT ![w] = new],
         new.pc = "ready" => chunks'[job[w].doc] = {new.text},
         \A d \in Docs \ {job[w].doc} : chunks'[d] = chunks[d],
         chunks' \in [Docs -> SUBSET Texts], KnLeftTyped', DocsTyped',
         \A d \in Docs \ {job[w].doc} : doc'[d] = doc[d],
         doc'[job[w].doc].status # "NONE" \/ doc'[job[w].doc] = doc[job[w].doc],
         doc'[job[w].doc].deleted = doc[job[w].doc].deleted,
         UNCHANGED <<page, ingestQueue, request, purging, article, broken>>
  PROVE  KnInv'
<1>1. KnTyped /\ job[w] \in KnJob
  BY DEF KnInv, KnTyped, JobsTyped
<1>2. PICK d \in Docs : d = job[w].doc
  BY <1>1 DEF KnJob
<1>3. new # NoJob
  BY DEF KnJob, NoJob
<1>4. /\ JobsTyped' /\ job'[w] = new
      /\ \A e \in Docs \ {d} : \A v \in KnWorkers : (Runs(v, e)' <=> Runs(v, e)) /\ (Runs(v, e) => job'[v] = job[v])
      /\ \A v \in KnWorkers : Runs(v, d)' <=> Runs(v, d)
      /\ Runs(w, d)'
  <2>1. Runs(w, d)
    BY <1>2 DEF Runs
  <2>2. /\ JobsTyped' /\ job'[w] = new
        /\ \A e \in Docs \ {d} : \A v \in KnWorkers : (Runs(v, e)' <=> Runs(v, e)) /\ (Runs(v, e) => job'[v] = job[v])
        /\ \A v \in KnWorkers \ {w} : Runs(v, d)' <=> Runs(v, d)
        /\ Runs(w, d)' <=> new # NoJob
    <3>1. /\ job' \in [KnWorkers -> KnJob \union {NoJob}] /\ job'[w] = new
          /\ \A v \in KnWorkers \ {w} : job'[v] = job[v]
      BY <1>1 DEF KnTyped, JobsTyped
    <3>2. \A e \in Docs, v \in KnWorkers \ {w} : (Runs(v, e)' <=> Runs(v, e)) /\ (Runs(v, e) => job'[v] = job[v])
      BY <3>1 DEF Runs
    <3>3. \A e \in Docs \ {d} : ~Runs(w, e) /\ ~Runs(w, e)'
      BY <1>2, <3>1 DEF Runs
    <3>4. Runs(w, d)' <=> new # NoJob
      BY <1>2, <3>1 DEF Runs
    <3>5. QED BY <3>1, <3>2, <3>3, <3>4 DEF JobsTyped
  <2>3. QED BY <1>3, <2>1, <2>2
<1>5. KnTyped'
  BY <1>1, <1>4 DEF KnTyped, StoreTyped, QueuesTyped, ArticlesTyped
<1>6. \A e \in Docs \ {d} : Untouched(e)
  BY <1>2, <1>4 DEF Untouched
<1>7. NoneIsIdle(d) /\ Unbroken(d) /\ doc[d].status # "NONE"
  BY <1>4 DEF KnInv, NoneIsIdle, Calm
<1>8. NoneIsIdle(d)'
  BY <1>2, <1>7 DEF NoneIsIdle
<1>9. Unbroken(d)'
  <2>1. SUFFICES ASSUME d \notin broken
                 PROVE  (OneAtATime(d) /\ GoneOrGoing(d) /\ JobFits(d) /\ Settled(d))'
    BY DEF Unbroken
  <2>2. OneAtATime(d) /\ GoneOrGoing(d)
    BY <1>7, <2>1 DEF Unbroken
  <2>3. ~Calm(d) /\ (Calm(d)' <=> Calm(d))
    BY <1>4 DEF Calm
  <2>4. OneAtATime(d)'
    BY <1>4, <2>2, <2>3 DEF OneAtATime
  <2>5. GoneOrGoing(d)'
    BY <1>2, <2>2, <2>3 DEF GoneOrGoing
  <2>6. JobFits(d)'
    <3>1. \A v \in KnWorkers : Runs(v, d)' => v = w
      BY <1>4, <2>4 DEF OneAtATime
    <3>2. QED BY <1>2, <1>4, <3>1 DEF JobFits
  <2>7. Settled(d)'
    BY <2>3 DEF Settled
  <2>8. QED BY <2>4, <2>5, <2>6, <2>7
<1>10. QED BY <1>5, <1>6, <1>8, <1>9, OnlyThisOne

\* A job that ends, and leaves the document failed, or what it has stored, or broken off.
LEMMA JobEnds ==
  ASSUME KnInv, NEW w \in KnWorkers, job[w] # NoJob,
         job' = [job EXCEPT ![w] = NoJob],
         DocsTyped', KnLeftTyped',
         \A d \in Docs \ {job[w].doc} : doc'[d] = doc[d],
         broken \subseteq broken', broken' \subseteq Docs,
         doc'[job[w].doc].status # "NONE" \/ doc'[job[w].doc] = doc[job[w].doc],
         doc'[job[w].doc].deleted = doc[job[w].doc].deleted,
         \/ job[w].doc \in broken'
         \/ doc'[job[w].doc].status = "FAILED"
         \/ /\ job[w].pc = "ready" /\ doc'[job[w].doc].status = "READY"
            /\ doc'[job[w].doc].counted /\ doc'[job[w].doc].text = job[w].text,
         UNCHANGED <<chunks, page, ingestQueue, request, purging, article>>
  PROVE  KnInv'
<1>1. KnTyped /\ job[w] \in KnJob
  BY DEF KnInv, KnTyped, JobsTyped
<1>2. PICK d \in Docs : d = job[w].doc
  BY <1>1 DEF KnJob
<1>3. /\ JobsTyped' /\ job'[w] = NoJob
      /\ \A e \in Docs \ {d} : \A v \in KnWorkers : (Runs(v, e)' <=> Runs(v, e)) /\ (Runs(v, e) => job'[v] = job[v])
      /\ \A v \in KnWorkers \ {w} : Runs(v, d)' <=> Runs(v, d)
      /\ ~Runs(w, d)' /\ Runs(w, d)
  <2>1. Runs(w, d)
    BY <1>2 DEF Runs
  <2>2. NoJob \in KnJob \union {NoJob}
    OBVIOUS
  <2>3. /\ JobsTyped' /\ job'[w] = NoJob
        /\ \A e \in Docs \ {d} : \A v \in KnWorkers : (Runs(v, e)' <=> Runs(v, e)) /\ (Runs(v, e) => job'[v] = job[v])
        /\ \A v \in KnWorkers \ {w} : Runs(v, d)' <=> Runs(v, d)
        /\ Runs(w, d)' <=> NoJob # NoJob
    <3>1. (job[w] # NoJob => job[w].doc = d) /\ (NoJob # NoJob => NoJob.doc = d)
      BY <1>2
    <3>2. QED BY <1>1, <2>2, <3>1, OneWorkerMoves, Zenon
  <2>4. QED BY <2>1, <2>3
<1>4. KnTyped'
  BY <1>1, <1>3 DEF KnTyped, StoreTyped, QueuesTyped, ArticlesTyped
<1>5. \A e \in Docs \ {d} : Untouched(e)
  BY <1>2, <1>3 DEF Untouched
<1>6. NoneIsIdle(d) /\ Unbroken(d) /\ doc[d].status # "NONE"
  BY <1>3 DEF KnInv, NoneIsIdle, Calm
<1>7. NoneIsIdle(d)'
  BY <1>2, <1>6 DEF NoneIsIdle
<1>8. Unbroken(d)'
  <2>1. SUFFICES ASSUME d \notin broken'
                 PROVE  (OneAtATime(d) /\ GoneOrGoing(d) /\ JobFits(d) /\ Settled(d))'
    BY DEF Unbroken
  <2>2. OneAtATime(d) /\ GoneOrGoing(d) /\ JobFits(d)
    BY <1>6, <2>1 DEF Unbroken
  <2>3. /\ NotAsked(d) /\ ingestQueue[d] = 0 /\ ~doc[d].deleted
    <3>1. ~Calm(d) /\ ingestQueue[d] \in Nat
      BY <1>1, <1>3 DEF Calm, KnTyped, QueuesTyped
    <3>2. QED BY <2>2, <3>1 DEF OneAtATime, GoneOrGoing, NotAsked
  <2>4. Calm(d)'
    BY <1>3, <2>2 DEF OneAtATime, Calm
  <2>5. Settled(d)'
    <3>1. job[w].pc = "ready" => job[w].text \in Texts /\ chunks[d] = {job[w].text}
      BY <1>1, <1>3, <2>2 DEF KnJob, JobFits
    <3>2. QED BY <1>2, <2>1, <3>1 DEF Settled
  <2>6. QED BY <1>2, <2>3, <2>4, <2>5 DEF OneAtATime, GoneOrGoing, JobFits, NotAsked, Calm
<1>9. QED BY <1>4, <1>5, <1>7, <1>8, OnlyThisOne

LEMMA ReadSourceKeeps ==
  ASSUME KnInv, NEW w \in KnWorkers, ReadSource(w)
  PROVE  KnInv'
<1>1. KnTyped /\ job[w] \in KnJob /\ job[w] # NoJob
  BY DEF ReadSource, At, KnInv, KnTyped, JobsTyped
<1>2. PICK d \in Docs, text \in {0} \union Texts : d = job[w].doc /\ text = page[d]
  BY <1>1 DEF KnJob, KnTyped, StoreTyped
<1>3. CASE KnUses("faults") /\ job' = [job EXCEPT ![w] = NoJob] /\ broken' = broken \union {d}
  <2>1. KnLeftTyped' /\ broken \subseteq broken' /\ broken' \subseteq Docs
    BY <1>1, <1>3, KnUsesTyped DEF KnTyped, StoreTyped, KnEvents
  <2>2. QED BY <1>1, <1>2, <1>3, <2>1, JobEnds DEF ReadSource, KnTyped, DocsTyped
<1>4. CASE ~(KnUses("faults") /\ job' = [job EXCEPT ![w] = NoJob] /\ broken' = broken \union {d})
  <2>1. PICK pc \in {"fail", "embed"} : pc = IF text = 0 THEN "fail" ELSE "embed"
    OBVIOUS
  <2> DEFINE new == [[job[w] EXCEPT !.text = text] EXCEPT !.pc = pc]
  <2>2. /\ job' = [job EXCEPT ![w] = new]
        /\ broken' = broken /\ knLeft' = knLeft
    BY <1>1, <1>2, <1>4, <2>1 DEF ReadSource, KnTyped, JobsTyped
  <2>3. pc = "embed" => text \in Texts
    BY <2>1
  <2>4. new \in KnJob /\ new.doc = job[w].doc /\ new.pc = pc /\ new.text = text
    BY <1>1, <2>3 DEF KnJob
  <2> HIDE DEF new
  <2>5. QED BY <1>1, <2>2, <2>4, JobGoesOn DEF ReadSource, KnTyped, DocsTyped, StoreTyped, KnLeftTyped
<1>5. QED BY <1>3, <1>4

\* A job that moves to another step with its text.
LEMMA JobStep ==
  ASSUME KnInv, NEW w \in KnWorkers, job[w] # NoJob, NEW pc \in {"replace", "ready", "fail"},
         job[w].pc \in {"embed", "replace", "ready"}, job' = [job EXCEPT ![w].pc = pc]
  PROVE  \E new \in KnJob : /\ job' = [job EXCEPT ![w] = new]
                            /\ new.doc = job[w].doc /\ new.text = job[w].text /\ new.pc = pc
<1>1. job[w] \in KnJob
  BY DEF KnInv, KnTyped, JobsTyped
<1>2. [job[w] EXCEPT !.pc = pc] \in KnJob
  BY <1>1 DEF KnJob
<1>3. job' = [job EXCEPT ![w] = [job[w] EXCEPT !.pc = pc]]
  OBVIOUS
<1>4. QED BY <1>1, <1>2, <1>3 DEF KnJob

LEMMA EmbedKeeps ==
  ASSUME KnInv, NEW w \in KnWorkers, Embed(w)
  PROVE  KnInv'
<1>1. KnTyped /\ job[w] \in KnJob /\ job[w] # NoJob /\ job[w].pc = "embed"
  BY DEF Embed, At, KnInv, KnTyped, JobsTyped
<1>2. PICK pc \in {"replace", "fail"} : job' = [job EXCEPT ![w].pc = pc]
  BY DEF Embed
<1>3. PICK new \in KnJob : /\ job' = [job EXCEPT ![w] = new]
                           /\ new.doc = job[w].doc /\ new.text = job[w].text /\ new.pc = pc
  <2>1. pc \in {"replace", "ready", "fail"} /\ job[w].pc \in {"embed", "replace", "ready"}
    BY <1>1
  <2>2. QED BY <1>1, <1>2, <2>1, JobStep, Zenon
<1>4. KnLeftTyped'
  BY <1>1, KnUsesTyped DEF Embed, KnTyped, KnLeftTyped, KnEvents
<1>5. QED BY <1>1, <1>3, <1>4, JobGoesOn DEF Embed, KnTyped, DocsTyped, StoreTyped

LEMMA ReplaceChunksKeeps ==
  ASSUME KnInv, NEW w \in KnWorkers, ReplaceChunks(w)
  PROVE  KnInv'
<1>1. KnTyped /\ job[w] \in KnJob /\ job[w] # NoJob /\ job[w].pc = "replace"
  BY DEF ReplaceChunks, At, KnInv, KnTyped, JobsTyped
<1>2. PICK d \in Docs, text \in Texts : d = job[w].doc /\ text = job[w].text
  BY <1>1 DEF KnJob
<1>3. \/ chunks' = [chunks EXCEPT ![d] = {text}] /\ job' = [job EXCEPT ![w].pc = "ready"]
      \/ chunks' = chunks /\ job' = [job EXCEPT ![w].pc = "fail"]
  BY <1>1, <1>2 DEF ReplaceChunks, Replaced, KnTyped, StoreTyped
<1>4. /\ chunks' \in [Docs -> SUBSET Texts]
      /\ \A e \in Docs \ {d} : chunks'[e] = chunks[e]
  BY <1>1, <1>3 DEF KnTyped, StoreTyped
<1>5. PICK pc \in {"ready", "fail"} :
        /\ job' = [job EXCEPT ![w].pc = pc]
        /\ pc = "ready" => chunks'[d] = {text}
  BY <1>1, <1>3 DEF KnTyped, StoreTyped
<1>6. PICK new \in KnJob : /\ job' = [job EXCEPT ![w] = new]
                           /\ new.doc = job[w].doc /\ new.text = job[w].text /\ new.pc = pc
  <2>1. pc \in {"replace", "ready", "fail"} /\ job[w].pc \in {"embed", "replace", "ready"}
    BY <1>1
  <2>2. QED BY <1>1, <1>5, <2>1, JobStep, Zenon
<1>7. KnLeftTyped'
  BY <1>1 DEF ReplaceChunks, KnTyped, KnLeftTyped
<1>8. /\ new.pc = "ready" => chunks'[job[w].doc] = {new.text}
      /\ \A e \in Docs \ {job[w].doc} : chunks'[e] = chunks[e]
  BY <1>2, <1>4, <1>5, <1>6
<1>9. UNCHANGED <<doc, page, ingestQueue, request, purging, article, broken>>
  BY DEF ReplaceChunks
<1>10. DocsTyped'
  BY <1>1, <1>9 DEF KnTyped, DocsTyped
<1>11. QED BY <1>1, <1>4, <1>6, <1>7, <1>8, <1>9, <1>10, JobGoesOn

LEMMA MarkReadyKeeps ==
  ASSUME KnInv, NEW w \in KnWorkers, MarkReady(w)
  PROVE  KnInv'
<1>1. KnTyped /\ job[w] \in KnJob /\ job[w] # NoJob /\ job[w].pc = "ready"
  BY DEF MarkReady, At, KnInv, KnTyped, JobsTyped
<1>2. PICK d \in Docs, text \in Texts : d = job[w].doc /\ text = job[w].text
  BY <1>1 DEF KnJob
<1> DEFINE new == [[[doc[d] EXCEPT !.status = "READY"] EXCEPT !.text = text] EXCEPT !.counted = TRUE]
<1>3. doc' = [doc EXCEPT ![d] = new]
  BY <1>1, <1>2 DEF MarkReady, KnTyped, DocsTyped
<1>4. /\ new \in KnDoc /\ new.status = "READY" /\ new.counted /\ new.text = text
      /\ new.deleted = doc[d].deleted
  BY <1>1 DEF KnTyped, DocsTyped, KnDoc, Status
<1> HIDE DEF new
<1>5. /\ DocsTyped' /\ doc'[d] = new
      /\ \A e \in Docs \ {d} : doc'[e] = doc[e]
  BY <1>1, <1>3, <1>4 DEF KnTyped, DocsTyped
<1>6. KnLeftTyped' /\ broken' = broken /\ broken \subseteq Docs
  BY <1>1, KnUsesTyped DEF MarkReady, KnTyped, KnLeftTyped, StoreTyped, KnEvents
<1>7. UNCHANGED <<chunks, page, ingestQueue, request, purging, article>>
  BY DEF MarkReady
<1>8. CASE job' = [job EXCEPT ![w] = NoJob]
  BY <1>1, <1>2, <1>4, <1>5, <1>6, <1>7, <1>8, JobEnds
<1>9. CASE job' = [job EXCEPT ![w].pc = "fail"]
  <2>1. job[w].pc \in {"embed", "replace", "ready"} /\ "fail" \in {"replace", "ready", "fail"}
    BY <1>1
  <2>2. PICK next \in KnJob : /\ job' = [job EXCEPT ![w] = next]
                              /\ next.doc = job[w].doc /\ next.text = job[w].text /\ next.pc = "fail"
    BY <1>1, <1>9, <2>1, JobStep, Zenon
  <2>3. chunks' \in [Docs -> SUBSET Texts]
    BY <1>1, <1>7 DEF KnTyped, StoreTyped
  <2>4. QED BY <1>1, <1>2, <1>4, <1>5, <1>6, <1>7, <2>2, <2>3, JobGoesOn
<1>10. QED BY <1>8, <1>9 DEF MarkReady

LEMMA MarkFailedKeeps ==
  ASSUME KnInv, NEW w \in KnWorkers, MarkFailed(w)
  PROVE  KnInv'
<1>1. KnTyped /\ job[w] \in KnJob /\ job[w] # NoJob
  BY DEF MarkFailed, At, KnInv, KnTyped, JobsTyped
<1>2. PICK d \in Docs : d = job[w].doc
  BY <1>1 DEF KnJob
<1> DEFINE new == [doc[d] EXCEPT !.status = "FAILED"]
<1>3. doc' = [doc EXCEPT ![d] = new]
  BY <1>1, <1>2 DEF MarkFailed, KnTyped, DocsTyped
<1>4. new \in KnDoc /\ new.status = "FAILED" /\ new.deleted = doc[d].deleted
  BY <1>1 DEF KnTyped, DocsTyped, KnDoc, Status
<1> HIDE DEF new
<1>5. /\ DocsTyped' /\ doc'[d] = new
      /\ \A e \in Docs \ {d} : doc'[e] = doc[e]
  BY <1>1, <1>3, <1>4 DEF KnTyped, DocsTyped
<1>6. KnLeftTyped' /\ broken' = broken /\ broken \subseteq Docs
  BY <1>1 DEF MarkFailed, KnTyped, KnLeftTyped, StoreTyped
<1>7. QED BY <1>1, <1>2, <1>4, <1>5, <1>6, JobEnds DEF MarkFailed

\* What runs for a document is counted when the process ends: none, or the one.
LEMMA RunningIsCounted ==
  ASSUME KnTyped, NEW d \in Docs
  PROVE  /\ Cardinality(Running(d)) \in Nat
         /\ Calm(d) <=> Cardinality(Running(d)) = 0
         /\ (\A v, w \in KnWorkers : Runs(v, d) /\ Runs(w, d) => v = w) => Cardinality(Running(d)) <= 1
<1>1. IsFiniteSet(KnWorkers) /\ Running(d) \subseteq KnWorkers
  BY KnowledgeAssumption DEF Running
<1>2. IsFiniteSet(Running(d)) /\ Cardinality(Running(d)) \in Nat
  BY <1>1, FS_Subset, FS_CardinalityType
<1>3. Calm(d) <=> Cardinality(Running(d)) = 0
  <2>1. Running(d) = {} <=> Calm(d)
    BY DEF Running, Calm, Runs
  <2>2. QED BY <1>2, <2>1, FS_EmptySet
<1>4. ASSUME \A v, w \in KnWorkers : Runs(v, d) /\ Runs(w, d) => v = w
      PROVE  Cardinality(Running(d)) <= 1
  <2>1. CASE Calm(d)
    BY <1>3, <2>1
  <2>2. CASE ~Calm(d)
    <3>1. PICK w \in KnWorkers : Runs(w, d)
      BY <2>2 DEF Calm
    <3>2. Running(d) = {w}
      BY <1>4, <3>1 DEF Running, Runs
    <3>3. Cardinality({w}) = 1
      BY FS_Singleton
    <3>4. QED BY <3>2, <3>3
  <2>3. QED BY <2>1, <2>2
<1>5. QED BY <1>2, <1>3, <1>4

LEMMA ProcessDiesKeeps ==
  ASSUME KnInv, KnProcessDies
  PROVE  KnInv'
<1>1. /\ job' = [w \in KnWorkers |-> NoJob] /\ request' = [d \in Docs |-> "none"] /\ purging' = {}
      /\ UNCHANGED <<doc, chunks, page, article>> /\ KnTyped
  BY DEF KnProcessDies, KnInv
<1>2. PICK inline \in BOOLEAN :
        /\ ingestQueue' = [d \in Docs |-> IF inline THEN 0 ELSE ingestQueue[d] + Cardinality(Running(d))]
        /\ broken' = broken \union purging \union {d \in Docs : request[d] # "none"}
                     \union (IF inline THEN {d \in Docs : ingestQueue[d] > 0 \/ Running(d) # {}} ELSE {})
  BY DEF KnProcessDies
<1>3. KnTyped'
  <2>1. KnLeftTyped'
    BY KnUsesTyped DEF KnProcessDies, KnInv, KnEvents
  <2>2. QueuesTyped'
    BY <1>1, <1>2, RunningIsCounted DEF KnTyped, QueuesTyped
  <2>3. StoreTyped' /\ JobsTyped'
    BY <1>1, <1>2 DEF KnTyped, StoreTyped, JobsTyped
  <2>4. QED BY <1>1, <2>1, <2>2, <2>3 DEF KnTyped, DocsTyped, ArticlesTyped
<1>4. ASSUME NEW d \in Docs
      PROVE  NoneIsIdle(d)' /\ Unbroken(d)'
  <2>1. NotAsked(d)' /\ Calm(d)' /\ doc' = doc /\ chunks' = chunks
    BY <1>1 DEF NotAsked, Calm, Runs
  <2>2. NoneIsIdle(d) /\ Unbroken(d) /\ ingestQueue[d] \in Nat
    BY <1>1 DEF KnInv, KnTyped, QueuesTyped
  <2>3. ASSUME ingestQueue[d] = 0, Calm(d)
        PROVE  ingestQueue'[d] = 0
    BY <1>1, <1>2, <2>3, RunningIsCounted
  <2>4. NoneIsIdle(d)'
    BY <2>1, <2>2, <2>3 DEF NoneIsIdle
  <2>5. ASSUME d \notin broken'
        PROVE  (OneAtATime(d) /\ GoneOrGoing(d) /\ JobFits(d) /\ Settled(d))'
    <3>1. d \notin broken /\ NotAsked(d)
      BY <1>2, <2>5 DEF NotAsked
    <3>2. OneAtATime(d) /\ GoneOrGoing(d) /\ Settled(d)
      BY <2>2, <3>1 DEF Unbroken
    <3>3. CASE ingestQueue[d] = 0 /\ Calm(d)
      <4>1. ingestQueue'[d] = 0
        BY <2>3, <3>3
      <4>2. QED BY <2>1, <3>1, <3>2, <3>3, <4>1 DEF OneAtATime, GoneOrGoing, JobFits, Settled, Calm, NotAsked
    <3>4. CASE ~(ingestQueue[d] = 0 /\ Calm(d))
      <4>1. ~inline
        BY <1>2, <2>2, <2>5, <3>4 DEF Running, Calm, Runs
      <4>2. ingestQueue'[d] = 1
        BY <1>1, <1>2, <2>2, <3>2, <3>4, <4>1, RunningIsCounted DEF OneAtATime
      <4>3. ~doc[d].deleted
        BY <3>2, <3>4 DEF GoneOrGoing
      <4>4. QED BY <2>1, <4>2, <4>3 DEF OneAtATime, GoneOrGoing, JobFits, Settled, Calm, NotAsked
    <3>5. QED BY <3>3, <3>4
  <2>6. QED BY <2>4, <2>5 DEF Unbroken
<1>5. QED BY <1>3, <1>4 DEF KnInv

-----------------------------------------------------------------------------
(* Articles, and what is quoted after a step.                                *)

LEMMA ArticleStepsKeep ==
  ASSUME KnInv, NEW a \in Articles,
         \/ BeginArticleUpdate(a) \/ DeleteArticle(a)
         \/ \E active \in BOOLEAN : CreateArticle(a, active) \/ UpdateArticle(a, active)
  PROVE  KnInv' /\ \A b \in Articles : article[b].deleted => article'[b].deleted
<1>0. /\ KnTyped /\ article[a] \in KnArticle
      /\ UNCHANGED <<doc, chunks, page, ingestQueue, job, request, purging, broken>>
  BY DEF BeginArticleUpdate, DeleteArticle, CreateArticle, UpdateArticle, KnInv, KnTyped, ArticlesTyped
<1>1. KnLeftTyped'
  BY <1>0, KnUsesTyped
  DEF BeginArticleUpdate, DeleteArticle, CreateArticle, UpdateArticle, KnTyped, KnLeftTyped, KnEvents
<1>2. PICK new : /\ article' = [article EXCEPT ![a] = new]
                /\ new \in KnArticle /\ (article[a].deleted => new.deleted)
  <2>1. CASE BeginArticleUpdate(a)
    BY <1>0, <2>1 DEF BeginArticleUpdate, KnArticle
  <2>2. CASE DeleteArticle(a)
    BY <1>0, <2>2 DEF DeleteArticle, KnArticle
  <2>3. ASSUME NEW active \in BOOLEAN, CreateArticle(a, active)
        PROVE  \E new : /\ article' = [article EXCEPT ![a] = new]
                        /\ new \in KnArticle /\ (article[a].deleted => new.deleted)
    <3> DEFINE new == [[article[a] EXCEPT !.stored = TRUE] EXCEPT !.active = active]
    <3>1. article' = [article EXCEPT ![a] = new]
      BY <1>0, <2>3 DEF CreateArticle, KnTyped, ArticlesTyped
    <3>2. new \in KnArticle /\ new.deleted = article[a].deleted
      BY <1>0 DEF KnArticle
    <3> HIDE DEF new
    <3>3. QED BY <3>1, <3>2
  <2>4. ASSUME NEW active \in BOOLEAN, UpdateArticle(a, active)
        PROVE  \E new : /\ article' = [article EXCEPT ![a] = new]
                        /\ new \in KnArticle /\ (article[a].deleted => new.deleted)
    <3> DEFINE new == [[article[a] EXCEPT !.edited = FALSE] EXCEPT !.active = active]
    <3>1. article' = [article EXCEPT ![a] = new]
      BY <1>0, <2>4 DEF UpdateArticle, Updated, KnTyped, ArticlesTyped
    <3>2. new \in KnArticle /\ new.deleted = article[a].deleted
      BY <1>0 DEF KnArticle
    <3> HIDE DEF new
    <3>3. QED BY <3>1, <3>2
  <2>5. QED BY <2>1, <2>2, <2>3, <2>4
<1>3. /\ ArticlesTyped'
      /\ \A b \in Articles : article[b].deleted => article'[b].deleted
  BY <1>0, <1>2 DEF KnTyped, ArticlesTyped
<1>4. KnTyped'
  BY <1>0, <1>1, <1>3 DEF KnTyped, DocsTyped, StoreTyped, QueuesTyped, JobsTyped
<1>5. \A d \in Docs : Untouched(d)
  BY <1>0, SameJobs DEF Untouched
<1>6. QED BY <1>3, <1>4, <1>5, UntouchedKeeps DEF KnInv

\* No step brings back what was deleted.
DeletedForGood ==
  /\ \A a \in Articles : article[a].deleted => article'[a].deleted
  /\ \A d \in Docs : doc[d].deleted => doc'[d].deleted

LEMMA DocStepsDeleteForGood ==
  ASSUME KnInv,
         \/ UNCHANGED knVars \/ KnProcessDies
         \/ \E d \in Docs :
              \/ CreateDocument(d) \/ PageChanges(d) \/ BeginReindex(d) \/ MarkPending(d) \/ ClearChunks(d)
              \/ EnqueueIngest(d) \/ DeleteDocument(d) \/ PurgeChunks(d) \/ RequestFails(d)
              \/ \E w \in KnWorkers : StartIngest(w, d)
         \/ \E w \in KnWorkers : ReadSource(w) \/ Embed(w) \/ ReplaceChunks(w) \/ MarkReady(w) \/ MarkFailed(w)
  PROVE  DeletedForGood
<1>1. doc \in [Docs -> KnDoc] /\ article' = article
  BY DEF KnInv, KnTyped, DocsTyped, knVars, KnProcessDies, CreateDocument, PageChanges, BeginReindex, MarkPending,
         ClearChunks, EnqueueIngest, DeleteDocument, PurgeChunks, RequestFails, StartIngest, ReadSource, Embed,
         ReplaceChunks, MarkReady, MarkFailed
<1> DEFINE Goal == \A e \in Docs : doc[e].deleted => doc'[e].deleted
<1>2. ASSUME NEW d \in Docs, CreateDocument(d) \/ MarkPending(d) \/ DeleteDocument(d)
      PROVE  Goal
  <2>1. CASE CreateDocument(d)
    BY <1>1, <2>1 DEF CreateDocument, KnDoc
  <2>2. CASE MarkPending(d)
    BY <1>1, <2>2 DEF MarkPending, KnDoc
  <2>3. CASE DeleteDocument(d)
    BY <1>1, <2>3 DEF DeleteDocument, KnDoc
  <2>4. QED BY <1>2, <2>1, <2>2, <2>3
<1>3. ASSUME NEW w \in KnWorkers, MarkReady(w)
      PROVE  Goal
  BY <1>1, <1>3 DEF MarkReady, KnDoc
<1>4. ASSUME NEW w \in KnWorkers, MarkFailed(w)
      PROVE  Goal
  BY <1>1, <1>4 DEF MarkFailed, KnDoc
<1>5. doc' = doc => Goal
  OBVIOUS
<1>6. Goal
  BY <1>2, <1>3, <1>4, <1>5
  DEF knVars, KnProcessDies, PageChanges, BeginReindex, ClearChunks, EnqueueIngest, PurgeChunks, RequestFails,
      StartIngest, ReadSource, Embed, ReplaceChunks
<1>7. QED BY <1>1, <1>6 DEF DeletedForGood

LEMMA KnowledgeStepKeeps ==
  ASSUME KnInv, [KnNext]_knVars
  PROVE  KnInv' /\ QuotesNothingDeleted
<1>1. ASSUME DeletedForGood
      PROVE  QuotesNothingDeleted
  BY <1>1 DEF DeletedForGood, QuotesNothingDeleted, QuotableArticles, ReadyChunks, Live
<1>2. ASSUME NEW a \in Articles,
             \/ BeginArticleUpdate(a) \/ DeleteArticle(a)
             \/ \E active \in BOOLEAN : CreateArticle(a, active) \/ UpdateArticle(a, active)
      PROVE  KnInv' /\ DeletedForGood
  <2>1. doc' = doc
    BY <1>2 DEF BeginArticleUpdate, DeleteArticle, CreateArticle, UpdateArticle
  <2>2. QED BY <1>2, <2>1, ArticleStepsKeep DEF DeletedForGood
<1>3. ASSUME NEW d \in Docs,
             \/ CreateDocument(d) \/ PageChanges(d) \/ BeginReindex(d) \/ MarkPending(d) \/ ClearChunks(d)
             \/ EnqueueIngest(d) \/ DeleteDocument(d) \/ PurgeChunks(d) \/ RequestFails(d)
             \/ \E w \in KnWorkers : StartIngest(w, d)
      PROVE  KnInv' /\ DeletedForGood
  <2>1. DeletedForGood
    BY <1>3, DocStepsDeleteForGood
  <2>2. QED BY <1>3, <2>1, CreateDocumentKeeps, PageChangesKeeps, BeginReindexKeeps, RequestStepsKeep,
               DeleteDocumentKeeps, PurgeKeeps, RequestFailsKeeps, StartIngestKeeps
<1>4. ASSUME NEW w \in KnWorkers, ReadSource(w) \/ Embed(w) \/ ReplaceChunks(w) \/ MarkReady(w) \/ MarkFailed(w)
      PROVE  KnInv' /\ DeletedForGood
  <2>1. DeletedForGood
    BY <1>4, DocStepsDeleteForGood
  <2>2. QED BY <1>4, <2>1, ReadSourceKeeps, EmbedKeeps, ReplaceChunksKeeps, MarkReadyKeeps, MarkFailedKeeps
<1>5. CASE KnProcessDies
  BY <1>1, <1>5, DocStepsDeleteForGood, ProcessDiesKeeps
<1>6. CASE UNCHANGED knVars
  <2>1. \A d \in Docs : Untouched(d)
    BY <1>6, SameJobs DEF Untouched, knVars
  <2>2. KnTyped'
    BY <1>6 DEF knVars, KnInv, KnTyped, DocsTyped, StoreTyped, QueuesTyped, JobsTyped, ArticlesTyped, KnLeftTyped
  <2>3. QED BY <1>6, <2>1, <2>2, UntouchedKeeps, DocStepsDeleteForGood, <1>1 DEF KnInv
<1>7. QED BY <1>1, <1>2, <1>3, <1>4, <1>5, <1>6 DEF KnNext

LEMMA SettledIsIndexed == KnInv => SettledDocumentIsIndexed
<1> SUFFICES ASSUME KnInv, NEW d \in Docs, ~Working(d), d \notin broken, doc[d].status # "NONE"
             PROVE  IF doc[d].deleted THEN chunks[d] = {}
                    ELSE /\ doc[d].status # "PENDING"
                         /\ doc[d].status = "READY" =>
                              doc[d].counted /\ {c \in ReadyChunks : c[1] = d} = {<<d, doc[d].text>>}
  BY DEF SettledDocumentIsIndexed
<1>1. NotAsked(d) /\ ingestQueue[d] = 0 /\ Calm(d) /\ GoneOrGoing(d) /\ Settled(d)
  BY KnWorkingIs DEF KnInv, Unbroken
<1>2. CASE doc[d].deleted
  BY <1>1, <1>2 DEF GoneOrGoing, NotAsked
<1>3. CASE ~doc[d].deleted
  <2>1. /\ doc[d].status # "PENDING"
        /\ doc[d].status = "READY" => doc[d].counted /\ doc[d].text \in Texts /\ chunks[d] = {doc[d].text}
    BY <1>1, <1>3 DEF Settled
  <2>2. ASSUME doc[d].status = "READY"
        PROVE  {c \in ReadyChunks : c[1] = d} = {<<d, doc[d].text>>}
    BY <1>3, <2>1, <2>2 DEF ReadyChunks, Live
  <2>3. QED BY <1>3, <2>1, <2>2
<1>4. QED BY <1>2, <1>3

LEMMA KnTypesHold == KnInv => KnTypeOK
  BY DEF KnInv, KnTyped, DocsTyped, StoreTyped, QueuesTyped, JobsTyped, ArticlesTyped, KnLeftTyped, KnTypeOK,
         KnDoc, KnArticle, KnJob

-----------------------------------------------------------------------------
(* Once the requests and the jobs of a document are done, and none broke off or ran *)
(* beside another, answers quote the whole of its text and nothing else, or nothing *)
(* when it was deleted, for any number of documents, workers and faults.            *)
THEOREM IngestedDocumentsAreQuoted == PlatformSpec => []IngestedIsQuoted
<1> DEFINE I == part = "knowledge" => KnInv
<1>1. PlatformInit => I
  BY KnowledgeInitially DEF PlatformInit
<1>2. I /\ [PlatformNext]_plVars => I'
  <2> SUFFICES ASSUME I, [PlatformNext]_plVars, part' = "knowledge"
               PROVE  KnInv'
    OBVIOUS
  <2>1. part = "knowledge" /\ [KnNext]_knVars
    BY DEF PlatformNext, plVars
  <2>2. QED BY <2>1, KnowledgeStepKeeps
<1>3. I => IngestedIsQuoted
  BY SettledIsIndexed DEF IngestedIsQuoted
<1>4. QED BY <1>1, <1>2, <1>3, PTL DEF PlatformSpec

\* A document or an article that was deleted is quoted by no answer generated later, whatever
\* edits, reindexings and jobs were under way.
THEOREM DeletedIsNeverQuoted == PlatformSpec => DeletedStaysUnquoted
<1> DEFINE I == part = "knowledge" => KnInv
<1>1. PlatformInit => I
  BY KnowledgeInitially DEF PlatformInit
<1>2. I /\ [PlatformNext]_plVars => I' /\ [part = "knowledge" => QuotesNothingDeleted]_plVars
  <2>1. SUFFICES ASSUME I, [PlatformNext]_plVars
                 PROVE  /\ part' = "knowledge" => KnInv'
                        /\ part = "knowledge" => QuotesNothingDeleted
    OBVIOUS
  <2>2. part' = part /\ (part = "knowledge" => [KnNext]_knVars)
    BY <2>1 DEF PlatformNext, plVars
  <2>3. QED BY <2>1, <2>2, KnowledgeStepKeeps
<1>3. QED BY <1>1, <1>2, PTL DEF PlatformSpec, DeletedStaysUnquoted

-----------------------------------------------------------------------------
(* Quality: the guardrail, and the settings screens.                         *)

QaScore == [made : 0..LastDay, value : {Low, Good}, by : Workers]
QaSettings == [auto : BOOLEAN, rest : {"theirs", "default"}, notice : BOOLEAN, prompt : {"theirs", "saved"}]
QaSheet == [at : {"open", "prompt"}, auto : BOOLEAN, rest : {"theirs", "default"},
            read : BOOLEAN, typed : BOOLEAN]
QaNight == [at : {"scoring", "evaluating", "disabling"}, asOf : 0..LastDay]
QaTrail == [disabled : SUBSET (0..LastDay), spared : SUBSET (0..LastDay)]

DayTyped == day \in 0..LastDay /\ replied \in [yesterday : BOOLEAN, today : BOOLEAN]
ScoresTyped == scores \subseteq QaScore /\ IsFiniteSet(scores)
SheetsTyped == stored \in QaSettings /\ sheet \in [Admins -> QaSheet \union {Unasked}]
NightsTyped == night \in [Workers -> QaNight \union {Off}] /\ trail \in QaTrail

\* No night is decided before it is there, ...
NotAhead ==
  /\ \A w \in Workers : night[w] # Off => night[w].asOf <= day
  /\ \A asOf \in trail.disabled \union trail.spared : asOf <= day
\* ... and each is decided as the design would, but for the day left out.
FiresByDesign(asOf) == \A last \in LastDays(asOf) : DesignedLow(last) \/ LeftOut(last, Good)
SparesByDesign(asOf) ==
  (\A last \in LastDays(asOf) : DesignedLow(last)) => \E last \in LastDays(asOf) : LeftOut(last, Low)
DecidedWell ==
  /\ \A w \in Workers, asOf \in 0..LastDay :
       night[w].at = "disabling" /\ night[w].asOf = asOf => FiresByDesign(asOf)
  /\ \A asOf \in trail.disabled : FiresByDesign(asOf)
  /\ \A asOf \in trail.spared : SparesByDesign(asOf)

QaInv == DayTyped /\ ScoresTyped /\ SheetsTyped /\ NightsTyped /\ NotAhead /\ DecidedWell /\ NoticeStands

-----------------------------------------------------------------------------
(* The guardrail's arithmetic.                                               *)

\* An average is below the threshold when there are more low scores than good ones.
LEMMA MoreLowThanGood ==
  ASSUME NEW S, IsFiniteSet(S), \A s \in S : s.value \in {Low, Good}
  PROVE  /\ Count(S, Low) \in Nat /\ Count(S, Good) \in Nat
         /\ BelowThreshold(S) <=> Count(S, Good) < Count(S, Low)
<1> DEFINE L == {s \in S : s.value = Low}
<1> DEFINE G == {s \in S : s.value = Good}
<1>1. IsFiniteSet(L)
  <2>1. L \subseteq S
    OBVIOUS
  <2>2. QED BY <2>1, FS_Subset
<1>2. IsFiniteSet(G)
  <2>1. G \subseteq S
    OBVIOUS
  <2>2. QED BY <2>1, FS_Subset
<1>3. L \cup G = S /\ L \cap G = {}
  BY DEF Low, Good
<1>4. Cardinality(L \cup G) = Cardinality(L) + Cardinality(G) - Cardinality(L \cap G)
  BY <1>1, <1>2, FS_Union
<1>5. Cardinality(L \cap G) = 0
  BY <1>3, FS_EmptySet
<1>6. PICK low \in Nat : low = Cardinality(L)
  BY <1>1, FS_CardinalityType
<1>7. PICK good \in Nat : good = Cardinality(G)
  BY <1>2, FS_CardinalityType
<1>8. Count(S, Low) = low /\ Count(S, Good) = good
  BY <1>6, <1>7 DEF Count
<1> HIDE DEF L, G
<1>9. Cardinality(S) = low + good
  <2>1. Cardinality(S) = low + good - 0
    BY <1>3, <1>4, <1>5, <1>6, <1>7, Zenon
  <2>2. QED BY <2>1
<1>10. BelowThreshold(S) <=> 2 * low + 4 * good < 3 * (low + good)
  BY <1>8, <1>9 DEF BelowThreshold, SumOf, Low, Good, GuardrailThreshold
<1>11. QED BY <1>8, <1>10

\* The scores of a larger window that are not in the smaller one, of one value, are none.
LEMMA SameCount ==
  ASSUME NEW A, NEW T, A \subseteq T, NEW value, \A s \in T \ A : s.value # value
  PROVE  Count(T, value) = Count(A, value)
<1>1. {s \in T : s.value = value} = {s \in A : s.value = value}
  OBVIOUS
<1>2. QED BY <1>1 DEF Count

LEMMA MoreToCount ==
  ASSUME NEW A, NEW T, A \subseteq T, IsFiniteSet(T), NEW value
  PROVE  Count(A, value) <= Count(T, value)
<1> DEFINE C == {s \in T : s.value = value}
<1> DEFINE B == {s \in A : s.value = value}
<1>1. IsFiniteSet(C)
  <2>1. C \subseteq T
    OBVIOUS
  <2>2. QED BY <2>1, FS_Subset
<1>2. B \subseteq C
  OBVIOUS
<1> HIDE DEF B, C
<1>3. Cardinality(B) <= Cardinality(C)
  BY <1>1, <1>2, FS_Subset
<1>4. QED BY <1>3 DEF Count, B, C

\* The code's window of a day, and the design's: they differ by the oldest day.
LEMMA OneDayApart ==
  ASSUME QaInv, NEW last \in Int
  PROVE  /\ RollingLow(last + 1) => DesignedLow(last) \/ LeftOut(last, Good)
         /\ DesignedLow(last) => RollingLow(last + 1) \/ LeftOut(last, Low)
<1> DEFINE A == In(last + 1)
<1> DEFINE T == DesignWindow(last)
<1>1. \A s \in scores : s.made \in Int /\ s.value \in {Low, Good}
  BY DEF QaInv, ScoresTyped, QaScore
<1>2. A \subseteq T /\ T \subseteq scores /\ \A s \in T \ A : s.made = last - 2 /\ s.value \in {Low, Good}
  BY <1>1 DEF In, Window, WindowDays, DesignWindow
<1>3. /\ RollingLow(last + 1) <=> A # {} /\ BelowThreshold(A)
      /\ DesignedLow(last) <=> T # {} /\ BelowThreshold(T)
  BY DEF RollingLow, DesignedLow
<1>4. \A value \in {Low, Good} : (\E s \in T \ A : s.value = value) => LeftOut(last, value)
  BY <1>2 DEF LeftOut, WindowDays
<1> HIDE DEF A, T
<1>5. IsFiniteSet(T)
  BY <1>2, FS_Subset DEF QaInv, ScoresTyped
<1>6. IsFiniteSet(A)
  BY <1>2, <1>5, FS_Subset
<1>7. /\ Count(T, Low) \in Nat /\ Count(T, Good) \in Nat
      /\ BelowThreshold(T) <=> Count(T, Good) < Count(T, Low)
  BY <1>1, <1>2, <1>5, MoreLowThanGood
<1>8. /\ Count(A, Low) \in Nat /\ Count(A, Good) \in Nat
      /\ BelowThreshold(A) <=> Count(A, Good) < Count(A, Low)
  BY <1>1, <1>2, <1>6, MoreLowThanGood
<1>9. Count(A, Low) <= Count(T, Low) /\ Count(A, Good) <= Count(T, Good)
  BY <1>2, <1>5, MoreToCount
<1>10. ASSUME A # {}, BelowThreshold(A), ~LeftOut(last, Good) PROVE T # {} /\ BelowThreshold(T)
  <2>1. Count(T, Good) = Count(A, Good)
    BY <1>2, <1>4, <1>10, SameCount
  <2>2. QED BY <1>2, <1>7, <1>8, <1>9, <1>10, <2>1
<1>11. ASSUME BelowThreshold(T), ~LeftOut(last, Low) PROVE A # {} /\ BelowThreshold(A)
  <2>1. Count(T, Low) = Count(A, Low)
    BY <1>2, <1>4, <1>11, SameCount
  <2>2. Count(A, Good) < Count(A, Low)
    BY <1>7, <1>8, <1>9, <1>11, <2>1
  <2>3. A # {}
    <3>1. SUFFICES ASSUME A = {} PROVE FALSE
      OBVIOUS
    <3>2. {s \in A : s.value = Low} = {}
      BY <3>1
    <3>3. Count(A, Low) = 0
      BY <3>2, FS_EmptySet DEF Count
    <3>4. QED BY <1>8, <2>2, <3>3
  <2>4. QED BY <1>8, <2>2, <2>3
<1>12. QED BY <1>3, <1>10, <1>11

LEMMA LastDaysAre ==
  ASSUME NEW asOf \in Int
  PROVE  \A last \in LastDays(asOf) : last \in Int /\ last < asOf
  BY DEF LastDays, ConsecutiveDays

LEMMA DecidesByDesign ==
  ASSUME QaInv, NEW asOf \in Int
  PROVE  /\ ShouldDisable(asOf) => FiresByDesign(asOf)
         /\ ~ShouldDisable(asOf) => SparesByDesign(asOf)
<1>1. ShouldDisable(asOf) <=> \A last \in LastDays(asOf) : RollingLow(last + 1)
  BY DEF ShouldDisable, LastDays
<1>2. \A last \in LastDays(asOf) :
        /\ RollingLow(last + 1) => DesignedLow(last) \/ LeftOut(last, Good)
        /\ DesignedLow(last) => RollingLow(last + 1) \/ LeftOut(last, Low)
  <2> SUFFICES ASSUME NEW last \in LastDays(asOf)
               PROVE  /\ RollingLow(last + 1) => DesignedLow(last) \/ LeftOut(last, Good)
                      /\ DesignedLow(last) => RollingLow(last + 1) \/ LeftOut(last, Low)
    OBVIOUS
  <2>1. last \in Int
    BY LastDaysAre
  <2>2. QED BY <2>1, OneDayApart
<1>3. QED BY <1>1, <1>2 DEF FiresByDesign, SparesByDesign

\* Scores that are made later belong to none of the windows of a night.
LEMMA WindowsAreClosed ==
  ASSUME QaInv, scores \subseteq scores', \A s \in scores' \ scores : s.made = day,
         NEW asOf \in 0..LastDay, asOf <= day
  PROVE  FiresByDesign(asOf)' = FiresByDesign(asOf) /\ SparesByDesign(asOf)' = SparesByDesign(asOf)
<1>1. asOf \in Int /\ day \in Int
  BY DEF QaInv, DayTyped
<1>2. ASSUME NEW last \in LastDays(asOf)
      PROVE  /\ DesignedLow(last)' <=> DesignedLow(last)
             /\ LeftOut(last, Good)' <=> LeftOut(last, Good)
             /\ LeftOut(last, Low)' <=> LeftOut(last, Low)
  <2>1. last \in Int /\ last < day
    BY <1>1, <1>2, LastDaysAre
  <2>2. DesignWindow(last)' = DesignWindow(last)
    BY <2>1, <1>1 DEF DesignWindow, WindowDays
  <2>3. DesignedLow(last)' <=> DesignedLow(last)
    BY <2>2 DEF DesignedLow
  <2>4. ASSUME NEW value PROVE LeftOut(last, value)' <=> LeftOut(last, value)
    BY <2>1, <1>1 DEF LeftOut, WindowDays
  <2>5. QED BY <2>3, <2>4
<1>3. QED BY <1>2 DEF FiresByDesign, SparesByDesign

-----------------------------------------------------------------------------
(* Step by step.                                                             *)

LEMMA DaysOfScores ==
  ASSUME NEW D, IsFiniteSet(D), NEW value, NEW w, NEW S,
         \A s : s \in S <=> \E d \in D : s = [made |-> d, value |-> value, by |-> w]
  PROVE  IsFiniteSet(S)
<1> DEFINE f == [d \in D |-> [made |-> d, value |-> value, by |-> w]]
<1>1. f \in Surjection(D, S)
  BY DEF Surjection
<1> HIDE DEF f
<1>2. QED BY <1>1, FS_Surjection

LEMMA QualityInitially == QaInit => QaInv
<1> SUFFICES ASSUME QaInit PROVE QaInv
  OBVIOUS
<1>1. qaLeft.low \in SUBSET (0..(LastDay - 1)) /\ qaLeft.good \in SUBSET (0..(LastDay - 1)) /\ DayTyped
  BY QualityAssumption DEF QaInit, DayTyped
<1>2. ScoresTyped
  <2> DEFINE OfDays(D, value, w) == {[made |-> d, value |-> value, by |-> w] : d \in D}
  <2>1. PICK w \in Workers : scores = OfDays(qaLeft.low, Low, w) \union OfDays(qaLeft.good, Good, w)
    BY DEF QaInit
  <2>2. scores \subseteq QaScore
    BY <1>1, <2>1, QualityAssumption DEF QaScore
  <2>3. IsFiniteSet(0..(LastDay - 1))
    BY FS_Interval, QualityAssumption
  <2>4. IsFiniteSet(qaLeft.low)
    BY <1>1, <2>3, FS_Subset
  <2>5. IsFiniteSet(qaLeft.good)
    BY <1>1, <2>3, FS_Subset
  <2>6. IsFiniteSet(OfDays(qaLeft.low, Low, w)) /\ IsFiniteSet(OfDays(qaLeft.good, Good, w))
    <3>1. ASSUME NEW D, IsFiniteSet(D), NEW value PROVE IsFiniteSet(OfDays(D, value, w))
      <4>1. \A s : s \in OfDays(D, value, w) <=> \E d \in D : s = [made |-> d, value |-> value, by |-> w]
        OBVIOUS
      <4> HIDE DEF OfDays
      <4>2. QED BY <3>1, <4>1, DaysOfScores
    <3> HIDE DEF OfDays
    <3>2. QED BY <2>4, <2>5, <3>1
  <2> HIDE DEF OfDays
  <2>7. IsFiniteSet(scores)
    BY <2>1, <2>6, FS_Union
  <2>8. QED BY <2>2, <2>7 DEF ScoresTyped
<1>3. SheetsTyped /\ NightsTyped
  BY DEF QaInit, SheetsTyped, NightsTyped, QaSettings, QaTrail
<1>4. DecidedWell /\ NotAhead /\ NoticeStands
  BY DEF QaInit, DecidedWell, NotAhead, NoticeStands, Off
<1>5. QED BY <1>1, <1>2, <1>3, <1>4 DEF QaInv

\* What a step leaves alone.
LEMMA QaSame ==
  ASSUME QaInv
  PROVE  /\ UNCHANGED <<day, replied>> => DayTyped'
         /\ scores' = scores => ScoresTyped'
         /\ UNCHANGED <<stored, sheet>> => SheetsTyped'
         /\ UNCHANGED <<night, trail>> => NightsTyped'
         /\ UNCHANGED <<night, trail>> /\ day' \in Int /\ day <= day' => NotAhead'
         /\ UNCHANGED <<scores, night, trail>> => DecidedWell'
         /\ UNCHANGED stored => NoticeStands'
<1>1. /\ UNCHANGED <<day, replied>> => DayTyped'
      /\ scores' = scores => ScoresTyped'
      /\ UNCHANGED <<stored, sheet>> => SheetsTyped'
      /\ UNCHANGED <<night, trail>> => NightsTyped'
      /\ UNCHANGED stored => NoticeStands'
  BY DEF QaInv, DayTyped, ScoresTyped, SheetsTyped, NightsTyped, NoticeStands
<1>2. ASSUME UNCHANGED <<night, trail>>, day <= day', day' \in Int PROVE NotAhead'
  <2>1. \A w \in Workers : night[w] # Off => night[w].asOf \in Int
    BY DEF QaInv, NightsTyped, QaNight
  <2>2. \A asOf \in trail.disabled \union trail.spared : asOf \in Int
    BY DEF QaInv, NightsTyped, QaTrail
  <2>3. day \in Int
    BY DEF QaInv, DayTyped
  <2>4. QED BY <1>2, <2>1, <2>2, <2>3 DEF QaInv, NotAhead
<1>3. UNCHANGED <<scores, night, trail>> => DecidedWell'
  BY DEF QaInv, DecidedWell, FiresByDesign, SparesByDesign, DesignedLow, DesignWindow, LeftOut
<1>4. QED BY <1>1, <1>2, <1>3

LEMMA DaysKeep ==
  ASSUME QaInv, AiReplies \/ Midnight \/ UNCHANGED qaVars
  PROVE  QaInv'
<1>1. UNCHANGED <<scores, stored, night, sheet, trail>>
  BY DEF AiReplies, Midnight, qaVars
<1>2. PICK yesterday \in BOOLEAN, today \in BOOLEAN : replied = [yesterday |-> yesterday, today |-> today]
  BY DEF QaInv, DayTyped
<1>3. DayTyped' /\ day <= day' /\ day' \in Int
  <2>1. CASE AiReplies
    <3>1. replied' = [yesterday |-> yesterday, today |-> TRUE] /\ day' = day
      BY <1>2, <2>1 DEF AiReplies
    <3>2. QED BY <3>1 DEF QaInv, DayTyped
  <2>2. CASE Midnight
    <3>1. replied' = [yesterday |-> today, today |-> FALSE] /\ day' = day + 1 /\ day < LastDay
      BY <1>2, <2>2 DEF Midnight
    <3>2. day' \in 0..LastDay /\ day <= day'
      BY <3>1, QualityAssumption DEF QaInv, DayTyped
    <3>3. QED BY <3>1, <3>2 DEF DayTyped
  <2>3. CASE UNCHANGED qaVars
    BY <2>3 DEF QaInv, DayTyped, qaVars
  <2>4. QED BY <2>1, <2>2, <2>3
<1>4. QED BY <1>1, <1>3, QaSame DEF QaInv

\* A process goes on with its night, or ends it; it may have found no reason to turn auto-reply off.
LEMMA NightMoves ==
  ASSUME QaInv, NEW w \in Workers, NEW new \in QaNight \union {Off},
         night' = [night EXCEPT ![w] = new], day' = day,
         scores \subseteq scores', \A s \in scores' \ scores : s.made = day,
         trail' \in QaTrail, trail'.disabled = trail.disabled,
         \A asOf \in trail'.spared :
           asOf \in trail.spared \/ (asOf \in 0..LastDay /\ asOf <= day /\ SparesByDesign(asOf)),
         new # Off => new.asOf <= day,
         new.at = "disabling" => FiresByDesign(new.asOf)
  PROVE  NightsTyped' /\ NotAhead' /\ DecidedWell'
<1>1. NightsTyped' /\ night'[w] = new /\ \A v \in Workers \ {w} : night'[v] = night[v]
  BY DEF QaInv, NightsTyped
<1>2. NotAhead'
  <2>1. \A v \in Workers : night'[v] # Off => night'[v].asOf <= day
    BY <1>1 DEF QaInv, NotAhead
  <2>2. \A asOf \in trail'.disabled \union trail'.spared : asOf <= day
    BY DEF QaInv, NotAhead
  <2>3. QED BY <2>1, <2>2 DEF NotAhead
<1>3. \A asOf \in 0..LastDay : asOf <= day =>
         (FiresByDesign(asOf) => FiresByDesign(asOf)') /\ (SparesByDesign(asOf) => SparesByDesign(asOf)')
  BY WindowsAreClosed
<1>4. ASSUME NEW v \in Workers, NEW asOf \in 0..LastDay, night'[v].at = "disabling", night'[v].asOf = asOf
      PROVE  FiresByDesign(asOf)'
  <2>1. FiresByDesign(asOf)
    BY <1>1, <1>4 DEF QaInv, DecidedWell
  <2>2. asOf <= day
    BY <1>1, <1>2, <1>4 DEF NotAhead, Off
  <2>3. QED BY <1>3, <2>1, <2>2
<1>5. ASSUME NEW asOf \in trail'.disabled PROVE FiresByDesign(asOf)'
  <2>1. asOf \in 0..LastDay /\ asOf <= day /\ FiresByDesign(asOf)
    BY <1>5 DEF QaInv, NightsTyped, QaTrail, NotAhead, DecidedWell
  <2>2. QED BY <1>3, <2>1
<1>6. ASSUME NEW asOf \in trail'.spared PROVE SparesByDesign(asOf)'
  <2>1. asOf \in 0..LastDay /\ asOf <= day /\ SparesByDesign(asOf)
    <3>1. CASE asOf \in trail.spared
      BY <3>1 DEF QaInv, NightsTyped, QaTrail, NotAhead, DecidedWell
    <3>2. QED BY <1>6, <3>1
  <2>2. QED BY <1>3, <2>1
<1>7. QED BY <1>1, <1>2, <1>4, <1>5, <1>6 DEF DecidedWell

LEMMA StartNightKeeps ==
  ASSUME QaInv, NEW w \in Workers, StartNight(w)
  PROVE  QaInv'
<1> DEFINE new == [at |-> "scoring", asOf |-> day]
<1>1. day \in 0..LastDay /\ trail \in QaTrail
  BY DEF QaInv, DayTyped, NightsTyped
<1>2. new \in QaNight \union {Off} /\ new.at # "disabling" /\ new.asOf <= day
  BY <1>1 DEF QaNight
<1>3. night' = [night EXCEPT ![w] = new] /\ UNCHANGED <<day, replied, scores, stored, sheet, trail>>
  BY DEF StartNight
<1> HIDE DEF new
<1>4. NightsTyped' /\ NotAhead' /\ DecidedWell'
  BY <1>1, <1>2, <1>3, NightMoves
<1>5. QED BY <1>3, <1>4, QaSame DEF QaInv

LEMMA ScoreKeeps ==
  ASSUME QaInv, NEW w \in Workers, Score(w)
  PROVE  QaInv'
<1>1. night[w] \in QaNight /\ night[w].asOf <= day /\ trail \in QaTrail
  BY DEF Score, QaInv, NightsTyped, NotAhead, Off
<1> DEFINE new == [night[w] EXCEPT !.at = "evaluating"]
<1>2. new \in QaNight \union {Off} /\ new.at # "disabling" /\ new.asOf <= day
  BY <1>1 DEF QaNight
<1>3. night' = [night EXCEPT ![w] = new] /\ UNCHANGED <<day, replied, stored, sheet, trail>>
  BY DEF Score
<1> HIDE DEF new
<1>4. ScoresTyped' /\ scores \subseteq scores' /\ \A s \in scores' \ scores : s.made = day
  <2>1. CASE scores' = scores
    BY <2>1, QaSame
  <2>2. ASSUME NEW value \in {Low, Good}, scores' = scores \union {[made |-> day, value |-> value, by |-> w]}
        PROVE  ScoresTyped' /\ scores \subseteq scores' /\ \A s \in scores' \ scores : s.made = day
    <3>1. IsFiniteSet(scores')
      BY <2>2, FS_AddElement DEF QaInv, ScoresTyped
    <3>2. [made |-> day, value |-> value, by |-> w] \in QaScore
      BY DEF QaScore, QaInv, DayTyped
    <3>3. QED BY <2>2, <3>1, <3>2 DEF QaInv, ScoresTyped
  <2>3. QED BY <2>1, <2>2 DEF Score
<1>5. NightsTyped' /\ NotAhead' /\ DecidedWell'
  BY <1>1, <1>2, <1>3, <1>4, NightMoves
<1>6. QED BY <1>3, <1>4, <1>5, QaSame DEF QaInv

LEMMA EvaluateKeeps ==
  ASSUME QaInv, NEW w \in Workers, Evaluate(w)
  PROVE  QaInv'
<1>1. /\ night[w] \in QaNight /\ night[w].asOf <= day /\ trail \in QaTrail
      /\ UNCHANGED <<day, replied, scores, stored, sheet>>
  BY DEF Evaluate, QaInv, NightsTyped, NotAhead, Off
<1>2. PICK asOf \in 0..LastDay : asOf = night[w].asOf
  BY <1>1 DEF QaNight
<1>3. /\ ShouldDisable(asOf) => FiresByDesign(asOf)
      /\ ~ShouldDisable(asOf) => SparesByDesign(asOf)
  BY DecidesByDesign
<1>4. PICK spared \in SUBSET (0..LastDay) :
        /\ spared = IF ShouldDisable(asOf) THEN trail.spared ELSE trail.spared \union {asOf}
        /\ trail' = [trail EXCEPT !.spared = spared]
  BY <1>1, <1>2 DEF Evaluate, QaTrail
<1>5. /\ trail' \in QaTrail /\ trail'.disabled = trail.disabled
      /\ \A d \in trail'.spared : d \in trail.spared \/ (d \in 0..LastDay /\ d <= day /\ SparesByDesign(d))
  <2>1. trail' \in QaTrail /\ trail'.disabled = trail.disabled /\ trail'.spared = spared
    BY <1>1, <1>4 DEF QaTrail
  <2>2. QED BY <1>1, <1>2, <1>3, <1>4, <2>1
<1>6. PICK new \in QaNight \union {Off} :
        /\ night' = [night EXCEPT ![w] = new]
        /\ new # Off => new.asOf = asOf /\ ShouldDisable(asOf)
  <2>1. CASE ShouldDisable(asOf) /\ stored.auto
    <3> DEFINE going == [night[w] EXCEPT !.at = "disabling"]
    <3>1. going \in QaNight /\ going.asOf = asOf
      BY <1>1, <1>2 DEF QaNight
    <3>2. night' = [night EXCEPT ![w] = going]
      BY <1>2, <2>1 DEF Evaluate
    <3> HIDE DEF going
    <3>3. QED BY <2>1, <3>1, <3>2
  <2>2. CASE ~(ShouldDisable(asOf) /\ stored.auto)
    BY <1>2, <2>2 DEF Evaluate
  <2>3. QED BY <2>1, <2>2
<1>7. /\ new # Off => new.asOf <= day
      /\ new.at = "disabling" => FiresByDesign(new.asOf)
  BY <1>1, <1>2, <1>3, <1>6 DEF Off
<1>8. NightsTyped' /\ NotAhead' /\ DecidedWell'
  BY <1>1, <1>5, <1>6, <1>7, NightMoves
<1>9. QED BY <1>1, <1>8, QaSame DEF QaInv

LEMMA NightFailsKeeps ==
  ASSUME QaInv, NEW w \in Workers, NightFails(w)
  PROVE  QaInv'
<1>1. night' = [night EXCEPT ![w] = Off] /\ UNCHANGED <<day, replied, scores, stored, sheet, trail>>
  BY DEF NightFails
<1>2. Off.at # "disabling" /\ trail \in QaTrail
  BY DEF Off, QaInv, NightsTyped
<1>3. NightsTyped' /\ NotAhead' /\ DecidedWell'
  BY <1>1, <1>2, NightMoves
<1>4. QED BY <1>1, <1>3, QaSame DEF QaInv

LEMMA DisableKeeps ==
  ASSUME QaInv, NEW w \in Workers, Disable(w)
  PROVE  QaInv'
<1>1. /\ night[w] \in QaNight /\ night[w].at = "disabling" /\ night[w].asOf <= day
      /\ stored \in QaSettings /\ trail \in QaTrail /\ sheet \in [Admins -> QaSheet \union {Unasked}]
      /\ UNCHANGED <<day, replied, scores, sheet>>
  BY DEF Disable, QaInv, NightsTyped, NotAhead, SheetsTyped, Off
<1>2. PICK asOf \in 0..LastDay : asOf = night[w].asOf /\ FiresByDesign(asOf)
  BY <1>1 DEF QaNight, QaInv, DecidedWell
<1>3. stored' \in QaSettings /\ ~stored'.auto
  BY <1>1 DEF Disable, QaSettings
<1>4. SheetsTyped' /\ NoticeStands'
  BY <1>1, <1>3 DEF SheetsTyped, NoticeStands
<1>5. trail' \in QaTrail /\ trail'.disabled = trail.disabled \union {asOf} /\ trail'.spared = trail.spared
  BY <1>1, <1>2 DEF Disable, QaTrail
<1>6. /\ night' \in [Workers -> QaNight \union {Off}] /\ night'[w] = Off
      /\ \A v \in Workers \ {w} : night'[v] = night[v]
  BY DEF Disable, QaInv, NightsTyped
<1>7. NightsTyped'
  BY <1>5, <1>6 DEF NightsTyped
<1>8. NotAhead'
  BY <1>1, <1>2, <1>5, <1>6 DEF QaInv, NotAhead
<1>9. DecidedWell'
  <2>1. \A d : (FiresByDesign(d) => FiresByDesign(d)') /\ (SparesByDesign(d) => SparesByDesign(d)')
    BY <1>1 DEF FiresByDesign, SparesByDesign, DesignedLow, DesignWindow, LeftOut
  <2>2. /\ \A v \in Workers, d \in 0..LastDay : night'[v].at = "disabling" /\ night'[v].asOf = d => FiresByDesign(d)
        /\ \A d \in trail'.disabled : FiresByDesign(d)
        /\ \A d \in trail'.spared : SparesByDesign(d)
    BY <1>2, <1>5, <1>6 DEF QaInv, DecidedWell, Off
  <2>3. QED BY <2>1, <2>2 DEF DecidedWell
<1>10. QED BY <1>1, <1>4, <1>7, <1>8, <1>9, QaSame DEF QaInv

\* One screen moves.
LEMMA SheetMoves ==
  ASSUME QaInv, NEW a \in Admins, NEW new \in QaSheet \union {Unasked},
         sheet' = [sheet EXCEPT ![a] = new], stored' \in QaSettings, NoticeStands',
         UNCHANGED <<day, replied, scores, night, trail>>
  PROVE  QaInv'
<1>1. SheetsTyped'
  BY DEF QaInv, SheetsTyped
<1>2. day \in Int
  BY DEF QaInv, DayTyped
<1>3. QED BY <1>1, <1>2, QaSame DEF QaInv

LEMMA OpenSheetKeeps ==
  ASSUME QaInv, NEW a \in Admins, OpenSheet(a)
  PROVE  QaInv'
<1>1. stored \in QaSettings /\ UNCHANGED <<day, replied, scores, stored, night, trail>>
  BY DEF OpenSheet, QaInv, SheetsTyped
<1>2. PICK auto \in BOOLEAN, rest \in {"theirs", "default"}, read \in BOOLEAN :
        sheet' = [sheet EXCEPT ![a] = [at |-> "open", auto |-> auto, rest |-> rest,
                                       read |-> read, typed |-> FALSE]]
  <2>1. CASE sheet' = [sheet EXCEPT ![a] = [at |-> "open", auto |-> stored.auto, rest |-> stored.rest,
                                            read |-> TRUE, typed |-> FALSE]]
    BY <1>1, <2>1 DEF QaSettings
  <2>2. CASE sheet' = [sheet EXCEPT ![a] = [at |-> "open", auto |-> Defaults.auto, rest |-> Defaults.rest,
                                            read |-> FALSE, typed |-> FALSE]]
    BY <2>2 DEF Defaults
  <2>3. QED BY <2>1, <2>2 DEF OpenSheet
<1> DEFINE new == [at |-> "open", auto |-> auto, rest |-> rest, read |-> read, typed |-> FALSE]
<1>3. new \in QaSheet
  BY DEF QaSheet
<1>4. sheet' = [sheet EXCEPT ![a] = new]
  BY <1>2
<1> HIDE DEF new
<1>5. QED BY <1>1, <1>3, <1>4, QaSame, SheetMoves

LEMMA FlipKeeps ==
  ASSUME QaInv, NEW a \in Admins, Flip(a)
  PROVE  QaInv'
<1>1. /\ stored \in QaSettings /\ sheet[a] \in QaSheet /\ sheet[a].at = "open"
      /\ UNCHANGED <<day, replied, scores, stored, night, trail>>
  BY DEF Flip, QaInv, SheetsTyped, Unasked
<1>2. PICK auto \in BOOLEAN : auto = ~sheet[a].auto
  OBVIOUS
<1> DEFINE new == [[sheet[a] EXCEPT !.auto = auto] EXCEPT !.typed = TRUE]
<1>3. sheet' = [sheet EXCEPT ![a] = new]
  BY <1>1, <1>2 DEF Flip, QaInv, SheetsTyped
<1>4. new \in QaSheet
  BY <1>1 DEF QaSheet
<1> HIDE DEF new
<1>5. QED BY <1>1, <1>3, <1>4, QaSame, SheetMoves

LEMMA SavePromptKeeps ==
  ASSUME QaInv, NEW a \in Admins, SavePrompt(a)
  PROVE  QaInv'
<1>1. /\ stored \in QaSettings /\ sheet[a] \in QaSheet /\ sheet[a].at = "prompt"
      /\ UNCHANGED <<day, replied, scores, night, trail>>
  BY DEF SavePrompt, QaInv, SheetsTyped, Unasked
<1>2. stored' \in QaSettings /\ stored'.auto = stored.auto /\ stored'.notice = stored.notice
  BY <1>1 DEF SavePrompt, QaSettings
<1>3. NoticeStands'
  BY <1>2 DEF QaInv, NoticeStands
<1> DEFINE new == [[sheet[a] EXCEPT !.at = "open"] EXCEPT !.typed = FALSE]
<1>4. sheet' = [sheet EXCEPT ![a] = new]
  BY <1>1 DEF SavePrompt, QaInv, SheetsTyped
<1>5. new \in QaSheet
  BY <1>1 DEF QaSheet
<1> HIDE DEF new
<1>6. QED BY <1>1, <1>2, <1>3, <1>4, <1>5, SheetMoves

LEMMA CloseSheetKeeps ==
  ASSUME QaInv, NEW a \in Admins, CloseSheet(a)
  PROVE  QaInv'
<1>1. /\ stored \in QaSettings /\ sheet' = [sheet EXCEPT ![a] = Unasked]
      /\ UNCHANGED <<day, replied, scores, stored, night, trail>>
  BY DEF CloseSheet, QaInv, SheetsTyped
<1>2. QED BY <1>1, QaSame, SheetMoves

LEMMA SaveSettingsKeeps ==
  ASSUME QaInv, NEW a \in Admins, SaveSettings(a)
  PROVE  QaInv'
<1>1. /\ stored \in QaSettings /\ sheet[a] \in QaSheet
      /\ UNCHANGED <<day, replied, scores, night, trail>>
  BY DEF SaveSettings, QaInv, SheetsTyped, Unasked
<1>2. PICK auto \in BOOLEAN, rest \in {"theirs", "default"} : (auto <=> sheet[a].auto) /\ rest = sheet[a].rest
  BY <1>1 DEF QaSheet
<1>3. PICK notice \in BOOLEAN : notice = (stored.notice /\ ~auto)
  OBVIOUS
<1>4. stored' = [[[stored EXCEPT !.auto = auto] EXCEPT !.rest = rest] EXCEPT !.notice = notice]
  BY <1>1, <1>2, <1>3 DEF SaveSettings, Written, QaSettings, QaSheet
<1>5. /\ stored' \in QaSettings /\ stored'.auto = auto /\ stored'.notice = notice
  BY <1>1, <1>4 DEF QaSettings
<1>6. NoticeStands'
  BY <1>3, <1>5 DEF NoticeStands
<1> DEFINE new == [sheet[a] EXCEPT !.at = "prompt"]
<1>7. new \in QaSheet /\ sheet' = [sheet EXCEPT ![a] = new]
  BY <1>1 DEF SaveSettings, QaSheet
<1> HIDE DEF new
<1>8. QED BY <1>1, <1>5, <1>6, <1>7, SheetMoves

LEMMA QualityStepKeeps ==
  ASSUME QaInv, [QaNext]_qaVars
  PROVE  QaInv'
  BY DaysKeep, StartNightKeeps, ScoreKeeps, EvaluateKeeps, DisableKeeps, NightFailsKeeps,
     OpenSheetKeeps, FlipKeeps, SaveSettingsKeeps, SavePromptKeeps, CloseSheetKeeps DEF QaNext

LEMMA QaTypesHold == QaInv => QaTypeOK
  BY DEF QaInv, DayTyped, ScoresTyped, SheetsTyped, NightsTyped, QaTypeOK,
         QaScore, QaSettings, QaSheet, QaNight, QaTrail

LEMMA QualityFollows == QaInv => QualityHolds
  BY DEF QaInv, DecidedWell, FiresByDesign, SparesByDesign, QualityHolds, GuardrailMissesOneDay

-----------------------------------------------------------------------------
(* The guardrail decides each night as the design's windows of three days would,    *)
(* except over scores of the oldest day of a window, which the code leaves out; and *)
(* its notice stands only while auto-reply is off, whatever screens are saved: for  *)
(* any number of processes, administrators, nights, scores and days.                *)
THEOREM GuardrailDecidesByDesign == PlatformSpec => []GuardrailStands
<1> DEFINE I == part = "quality" => QaInv
<1>1. PlatformInit => I
  BY QualityInitially DEF PlatformInit
<1>2. I /\ [PlatformNext]_plVars => I'
  <2> SUFFICES ASSUME I, [PlatformNext]_plVars, part' = "quality"
               PROVE  QaInv'
    OBVIOUS
  <2>1. part = "quality" /\ [QaNext]_qaVars
    BY DEF PlatformNext, plVars
  <2>2. QED BY <2>1, QualityStepKeeps
<1>3. I => GuardrailStands
  BY QualityFollows DEF GuardrailStands
<1>4. QED BY <1>1, <1>2, <1>3, PTL DEF PlatformSpec

-----------------------------------------------------------------------------
(* Workbench: the list, the panel and the question.                          *)

ConvOrNone == WbConvs \union {NoRow}
WbEntry == [id : WbConvs, status : Statuses, mark : BOOLEAN]
WbRow == [status : Statuses, mark : BOOLEAN, notes : Nat, tel : ConvOrNone]
WbSide == [of : ConvOrNone, notes : Nat, tel : ConvOrNone, typed : ConvOrNone, editing : BOOLEAN]
WbLook == [of : WbConvs, at : {"sent", "served"}, notes : Nat, tel : ConvOrNone, calm : BOOLEAN]
\* The first page is loaded, or more after some that are listed.
WbLoad == {l \in [more : BOOLEAN, from : Nat, at : {"sent", "served"}, rows : Seq(WbEntry), calm : BOOLEAN] :
             l.more <=> l.from > 0}
WbCall == [do : CallKinds, of : WbConvs, status : Statuses, tel : ConvOrNone, answer : BOOLEAN,
           at : {"sent", "served"}, calm : BOOLEAN]

OrderTyped == order \in [WbConvs -> WbConvs] /\ \A c \in WbConvs : \E i \in WbConvs : order[i] = c
RowsTyped == row \in [WbConvs -> WbRow]
ListTyped == list \in [rows : Seq(WbEntry), older : BOOLEAN] /\ (list.older => list.rows # <<>>)
ChosenTyped == sel \in ConvOrNone /\ asked \in ConvOrNone /\ dialog \in ConvOrNone
RequestsTyped ==
  /\ loads \subseteq WbLoad /\ looks \subseteq WbLook /\ changes \subseteq WbCall
  /\ \A k \in changes : k.do = "asked" => k.of = asked
WitnessesTyped ==
  /\ crossed \in BOOLEAN /\ raced \in BOOLEAN /\ jumped \in BOOLEAN
  /\ astray \in {"no", "in haste", "calmly"} /\ wbLeft \in [WbEvents -> Nat]
BenchTyped ==
  /\ OrderTyped /\ RowsTyped /\ ListTyped /\ ChosenTyped /\ side \in WbSide /\ RequestsTyped
  /\ WitnessesTyped

\* What was read undisturbed is so.
CalmLooks == \A l \in looks : l.at = "served" /\ l.calm => l.notes = row[l.of].notes /\ l.tel = row[l.of].tel
CalmLoads == \A l \in loads : l.at = "served" /\ l.calm => l.rows = PageFrom(l.from)
CalmCalls ==
  \A k \in changes : k.at = "served" =>
    /\ k.do # "asked"
    /\ k.calm /\ k.do \in {"open", "status"} => row[k.of].status = k.status
    /\ k.calm /\ k.do = "edit" => row[k.of].mark = k.answer
    /\ k.calm /\ k.do = "contact" => row[k.of].tel = k.tel

\* Older rows are asked for one page at a time, and go after those that are listed.
OneOlder == \A l, m \in loads : l.more /\ m.more => l = m
Appended == ~crossed => \A l \in loads : l.more /\ l.calm => l.from = Len(list.rows)

\* An answer that will put a row right is on its way.
Owed(kinds, c) == \E k \in changes : k.do \in kinds /\ k.of = c /\ k.at = "served"
NoFirstPage == \A l \in loads : l.more
RowIsTrue(i) ==
  /\ i \in WbConvs /\ list.rows[i].id = order[i]
  /\ list.rows[i].status = row[order[i]].status \/ Owed({"open", "status"}, order[i])
  /\ list.rows[i].mark = row[order[i]].mark \/ Owed({"edit"}, order[i])
ListInv ==
  ~crossed /\ NoFirstPage =>
    /\ \A i \in DOMAIN list.rows : RowIsTrue(i)
    /\ list.rows # <<>> \/ WbConvs = {}
    /\ sel # NoRow => sel \in Listed

QuestionInv ==
  /\ QuestionIsOfTheOpen
  /\ \A k \in changes : k.do = "count" => k.of = sel \/ jumped

\* No phone went astray, and it is of the open conversation.
Mine(tel) == astray = "no" => tel \in {NoRow, sel}
PanelCalls == Changing({"note", "contact"})
PanelKept ==
  /\ looks = {} =>
       /\ side.of = sel
       /\ side.notes = row[sel].notes \/ Owed({"note"}, sel)
       /\ side.tel = row[sel].tel \/ Owed({"contact"}, sel)
  /\ \/ side.of = sel /\ Mine(side.tel) /\ Mine(side.typed)
     \/ side.of # sel /\ ~Unsaved /\ looks # {}
PanelInv ==
  ~raced =>
    /\ \A l \in looks : l.of = sel
    /\ \A k \in PanelCalls : k.of = sel
    /\ ~OpenRow => looks = {} /\ PanelCalls = {} /\ side.of = NoRow /\ ~Unsaved
    /\ OpenRow => PanelKept

\* Until a phone went astray, each is of its customer, wherever it is.
PhonesAtHome ==
  /\ astray # "calmly"
  /\ astray = "no" =>
       /\ \A c \in WbConvs : row[c].tel \in {NoRow, c}
       /\ \A k \in changes : k.do = "contact" => k.tel \in {NoRow, k.of}
       /\ \A l \in looks : l.at = "served" => l.tel \in {NoRow, l.of}

BenchInv ==
  /\ BenchTyped /\ CalmLooks /\ CalmLoads /\ CalmCalls /\ OneOlder /\ Appended
  /\ ListInv /\ QuestionInv /\ PanelInv /\ PhonesAtHome

LEMMA OrderIsSequence == OrderTyped => order \in Seq(WbConvs) /\ Len(order) = WbSize /\ DOMAIN order = WbConvs
  BY WorkbenchAssumption DEF OrderTyped, WbConvs

LEMMA EntryTyped ==
  ASSUME RowsTyped, NEW c \in WbConvs
  PROVE  EntryOf(c) \in WbEntry /\ EntryOf(c).id = c /\ EntryOf(c).status = row[c].status
         /\ EntryOf(c).mark = row[c].mark
  BY DEF RowsTyped, WbRow, EntryOf, WbEntry

LEMMA PageTyped ==
  ASSUME OrderTyped, RowsTyped, NEW from \in Nat
  PROVE  /\ PageFrom(from) \in Seq(WbEntry)
         /\ \A j \in DOMAIN PageFrom(from) : from + j \in WbConvs /\ PageFrom(from)[j] = EntryOf(order[from + j])
         /\ WbConvs # {} => PageFrom(0) # <<>>
<1> DEFINE last == IF from + WbPage > Len(order) THEN Len(order) ELSE from + WbPage
           size == IF from < last THEN last - from ELSE 0
<1>1. Len(order) = WbSize /\ WbSize \in Nat /\ WbPage \in Nat /\ WbPage > 0
  BY OrderIsSequence, WorkbenchAssumption
<1>2. last \in Nat /\ last <= WbSize /\ size \in Nat /\ 1..(last - from) = 1..size
  BY <1>1
<1>3. PageFrom(from) = [j \in 1..size |-> EntryOf(order[from + j])]
  BY <1>2 DEF PageFrom
<1>4. \A j \in 1..size : from + j \in WbConvs
  BY <1>1, <1>2 DEF WbConvs
<1>5. \A j \in 1..size : EntryOf(order[from + j]) \in WbEntry
  BY <1>4, EntryTyped DEF OrderTyped
<1> HIDE DEF size, last
<1>6. PageFrom(from) \in Seq(WbEntry)
  BY <1>2, <1>3, <1>5
<1>7. \A j \in DOMAIN PageFrom(from) : from + j \in WbConvs /\ PageFrom(from)[j] = EntryOf(order[from + j])
  BY <1>3, <1>4
<1>8. WbConvs # {} => PageFrom(0) # <<>>
  <2> SUFFICES ASSUME WbConvs # {} PROVE PageFrom(0) # <<>>
    OBVIOUS
  <2> DEFINE end == IF 0 + WbPage > Len(order) THEN Len(order) ELSE 0 + WbPage
  <2>1. WbSize > 0
    BY <1>1 DEF WbConvs
  <2>2. end \in Nat /\ end > 0
    BY <1>1, <2>1
  <2>3. PageFrom(0) = [j \in 1..(end - 0) |-> EntryOf(order[0 + j])]
    BY DEF PageFrom
  <2> HIDE DEF end
  <2>4. DOMAIN PageFrom(0) = 1..end
    BY <2>2, <2>3
  <2>5. 1 \in DOMAIN PageFrom(0)
    BY <2>2, <2>4
  <2>6. QED BY <2>5
<1>9. QED BY <1>6, <1>7, <1>8

LEMMA IdsTyped ==
  ASSUME NEW rows \in Seq(WbEntry)
  PROVE  IdsOf(rows) \subseteq WbConvs /\ \A i \in DOMAIN rows : rows[i] \in WbEntry
<1>1. \A i \in DOMAIN rows : rows[i] \in WbEntry
  OBVIOUS
<1>2. QED BY <1>1 DEF IdsOf, WbEntry

LEMMA NoneIsNoConv == NoRow \notin WbConvs
  BY DEF NoRow, WbConvs

LEMMA BenchInitially == WbInit => BenchInv
<1> SUFFICES ASSUME WbInit PROVE BenchInv
  OBVIOUS
<1> USE DEF WbInit
<1>1. OrderTyped
  BY DEF OrderTyped
<1>2. \A c \in WbConvs : row[c].tel \in {NoRow, c}
  <2>1. PICK b \in WbBounds :
          row = [c \in WbConvs |-> [status |-> b.status, mark |-> FALSE, notes |-> 0, tel |-> IF c = 1 THEN c ELSE NoRow]]
    OBVIOUS
  <2>2. QED BY <2>1
<1>3. RowsTyped /\ asked \in ConvOrNone /\ wbLeft \in [WbEvents -> Nat]
  <2>1. PICK b \in WbBounds :
          /\ wbLeft = b.left /\ asked = b.asked
          /\ row = [c \in WbConvs |-> [status |-> b.status, mark |-> FALSE, notes |-> 0, tel |-> IF c = 1 THEN c ELSE NoRow]]
    OBVIOUS
  <2>2. b.left \in [WbEvents -> Nat] /\ b.status \in Statuses /\ b.asked \in ConvOrNone
    BY WorkbenchAssumption DEF ConvOrNone
  <2>3. \A c \in WbConvs : (IF c = 1 THEN c ELSE NoRow) \in ConvOrNone
    BY DEF ConvOrNone
  <2>4. QED BY <2>1, <2>2, <2>3 DEF RowsTyped, WbRow
<1>4. PageFrom(0) \in Seq(WbEntry) /\ (WbConvs # {} => PageFrom(0) # <<>>)
      /\ \A j \in DOMAIN PageFrom(0) : j \in WbConvs /\ PageFrom(0)[j] = EntryOf(order[j])
  <2> DEFINE first == PageFrom(0)
  <2>1. /\ first \in Seq(WbEntry)
        /\ \A j \in DOMAIN first : 0 + j \in WbConvs /\ first[j] = EntryOf(order[0 + j])
        /\ WbConvs # {} => first # <<>>
    BY <1>1, <1>3, PageTyped
  <2> HIDE DEF first
  <2>2. \A j \in DOMAIN first : j \in Nat
    BY <2>1
  <2>3. \A j \in DOMAIN first : 0 + j = j
    BY <2>2
  <2>4. \A j \in DOMAIN first : j \in WbConvs /\ first[j] = EntryOf(order[j])
    BY <2>1, <2>3
  <2>5. QED BY <2>1, <2>4 DEF first
<1>5. ListTyped
  <2>1. WbSize >= WbPage => 1 \in WbConvs
    BY WorkbenchAssumption DEF WbConvs
  <2>2. list.rows = PageFrom(0) /\ list.older = (WbSize >= WbPage)
        /\ list \in [rows : Seq(WbEntry), older : BOOLEAN]
    BY <1>4
  <2>3. QED BY <1>4, <2>1, <2>2 DEF ListTyped
<1>6. BenchTyped
  BY <1>1, <1>3, <1>5 DEF BenchTyped, ChosenTyped, RequestsTyped, WitnessesTyped, ConvOrNone, WbSide
<1>7. CalmLooks /\ CalmLoads /\ CalmCalls /\ OneOlder /\ Appended
  BY DEF CalmLooks, CalmLoads, CalmCalls, OneOlder, Appended
<1>8. ListInv
  <2>1. list.rows = PageFrom(0)
    OBVIOUS
  <2>2. ASSUME NEW i \in DOMAIN list.rows PROVE RowIsTrue(i)
    <3>1. i \in WbConvs /\ order[i] \in WbConvs /\ list.rows[i] = EntryOf(order[i])
      BY <1>1, <1>4, <2>1 DEF OrderTyped
    <3>2. QED BY <1>3, <3>1, EntryTyped DEF RowIsTrue
  <2>3. QED BY <1>4, <2>1, <2>2 DEF ListInv
<1>9. QuestionInv /\ PanelInv
  <2>1. list.rows = PageFrom(0) /\ sel = NoRow
    OBVIOUS
  <2>2. ~OpenRow
    BY <1>4, <2>1, IdsTyped, NoneIsNoConv DEF OpenRow, Listed
  <2>3. QED BY <2>2 DEF QuestionInv, QuestionIsOfTheOpen, PanelInv, PanelCalls, Changing, Unsaved
<1>10. PhonesAtHome
  BY <1>2 DEF PhonesAtHome
<1>11. QED BY <1>6, <1>7, <1>8, <1>9, <1>10 DEF BenchInv

(* What a step that leaves something alone keeps. *)

LEMMA LooksStayCalm ==
  ASSUME CalmLooks, row' = row, \A l \in looks' : l \in looks \/ l.at = "sent"
  PROVE  CalmLooks'
  BY DEF CalmLooks

LEMMA PagesSame == ASSUME row' = row, order' = order, NEW from PROVE PageFrom(from)' = PageFrom(from)
  BY DEF PageFrom, EntryOf

LEMMA LoadsStayCalm ==
  ASSUME CalmLoads, row' = row, order' = order, \A l \in loads' : l \in loads \/ l.at = "sent" \/ ~l.calm
  PROVE  CalmLoads'
  BY PagesSame DEF CalmLoads

LEMMA CallsStayCalm ==
  ASSUME CalmCalls, row' = row, \A k \in changes' : k \in changes \/ k.at = "sent"
  PROVE  CalmCalls'
  BY DEF CalmCalls

LEMMA OlderStays ==
  ASSUME OneOlder, Appended, \A l \in loads' : l \in loads, crossed => crossed', crossed \/ Len(list'.rows) = Len(list.rows)
  PROVE  OneOlder' /\ Appended'
  BY DEF OneOlder, Appended

\* The list stays as true as it was.
LEMMA ListStays ==
  ASSUME ListInv, UNCHANGED <<order, row, list, sel>>, crossed => crossed', NoFirstPage' => NoFirstPage,
         \A k \in changes : k.do \in {"open", "status", "edit"} => k \in changes'
  PROVE  ListInv'
<1> SUFFICES ASSUME ~crossed', NoFirstPage' PROVE ListInv!2'
  BY DEF ListInv
<1>1. ListInv!2
  BY DEF ListInv
<1>2. \A i \in DOMAIN list.rows : RowIsTrue(i)'
  <2> SUFFICES ASSUME NEW i \in DOMAIN list.rows PROVE RowIsTrue(i)'
    OBVIOUS
  <2>1. RowIsTrue(i)
    BY <1>1
  <2>2. Owed({"open", "status"}, order[i]) => Owed({"open", "status"}, order[i])'
    BY DEF Owed
  <2>3. Owed({"edit"}, order[i]) => Owed({"edit"}, order[i])'
    BY DEF Owed
  <2>4. QED BY <2>1, <2>2, <2>3 DEF RowIsTrue, Owed
<1>3. QED BY <1>1, <1>2 DEF Listed, IdsOf

LEMMA QuestionStays ==
  ASSUME QuestionInv, UNCHANGED <<sel, jumped>>, dialog' \in {dialog, NoRow},
         \A k \in changes' : k.do = "count" => k \in changes \/ k.of = sel
  PROVE  QuestionInv'
  BY DEF QuestionInv, QuestionIsOfTheOpen

LEMMA PanelStays ==
  ASSUME PanelInv, UNCHANGED <<row, list, sel, side, looks, astray>>, raced => raced',
         \A k \in changes' : k.do \in {"note", "contact"} => k \in changes \/ (k.of = sel /\ OpenRow),
         \A k \in changes : k.do \in {"note", "contact"} => k \in changes'
  PROVE  PanelInv'
<1> SUFFICES ASSUME ~raced' PROVE PanelInv!2'
  BY DEF PanelInv
<1>1. PanelInv!2
  BY DEF PanelInv
<1>2. OpenRow' = OpenRow /\ Unsaved' = Unsaved
  BY DEF OpenRow, Listed, IdsOf, Unsaved
<1>3. \A k \in PanelCalls' : k.of = sel' /\ (k \in PanelCalls \/ OpenRow)
  BY <1>1 DEF PanelCalls, Changing
<1>4. (Owed({"note"}, sel) => Owed({"note"}, sel)') /\ (Owed({"contact"}, sel) => Owed({"contact"}, sel)')
  BY DEF Owed
<1>5. PanelKept => PanelKept'
  BY <1>2, <1>4 DEF PanelKept, Mine, Owed
<1>6. QED BY <1>1, <1>2, <1>3, <1>5

LEMMA PhonesStay ==
  ASSUME PhonesAtHome, UNCHANGED <<row, astray>>,
         \A k \in changes' : k.do = "contact" => k \in changes, \A l \in looks' : l \in looks \/ l.at = "sent"
  PROVE  PhonesAtHome'
  BY DEF PhonesAtHome

(* Another row is opened, or the same one with other rows around it.         *)

LEMMA OpensTyped ==
  ASSUME BenchTyped, NEW c \in ConvOrNone, NEW rows \in Seq(WbEntry), NEW anew \in BOOLEAN, Opens(c, rows, anew)
  PROVE  /\ sel' = c /\ dialog' \in ConvOrNone /\ side' \in WbSide /\ looks' \subseteq WbLook
         /\ raced' \in BOOLEAN /\ jumped' \in BOOLEAN
         /\ \A l \in looks' : l \in looks \/ l.at = "sent"
<1>1. c \in IdsOf(rows) => Look(c) \in WbLook /\ Look(c).at = "sent"
  BY IdsTyped DEF Look, WbLook, ConvOrNone
<1>2. [side EXCEPT !.of = NoRow, !.notes = 0] \in WbSide
  BY DEF BenchTyped, WbSide, ConvOrNone
<1>3. looks' \subseteq WbLook /\ side' \in WbSide /\ \A l \in looks' : l \in looks \/ l.at = "sent"
  BY <1>1, <1>2 DEF Opens, PanelOf, BenchTyped, RequestsTyped
<1>4. dialog' \in ConvOrNone
  BY DEF Opens, BenchTyped, ChosenTyped, ConvOrNone
<1>5. raced' \in BOOLEAN /\ jumped' \in BOOLEAN
  BY DEF Opens, BenchTyped, WitnessesTyped
<1>6. QED BY <1>3, <1>4, <1>5 DEF Opens

LEMMA OpensKeepsQuestion ==
  ASSUME QuestionInv, NEW c, NEW rows, NEW anew, Opens(c, rows, anew),
         \A k \in changes' : k.do = "count" => k \in changes
  PROVE  QuestionInv'
<1>1. CASE c = sel
  BY <1>1 DEF Opens, QuestionInv, QuestionIsOfTheOpen
<1>2. CASE c # sel
  <2>1. dialog' = NoRow
    BY <1>2 DEF Opens
  <2>2. \A k \in changes' : k.do = "count" => jumped'
    BY <1>2 DEF Opens, Changing
  <2>3. QED BY <2>1, <2>2 DEF QuestionInv, QuestionIsOfTheOpen
<1>3. QED BY <1>1, <1>2

LEMMA OpensKeepsPanel ==
  ASSUME PanelInv, NEW c \in ConvOrNone, NEW rows \in Seq(WbEntry), NEW anew, Opens(c, rows, anew),
         list'.rows = rows, UNCHANGED <<row, astray>>,
         \A k : k.do \in {"note", "contact"} => (k \in changes' <=> k \in changes),
         c = sel /\ c \in IdsOf(rows) /\ ~anew => OpenRow,
         c = sel /\ OpenRow => c \in IdsOf(rows)
  PROVE  PanelInv'
<1> SUFFICES ASSUME ~raced' PROVE PanelInv!2'
  BY DEF PanelInv
<1> USE NoneIsNoConv
<1>1. IdsOf(rows) \subseteq WbConvs
  BY IdsTyped
<1>2. sel' = c /\ (OpenRow' <=> c \in IdsOf(rows)) /\ Listed' = IdsOf(rows)
  BY DEF Opens, OpenRow, Listed
<1>3. PanelCalls' = PanelCalls
  BY DEF PanelCalls, Changing
<1>4. Unsaved' = Unsaved /\ side'.tel = side.tel /\ side'.typed = side.typed
  BY DEF Opens, PanelOf, Unsaved
<1>5. \A b : (Owed({"note"}, b)' <=> Owed({"note"}, b)) /\ (Owed({"contact"}, b)' <=> Owed({"contact"}, b))
  BY DEF Owed
<1>6. CASE c # sel
  <2>1. looks = {} /\ PanelCalls = {} /\ ~Unsaved /\ (raced => side.of # c)
    BY <1>6 DEF Opens, PanelCalls
  <2>2. CASE c \in IdsOf(rows)
    <3>1. looks' = {Look(c)} /\ side' = side
      BY <1>6, <2>1, <2>2 DEF Opens, PanelOf
    <3>2. side.of # c
      <4>1. CASE raced
        BY <2>1, <4>1
      <4>2. CASE ~raced /\ OpenRow
        BY <1>6, <2>1, <4>2 DEF PanelInv, PanelKept
      <4>3. CASE ~raced /\ ~OpenRow
        BY <1>1, <2>2, <4>3 DEF PanelInv
      <4>4. QED BY <4>1, <4>2, <4>3
    <3>3. \A l \in looks' : l.of = c
      BY <3>1 DEF Look
    <3>4. PanelKept'
      BY <1>2, <1>4, <2>1, <3>1, <3>2 DEF PanelKept
    <3>5. QED BY <1>2, <1>3, <2>1, <2>2, <3>3, <3>4
  <2>3. CASE c \notin IdsOf(rows)
    <3>1. looks' = {} /\ side'.of = NoRow
      BY <2>1, <2>3 DEF Opens, PanelOf
    <3>2. QED BY <1>2, <1>3, <1>4, <2>1, <2>3, <3>1
  <2>4. QED BY <2>2, <2>3
<1>7. CASE c = sel
  <2>1. ~raced
    BY <1>7 DEF Opens
  <2>2. PanelInv!2
    BY <2>1 DEF PanelInv
  <2>3. CASE c \notin IdsOf(rows)
    <3>1. looks' = looks /\ side'.of = NoRow /\ ~OpenRow
      BY <1>7, <2>3 DEF Opens, PanelOf
    <3>2. QED BY <1>2, <1>3, <1>4, <2>2, <2>3, <3>1
  <2>4. CASE c \in IdsOf(rows) /\ OpenRow
    <3>1. side' = side /\ looks \subseteq looks' /\ \A l \in looks' : l \in looks \/ l.of = c
      BY <1>7, <2>4 DEF Opens, PanelOf, Look
    <3>2. PanelKept
      BY <2>2, <2>4
    <3>3. (Owed({"note"}, sel) <=> Owed({"note"}, sel)') /\ (Owed({"contact"}, sel) <=> Owed({"contact"}, sel)')
      BY <1>7, <1>2, <1>5 DEF Owed
    <3>4. PanelKept'
      BY <1>2, <1>7, <1>4, <3>1, <3>2, <3>3 DEF PanelKept, Mine, Owed
    <3>5. QED BY <1>2, <1>3, <1>7, <2>2, <2>4, <3>1, <3>4
  <2>5. CASE c \in IdsOf(rows) /\ ~OpenRow
    <3>1. anew /\ looks = {} /\ PanelCalls = {} /\ side.of = NoRow /\ ~Unsaved
      BY <1>7, <2>2, <2>5
    <3>2. looks' = {Look(c)} /\ side' = side /\ Look(c).of = c
      BY <2>5, <3>1 DEF Opens, PanelOf, Look
    <3>3. side.of # c
      BY <1>1, <2>5, <3>1
    <3>4. PanelKept'
      BY <1>2, <1>4, <3>1, <3>2, <3>3 DEF PanelKept
    <3>5. QED BY <1>2, <1>3, <2>5, <3>1, <3>2, <3>4
  <2>6. QED BY <2>3, <2>4, <2>5
<1>8. QED BY <1>6, <1>7

(* Requests that are outdated, or served, stay about what they were about. *)

LEMMA LoadDisturbed ==
  ASSUME NEW q \in WbLoad, NEW l, l = [q EXCEPT !.calm = FALSE]
  PROVE  l \in WbLoad /\ l.more = q.more /\ l.from = q.from /\ l.at = q.at /\ ~l.calm
  BY DEF WbLoad

LEMMA LoadsDisturbed ==
  ASSUME NEW S, S \subseteq WbLoad, NEW l \in Disturbed(S)
  PROVE  \E q \in S : l = [q EXCEPT !.calm = FALSE] /\ l \in WbLoad /\ l.more = q.more /\ l.from = q.from
                      /\ l.at = q.at /\ ~l.calm
<1>1. PICK q \in S : l = [q EXCEPT !.calm = FALSE]
  BY DEF Disturbed
<1>2. q \in WbLoad
  OBVIOUS
<1>3. QED BY <1>1, <1>2, LoadDisturbed

LEMMA LoadsOutdated ==
  ASSUME NEW S, S \subseteq WbLoad, NEW l \in Outdated(S)
  PROVE  \E q \in S : l = (IF q.at = "served" THEN [q EXCEPT !.calm = FALSE] ELSE q) /\ l \in WbLoad
                      /\ l.more = q.more /\ l.from = q.from /\ (l.at = "sent" \/ ~l.calm)
<1>1. CASE l \in S \ Served(S)
  BY <1>1 DEF Served, WbLoad
<1>2. CASE l \in Disturbed(Served(S))
  <2>1. PICK q \in Served(S) : l = [q EXCEPT !.calm = FALSE] /\ l \in WbLoad /\ l.more = q.more
                               /\ l.from = q.from /\ l.at = q.at /\ ~l.calm
    BY <1>2, LoadsDisturbed DEF Served
  <2>2. QED BY <2>1 DEF Served
<1>3. QED BY <1>1, <1>2 DEF Outdated

LEMMA LookDisturbed ==
  ASSUME NEW q \in WbLook, NEW l, l = [q EXCEPT !.calm = FALSE]
  PROVE  l \in WbLook /\ l.of = q.of /\ l.at = q.at /\ l.tel = q.tel /\ ~l.calm
  BY DEF WbLook

LEMMA LooksOutdated ==
  ASSUME NEW S, S \subseteq WbLook, NEW l \in Outdated(S)
  PROVE  l \in WbLook /\ \E q \in S : l.of = q.of /\ l.at = q.at /\ l.tel = q.tel /\ (l.at = "sent" \/ ~l.calm)
<1>1. CASE l \in S \ Served(S)
  BY <1>1 DEF Served, WbLook
<1>2. CASE l \in Disturbed(Served(S))
  <2>1. PICK q \in Served(S) : l = [q EXCEPT !.calm = FALSE]
    BY <1>2 DEF Disturbed
  <2>2. q \in S /\ q \in WbLook
    BY DEF Served
  <2>3. QED BY <2>1, <2>2, LookDisturbed
<1>3. QED BY <1>1, <1>2 DEF Outdated

LEMMA CallDisturbed ==
  ASSUME NEW q \in WbCall, NEW k, k = [q EXCEPT !.calm = FALSE]
  PROVE  k \in WbCall /\ k.do = q.do /\ k.of = q.of /\ k.at = q.at /\ k.tel = q.tel /\ ~k.calm
  BY DEF WbCall

LEMMA CallsOutdated ==
  ASSUME NEW S, S \subseteq WbCall
  PROVE  /\ \A k \in Outdated(S) :
              k \in WbCall /\ (k.at = "sent" \/ ~k.calm)
              /\ \E q \in S : k.do = q.do /\ k.of = q.of /\ k.at = q.at /\ k.tel = q.tel
         /\ \A q \in S : \E k \in Outdated(S) : k.do = q.do /\ k.of = q.of /\ k.at = q.at
<1>1. ASSUME NEW k \in Outdated(S)
      PROVE  k \in WbCall /\ (k.at = "sent" \/ ~k.calm)
             /\ \E q \in S : k.do = q.do /\ k.of = q.of /\ k.at = q.at /\ k.tel = q.tel
  <2>1. CASE k \in S \ Served(S)
    BY <2>1 DEF Served, WbCall
  <2>2. CASE k \in Disturbed(Served(S))
    <3>1. PICK q \in Served(S) : k = [q EXCEPT !.calm = FALSE]
      BY <2>2 DEF Disturbed
    <3>2. q \in S /\ q \in WbCall
      BY DEF Served
    <3>3. QED BY <3>1, <3>2, CallDisturbed
  <2>3. QED BY <1>1, <2>1, <2>2 DEF Outdated
<1>2. ASSUME NEW q \in S
      PROVE  \E k \in Outdated(S) : k.do = q.do /\ k.of = q.of /\ k.at = q.at
  <2>1. CASE q \notin Served(S)
    BY <2>1 DEF Outdated
  <2>2. CASE q \in Served(S)
    <3> DEFINE k == [q EXCEPT !.calm = FALSE]
    <3>1. k \in Outdated(S)
      BY <2>2 DEF Outdated, Disturbed
    <3>2. k.do = q.do /\ k.of = q.of /\ k.at = q.at
      BY CallDisturbed
    <3>3. QED BY <3>1, <3>2
  <2>3. QED BY <2>1, <2>2
<1>3. QED BY <1>1, <1>2

LEMMA WbUseTyped ==
  ASSUME BenchTyped, NEW e \in WbEvents, WbUses(e)
  PROVE  wbLeft' \in [WbEvents -> Nat]
<1>1. wbLeft \in [WbEvents -> Nat]
  BY DEF BenchTyped, WitnessesTyped
<1>2. QED BY <1>1 DEF WbUses

(* The list. *)

LEMMA ReloadKeeps == ASSUME BenchInv, Reload PROVE BenchInv'
<1> USE DEF BenchInv
<1>1. loads \subseteq WbLoad
  BY DEF BenchTyped, RequestsTyped
<1>2. loads' = Disturbed(loads) \union {Load(FALSE, 0)}
  BY DEF Reload, ReloadStarts
<1>3. Load(FALSE, 0) \in WbLoad /\ Load(FALSE, 0).at = "sent" /\ ~Load(FALSE, 0).more
  BY DEF Load, WbLoad
<1>4. \A l \in loads' : l \in WbLoad /\ (l.at = "sent" \/ ~l.calm) /\ (l.more => ~l.calm)
  BY <1>1, <1>2, <1>3, LoadsDisturbed
<1>5. wbLeft' \in [WbEvents -> Nat]
  BY WbUseTyped DEF Reload, WbEvents
<1>6. BenchTyped'
  BY <1>4, <1>5 DEF BenchTyped, OrderTyped, RowsTyped, ListTyped, ChosenTyped, RequestsTyped, WitnessesTyped, Reload
<1>7. CalmLooks' /\ CalmLoads' /\ CalmCalls'
  BY <1>4, LooksStayCalm, LoadsStayCalm, CallsStayCalm DEF Reload
<1>8. Appended'
  BY <1>4 DEF Appended
<1>9. OneOlder'
  <2> SUFFICES ASSUME NEW l \in loads', NEW m \in loads', l.more, m.more PROVE l = m
    BY DEF OneOlder
  <2>1. l \in Disturbed(loads) /\ m \in Disturbed(loads)
    BY <1>2, <1>3
  <2>2. PICK p \in loads : l = [p EXCEPT !.calm = FALSE] /\ l.more = p.more
    BY <1>1, <2>1, LoadsDisturbed
  <2>3. PICK q \in loads : m = [q EXCEPT !.calm = FALSE] /\ m.more = q.more
    BY <1>1, <2>1, LoadsDisturbed
  <2>4. QED BY <2>2, <2>3 DEF OneOlder
<1>10. ListInv'
  BY <1>2, <1>3 DEF ListInv, NoFirstPage
<1>11. QuestionInv' /\ PanelInv' /\ PhonesAtHome'
  BY QuestionStays, PanelStays, PhonesStay DEF Reload
<1>12. QED BY <1>6, <1>7, <1>8, <1>9, <1>10, <1>11

LEMMA PressOlderKeeps == ASSUME BenchInv, PressOlder PROVE BenchInv'
<1> USE DEF BenchInv
<1> DEFINE new == [Load(TRUE, Len(list.rows)) EXCEPT !.calm = (loads = {})]
<1>1. Len(list.rows) \in Nat /\ Len(list.rows) > 0
  <2>1. list.rows \in Seq(WbEntry) /\ list.rows # <<>>
    BY DEF BenchTyped, ListTyped, PressOlder
  <2>2. QED BY <2>1
<1>2. new \in WbLoad /\ new.at = "sent" /\ new.more /\ new.from = Len(list.rows)
  <2>1. PICK b \in BOOLEAN : b = (loads = {})
    OBVIOUS
  <2>2. new = [Load(TRUE, Len(list.rows)) EXCEPT !.calm = b]
    BY <2>1
  <2> DEFINE size == Len(list.rows)
  <2> HIDE DEF new
  <2>3. new = [more |-> TRUE, from |-> size, at |-> "sent", rows |-> <<>>, calm |-> b]
    BY <2>2 DEF Load
  <2>4. <<>> \in Seq(WbEntry) /\ size \in Nat /\ size > 0
    BY <1>1
  <2> HIDE DEF size
  <2>5. new \in [more : BOOLEAN, from : Nat, at : {"sent", "served"}, rows : Seq(WbEntry), calm : BOOLEAN]
    BY <2>3, <2>4
  <2>6. new.at = "sent" /\ new.more /\ new.from = size
    BY <2>3
  <2>7. QED BY <2>4, <2>5, <2>6 DEF WbLoad, size
<1>3. loads' = loads \union {new} /\ \A l \in loads : ~l.more
  BY DEF PressOlder
<1> HIDE DEF new
<1>4. wbLeft' \in [WbEvents -> Nat]
  BY WbUseTyped DEF PressOlder, WbEvents
<1>5. BenchTyped'
  BY <1>2, <1>3, <1>4 DEF BenchTyped, OrderTyped, RowsTyped, ListTyped, ChosenTyped, RequestsTyped, WitnessesTyped,
     PressOlder
<1>6. CalmLooks' /\ CalmLoads' /\ CalmCalls'
  BY <1>2, <1>3, LooksStayCalm, LoadsStayCalm, CallsStayCalm DEF PressOlder
<1>7. OneOlder' /\ Appended'
  BY <1>2, <1>3 DEF OneOlder, Appended, PressOlder
<1>8. ListInv'
  BY <1>3, ListStays DEF NoFirstPage, PressOlder
<1>9. QuestionInv' /\ PanelInv' /\ PhonesAtHome'
  BY QuestionStays, PanelStays, PhonesStay DEF PressOlder
<1>10. QED BY <1>5, <1>6, <1>7, <1>8, <1>9

LEMMA ServeLoadKeeps == ASSUME BenchInv, NEW l \in loads, ServeLoad(l) PROVE BenchInv'
<1> USE DEF BenchInv
<1> DEFINE new == [l EXCEPT !.at = "served", !.rows = PageFrom(l.from)]
<1>1. l \in WbLoad /\ l.from \in Nat
  BY DEF BenchTyped, RequestsTyped, WbLoad
<1>2. PageFrom(l.from) \in Seq(WbEntry)
  BY <1>1, PageTyped DEF BenchTyped
<1>3. new \in WbLoad /\ new.more = l.more /\ new.from = l.from /\ new.calm = l.calm /\ new.rows = PageFrom(l.from)
  BY <1>1, <1>2 DEF WbLoad
<1>4. loads' = (loads \ {l}) \union {new}
  BY DEF ServeLoad
<1> HIDE DEF new
<1>5. BenchTyped'
  BY <1>3, <1>4 DEF BenchTyped, OrderTyped, RowsTyped, ListTyped, ChosenTyped, RequestsTyped, WitnessesTyped,
     ServeLoad
<1>6. CalmLooks' /\ CalmCalls'
  BY LooksStayCalm, CallsStayCalm DEF ServeLoad
<1>7. CalmLoads'
  <2> SUFFICES ASSUME NEW m \in loads', m.at = "served", m.calm PROVE m.rows = PageFrom(m.from)'
    BY DEF CalmLoads
  <2>1. m.rows = PageFrom(m.from)
    BY <1>3, <1>4 DEF CalmLoads
  <2>2. PageFrom(m.from)' = PageFrom(m.from)
    BY PagesSame DEF ServeLoad
  <2>3. QED BY <2>1, <2>2
<1>8. OneOlder' /\ Appended'
  BY <1>3, <1>4 DEF OneOlder, Appended, ServeLoad
<1>9. ListInv'
  BY <1>3, <1>4, ListStays DEF NoFirstPage, ServeLoad
<1>10. QuestionInv' /\ PanelInv' /\ PhonesAtHome'
  BY QuestionStays, PanelStays, PhonesStay DEF ServeLoad
<1>11. QED BY <1>5, <1>6, <1>7, <1>8, <1>9, <1>10

LEMMA ListFailsKeeps == ASSUME BenchInv, NEW l \in loads, ListFails(l) PROVE BenchInv'
<1> USE DEF BenchInv
<1>1. wbLeft' \in [WbEvents -> Nat]
  BY WbUseTyped DEF ListFails, WbEvents
<1>2. BenchTyped'
  BY <1>1 DEF BenchTyped, OrderTyped, RowsTyped, ListTyped, ChosenTyped, RequestsTyped, WitnessesTyped, ListFails
<1>3. CalmLooks' /\ CalmLoads' /\ CalmCalls' /\ OneOlder' /\ Appended'
  BY LooksStayCalm, LoadsStayCalm, CallsStayCalm, OlderStays DEF ListFails
<1>4. ListInv'
  BY DEF ListInv, ListFails
<1>5. QuestionInv' /\ PanelInv' /\ PhonesAtHome'
  BY QuestionStays, PanelStays, PhonesStay DEF ListFails
<1>6. QED BY <1>2, <1>3, <1>4, <1>5

LEMMA DrawnToTyped ==
  ASSUME ChosenTyped, NEW c \in ConvOrNone, NEW rows
  PROVE  DrawnTo(c, rows) \in ConvOrNone /\ (DrawnTo(c, rows) = c \/ DrawnTo(c, rows) \in IdsOf(rows))
  BY DEF ChosenTyped, DrawnTo

LEMMA AskedTyped ==
  ASSUME ChosenTyped, NEW rows, FetchesAsked(rows)
  PROVE  /\ Sent("asked", asked) \in WbCall /\ Sent("asked", asked).do = "asked"
         /\ Sent("asked", asked).of = asked /\ Sent("asked", asked).at = "sent"
  BY DEF ChosenTyped, FetchesAsked, ConvOrNone, Sent, WbCall, CallKinds, Statuses

LEMMA SecondHalf ==
  ASSUME NEW S, NEW s \in Seq(S), NEW t \in Seq(S), NEW i \in DOMAIN (s \o t), i \notin DOMAIN s
  PROVE  \E j \in DOMAIN t : i = Len(s) + j /\ (s \o t)[i] = t[j]
<1>1. Len(s) \in Nat /\ Len(t) \in Nat /\ DOMAIN s = 1..Len(s) /\ DOMAIN t = 1..Len(t)
  OBVIOUS
<1>2. DOMAIN (s \o t) = 1..(Len(s) + Len(t))
  OBVIOUS
<1>3. i \in Nat /\ i > Len(s) /\ i <= Len(s) + Len(t)
  BY <1>1, <1>2
<1>4. i - Len(s) \in DOMAIN t /\ i = Len(s) + (i - Len(s))
  BY <1>1, <1>3
<1>5. (s \o t)[i] = t[i - Len(s)]
  BY <1>1, <1>3
<1>6. QED BY <1>4, <1>5

LEMMA LandLoadKeeps == ASSUME BenchInv, NEW l \in loads, LandLoad(l) PROVE BenchInv'
<1> USE DEF BenchInv
<1> DEFINE rows == Joined(l)
           c == DrawnTo(Kept(rows), rows)
           anew == ~l.more \/ sel \notin Listed
<1>1. /\ l \in WbLoad /\ l.rows \in Seq(WbEntry) /\ l.from \in Nat /\ (l.more <=> l.from > 0)
      /\ list.rows \in Seq(WbEntry) /\ loads \subseteq WbLoad /\ changes \subseteq WbCall /\ ChosenTyped
  BY DEF BenchTyped, RequestsTyped, ListTyped, WbLoad
<1>2. rows \in Seq(WbEntry)
  BY <1>1 DEF Joined
<1>3. IdsOf(rows) \subseteq WbConvs
  BY <1>2, IdsTyped
<1>4. c \in ConvOrNone /\ (c = NoRow \/ c \in IdsOf(rows))
  <2>1. Kept(rows) \in ConvOrNone /\ (Kept(rows) = NoRow \/ Kept(rows) \in IdsOf(rows))
    BY <1>1 DEF Kept, ChosenTyped, ConvOrNone
  <2>2. QED BY <1>1, <2>1, DrawnToTyped
<1>5. /\ list' = [rows |-> rows, older |-> Len(l.rows) = WbPage] /\ Opens(c, rows, anew)
      /\ changes' = IF FetchesAsked(rows) THEN changes \union {Sent("asked", asked)} ELSE changes
      /\ crossed' = (IF l.more THEN crossed \/ ~l.calm ELSE ~l.calm)
  BY DEF LandLoad
<1>6. /\ loads' = (IF l.more THEN loads \ {l} ELSE Disturbed(loads \ {l})) /\ l.at = "served"
      /\ UNCHANGED <<order, row, asked, astray, wbLeft>>
  BY DEF LandLoad
<1> HIDE DEF rows, c, anew
<1>7. anew \in BOOLEAN
  BY DEF anew
<1>8. \A m \in loads' : m \in WbLoad /\ (m \in loads \ {l} \/ ~m.calm) /\ (~l.more => ~m.calm)
  BY <1>1, <1>6, LoadsDisturbed
<1>9. /\ changes' \subseteq WbCall /\ changes \subseteq changes'
      /\ \A k \in changes' : k \in changes \/ (k.do = "asked" /\ k.of = asked /\ k.at = "sent")
  BY <1>1, <1>5, AskedTyped
<1>10. /\ sel' = c /\ dialog' \in ConvOrNone /\ side' \in WbSide /\ looks' \subseteq WbLook
       /\ raced' \in BOOLEAN /\ jumped' \in BOOLEAN
       /\ \A m \in looks' : m \in looks \/ m.at = "sent"
  BY <1>2, <1>4, <1>5, <1>7, OpensTyped
<1>11. ListTyped' /\ list'.rows = rows
  <2>1. Len(l.rows) = WbPage => rows # <<>>
    <3>1. WbPage \in Nat /\ WbPage > 0
      BY WorkbenchAssumption
    <3>2. CASE l.more
      BY <1>1, <3>1, <3>2 DEF rows, Joined
    <3>3. CASE ~l.more
      BY <1>1, <3>1, <3>3 DEF rows, Joined
    <3>4. QED BY <3>2, <3>3
  <2>2. PICK older \in BOOLEAN : older = (Len(l.rows) = WbPage)
    OBVIOUS
  <2>3. list' = [rows |-> rows, older |-> older]
    BY <1>5, <2>2
  <2>4. QED BY <1>2, <2>1, <2>2, <2>3 DEF ListTyped
<1>12. BenchTyped'
  <2>1. crossed' \in BOOLEAN
    BY <1>1, <1>5 DEF BenchTyped, WitnessesTyped, WbLoad
  <2>2. RequestsTyped'
    BY <1>6, <1>8, <1>9, <1>10 DEF BenchTyped, RequestsTyped
  <2>3. ChosenTyped'
    BY <1>1, <1>4, <1>6, <1>10 DEF ChosenTyped
  <2>4. WitnessesTyped'
    BY <1>6, <1>10, <2>1 DEF BenchTyped, WitnessesTyped
  <2>5. QED BY <1>6, <1>10, <1>11, <2>2, <2>3, <2>4 DEF BenchTyped, OrderTyped, RowsTyped
<1>13. CalmLooks' /\ CalmLoads' /\ CalmCalls'
  BY <1>6, <1>8, <1>9, <1>10, LooksStayCalm, LoadsStayCalm, CallsStayCalm
<1>14. OneOlder' /\ Appended'
  <2>1. CASE l.more
    BY <1>6, <2>1 DEF OneOlder, Appended
  <2>2. CASE ~l.more
    <3>1. Appended'
      BY <1>8, <2>2 DEF Appended
    <3>2. ASSUME NEW m \in loads', NEW n \in loads', m.more, n.more PROVE m = n
      <4>1. m \in Disturbed(loads \ {l}) /\ n \in Disturbed(loads \ {l}) /\ loads \ {l} \subseteq WbLoad
        BY <1>1, <1>6, <2>2
      <4>2. PICK p \in loads \ {l} : m = [p EXCEPT !.calm = FALSE] /\ m.more = p.more
        BY <4>1, LoadsDisturbed
      <4>3. PICK q \in loads \ {l} : n = [q EXCEPT !.calm = FALSE] /\ n.more = q.more
        BY <4>1, LoadsDisturbed
      <4>4. QED BY <3>2, <4>2, <4>3 DEF OneOlder
    <3>3. QED BY <3>1, <3>2 DEF OneOlder
  <2>3. QED BY <2>1, <2>2
<1>15. ListInv'
  <2> SUFFICES ASSUME ~crossed', NoFirstPage' PROVE ListInv!2'
    BY DEF ListInv
  <2>1. l.calm /\ l.rows = PageFrom(l.from)
    BY <1>5, <1>6 DEF CalmLoads
  <2>2. (sel # NoRow => sel \in Listed)'
    BY <1>4, <1>10, <1>11 DEF Listed
  <2>3. /\ \A j \in DOMAIN l.rows : l.from + j \in WbConvs /\ l.rows[j] = EntryOf(order[l.from + j])
        /\ l.from = 0 /\ WbConvs # {} => l.rows # <<>>
    BY <1>1, <2>1, PageTyped DEF BenchTyped
  <2>4. ASSUME NEW i \in WbConvs, rows[i] = EntryOf(order[i]) PROVE RowIsTrue(i)'
    <3>1. order[i] \in WbConvs
      BY DEF BenchTyped, OrderTyped
    <3>2. QED BY <1>6, <1>11, <2>4, <3>1, EntryTyped DEF RowIsTrue, BenchTyped
  <2>5. CASE ~l.more
    <3>1. rows = l.rows /\ l.from = 0
      BY <1>1, <2>5 DEF rows, Joined
    <3>2. \A i \in DOMAIN rows : i \in Nat /\ 0 + i = i
      BY <1>2
    <3>3. \A i \in DOMAIN rows : RowIsTrue(i)'
      BY <2>3, <2>4, <3>1, <3>2
    <3>4. QED BY <1>11, <2>2, <2>3, <3>1, <3>3
  <2>6. CASE l.more
    <3>1. ~crossed /\ l.from = Len(list.rows) /\ rows = list.rows \o l.rows
      BY <1>5, <2>1, <2>6 DEF Appended, rows, Joined
    <3>2. NoFirstPage
      BY <1>6, <2>6 DEF NoFirstPage
    <3>3. ListInv!2
      BY <3>1, <3>2 DEF ListInv
    <3>4. ASSUME NEW i \in DOMAIN rows PROVE RowIsTrue(i)'
      <4>1. CASE i \in DOMAIN list.rows
        <5>1. rows[i] = list.rows[i]
          BY <1>1, <3>1, <4>1
        <5>2. RowIsTrue(i)
          BY <3>3, <4>1
        <5>3. /\ Owed({"open", "status"}, order[i]) => Owed({"open", "status"}, order[i])'
              /\ Owed({"edit"}, order[i]) => Owed({"edit"}, order[i])'
          BY <1>6, <1>9 DEF Owed
        <5>4. QED BY <1>6, <1>11, <5>1, <5>2, <5>3 DEF RowIsTrue, Owed
      <4>2. CASE i \notin DOMAIN list.rows
        <5>1. PICK j \in DOMAIN l.rows : i = Len(list.rows) + j /\ rows[i] = l.rows[j]
          <6> DEFINE before == list.rows
                     added == l.rows
          <6>1. before \in Seq(WbEntry) /\ added \in Seq(WbEntry) /\ rows = before \o added
            BY <1>1, <3>1
          <6> HIDE DEF before, added
          <6>2. i \in DOMAIN (before \o added)
            BY <6>1
          <6>3. i \notin DOMAIN before
            BY <4>2 DEF before
          <6>4. \E j \in DOMAIN added : i = Len(before) + j /\ (before \o added)[i] = added[j]
            BY <6>1, <6>2, <6>3, SecondHalf
          <6>5. QED BY <6>1, <6>4 DEF before, added
        <5>2. i \in WbConvs /\ rows[i] = EntryOf(order[i])
          BY <2>3, <3>1, <5>1
        <5>3. QED BY <2>4, <5>2
      <4>3. QED BY <4>1, <4>2
    <3>5. rows # <<>> \/ WbConvs = {}
      BY <1>1, <3>1, <3>3
    <3>6. QED BY <1>11, <2>2, <3>4, <3>5
  <2>7. QED BY <2>5, <2>6
<1>16. QuestionInv'
  BY <1>5, <1>9, OpensKeepsQuestion
<1>17. PanelInv'
  <2>1. \A k : k.do \in {"note", "contact"} => (k \in changes' <=> k \in changes)
    BY <1>9
  <2>2. c = sel /\ c \in IdsOf(rows) /\ ~anew => OpenRow
    BY DEF anew, OpenRow
  <2>3. c = sel /\ OpenRow => c \in IdsOf(rows)
    BY <1>1, <1>4, IdsTyped, NoneIsNoConv DEF OpenRow, Listed
  <2>4. QED BY <1>2, <1>4, <1>5, <1>6, <1>11, <2>1, <2>2, <2>3, OpensKeepsPanel
<1>18. PhonesAtHome'
  BY <1>6, <1>9, <1>10, PhonesStay
<1>19. QED BY <1>12, <1>13, <1>14, <1>15, <1>16, <1>17, <1>18

LEMMA LandAskedKeeps == ASSUME BenchInv, NEW k \in changes, LandAsked(k) PROVE BenchInv'
<1> USE DEF BenchInv
<1>1. /\ list \in [rows : Seq(WbEntry), older : BOOLEAN] /\ ChosenTyped /\ asked \in WbConvs
      /\ changes' = changes \ {k} /\ crossed' = TRUE /\ UNCHANGED <<order, row, asked, loads, astray, wbLeft>>
  BY DEF LandAsked, BenchTyped, RequestsTyped, ListTyped, WbCall
<1>2. PICK f \in InOrder(Others(asked)) :
        LET rows == <<EntryOf(asked)>> \o [i \in DOMAIN f |-> list.rows[f[i]]] IN
        list' = [list EXCEPT !.rows = rows] /\ Opens(asked, rows, TRUE)
  BY DEF LandAsked
<1> DEFINE after == [i \in DOMAIN f |-> list.rows[f[i]]]
           rows == <<EntryOf(asked)>> \o after
<1>3. after \in Seq(WbEntry)
  <2> DEFINE size == Cardinality(Others(asked))
  <2>1. Others(asked) \subseteq 1..Len(list.rows) /\ Len(list.rows) \in Nat
    BY <1>1 DEF Others
  <2>2. size \in Nat
    <3>1. IsFiniteSet(1..Len(list.rows))
      BY <2>1, FS_Interval
    <3>2. IsFiniteSet(Others(asked))
      BY <2>1, <3>1, FS_Subset
    <3>3. QED BY <3>2, FS_CardinalityType
  <2>3. f \in [1..size -> Others(asked)]
    BY DEF InOrder
  <2> HIDE DEF size
  <2>4. after = [i \in 1..size |-> list.rows[f[i]]] /\ \A i \in 1..size : list.rows[f[i]] \in WbEntry
    BY <1>1, <2>1, <2>3
  <2>5. QED BY <2>2, <2>4
<1>4. EntryOf(asked) \in WbEntry /\ EntryOf(asked).id = asked
  BY <1>1, EntryTyped DEF BenchTyped
<1>5. rows \in Seq(WbEntry) /\ 1 \in DOMAIN rows /\ rows[1] = EntryOf(asked)
  <2> HIDE DEF after
  <2>1. QED BY <1>3, <1>4
<1>6. list' = [list EXCEPT !.rows = rows] /\ Opens(asked, rows, TRUE)
  BY <1>2
<1> HIDE DEF rows
<1>7. asked \in IdsOf(rows) /\ rows # <<>>
  BY <1>4, <1>5 DEF IdsOf
<1>8. list' \in [rows : Seq(WbEntry), older : BOOLEAN] /\ list'.rows = rows
  BY <1>1, <1>5, <1>6
<1>9. /\ sel' = asked /\ dialog' \in ConvOrNone /\ side' \in WbSide /\ looks' \subseteq WbLook
      /\ raced' \in BOOLEAN /\ jumped' \in BOOLEAN /\ \A m \in looks' : m \in looks \/ m.at = "sent"
  BY <1>1, <1>5, <1>6, OpensTyped DEF ConvOrNone
<1>10. BenchTyped'
  BY <1>1, <1>7, <1>8, <1>9
     DEF BenchTyped, OrderTyped, RowsTyped, ListTyped, ChosenTyped, RequestsTyped, WitnessesTyped, ConvOrNone
<1>11. CalmLooks' /\ CalmLoads' /\ CalmCalls'
  BY <1>1, <1>9, LooksStayCalm, LoadsStayCalm, CallsStayCalm
<1>12. OneOlder' /\ Appended' /\ ListInv'
  BY <1>1 DEF OneOlder, Appended, ListInv
<1>13. QuestionInv'
  BY <1>1, <1>6, OpensKeepsQuestion
<1>14. PanelInv'
  <2>1. \A q : q.do \in {"note", "contact"} => (q \in changes' <=> q \in changes)
    BY <1>1 DEF LandAsked
  <2>2. asked \in ConvOrNone
    BY <1>1 DEF ConvOrNone
  <2>3. QED BY <1>1, <1>5, <1>6, <1>7, <1>8, <2>1, <2>2, OpensKeepsPanel
<1>15. PhonesAtHome'
  BY <1>1, <1>9, PhonesStay
<1>16. QED BY <1>10, <1>11, <1>12, <1>13, <1>14, <1>15

(* The open conversation. *)

\* Another row of the same list is opened, with no call but "open" made for it.
LEMMA OpeningKeeps ==
  ASSUME BenchInv, NEW c \in ConvOrNone, NEW anew \in BOOLEAN, Opens(c, list.rows, anew), c # sel,
         c = NoRow \/ (~crossed /\ NoFirstPage => c \in Listed),
         UNCHANGED <<order, row, list, asked, loads, crossed, astray>>, wbLeft' \in [WbEvents -> Nat],
         changes \subseteq changes', changes' \subseteq WbCall,
         \A k \in changes' : k \in changes \/ (k.do = "open" /\ k.at = "sent")
  PROVE  BenchInv'
<1> USE DEF BenchInv
<1>1. list.rows \in Seq(WbEntry)
  BY DEF BenchTyped, ListTyped
<1>2. /\ sel' = c /\ dialog' \in ConvOrNone /\ side' \in WbSide /\ looks' \subseteq WbLook
      /\ raced' \in BOOLEAN /\ jumped' \in BOOLEAN /\ \A m \in looks' : m \in looks \/ m.at = "sent"
  BY <1>1, OpensTyped
<1>3. BenchTyped'
  BY <1>2 DEF BenchTyped, OrderTyped, RowsTyped, ListTyped, ChosenTyped, RequestsTyped, WitnessesTyped
<1>4. CalmLooks' /\ CalmLoads' /\ CalmCalls'
  BY <1>2, LooksStayCalm, LoadsStayCalm, CallsStayCalm
<1>5. OneOlder' /\ Appended'
  BY OlderStays
<1>6. ListInv'
  <2> SUFFICES ASSUME ~crossed, NoFirstPage PROVE ListInv!2'
    BY DEF ListInv, NoFirstPage
  <2>1. ListInv!2
    BY DEF ListInv
  <2>2. ASSUME NEW i \in DOMAIN list.rows PROVE RowIsTrue(i)'
    <3>1. RowIsTrue(i)
      BY <2>1
    <3>2. /\ Owed({"open", "status"}, order[i]) => Owed({"open", "status"}, order[i])'
          /\ Owed({"edit"}, order[i]) => Owed({"edit"}, order[i])'
      BY DEF Owed
    <3>3. QED BY <3>1, <3>2 DEF RowIsTrue, Owed
  <2>3. QED BY <1>2, <2>1, <2>2 DEF Listed
<1>7. QuestionInv'
  BY OpensKeepsQuestion
<1>8. PanelInv'
  BY <1>1, OpensKeepsPanel
<1>9. PhonesAtHome'
  BY <1>2, PhonesStay
<1>10. QED BY <1>3, <1>4, <1>5, <1>6, <1>7, <1>8, <1>9

LEMMA SelectRowKeeps == ASSUME BenchInv, NEW c \in WbConvs, SelectRow(c) PROVE BenchInv'
<1>1. wbLeft' \in [WbEvents -> Nat]
  BY WbUseTyped DEF SelectRow, WbEvents, BenchInv
<1>2. Sent("open", c) \in WbCall /\ Sent("open", c).do = "open" /\ Sent("open", c).at = "sent"
  BY DEF Sent, WbCall, CallKinds, Statuses, ConvOrNone
<1>3. changes \subseteq WbCall
  BY DEF BenchInv, BenchTyped, RequestsTyped
<1>4. /\ changes \subseteq changes' /\ changes' \subseteq WbCall
      /\ \A k \in changes' : k \in changes \/ (k.do = "open" /\ k.at = "sent")
  BY <1>2, <1>3 DEF SelectRow
<1>5. /\ Opens(c, list.rows, TRUE) /\ c # sel /\ c \in Listed /\ c \in ConvOrNone
      /\ UNCHANGED <<order, row, list, asked, loads, crossed, astray>>
  BY DEF SelectRow, ConvOrNone
<1>6. QED BY <1>1, <1>4, <1>5, OpeningKeeps

LEMMA OpenFromNoticeKeeps == ASSUME BenchInv, NEW c \in WbConvs, OpenFromNotice(c) PROVE BenchInv'
<1>1. wbLeft' \in [WbEvents -> Nat]
  BY WbUseTyped DEF OpenFromNotice, WbEvents, BenchInv
<1>2. changes \subseteq WbCall
  BY DEF BenchInv, BenchTyped, RequestsTyped
<1>3. /\ Opens(c, list.rows, TRUE) /\ c # sel /\ c = Head(order) /\ c \in ConvOrNone
      /\ UNCHANGED <<order, row, list, asked, loads, changes, crossed, astray>>
  BY DEF OpenFromNotice, ConvOrNone
<1>4. ~crossed /\ NoFirstPage => c \in Listed
  <2> SUFFICES ASSUME ~crossed, NoFirstPage PROVE c \in Listed
    OBVIOUS
  <2>1. list.rows # <<>> /\ \A i \in DOMAIN list.rows : RowIsTrue(i)
    BY DEF BenchInv, ListInv
  <2>2. 1 \in DOMAIN list.rows
    <3>1. list.rows \in Seq(WbEntry)
      BY DEF BenchInv, BenchTyped, ListTyped
    <3>2. QED BY <2>1, <3>1
  <2>3. list.rows[1].id = order[1]
    BY <2>1, <2>2 DEF RowIsTrue
  <2>4. c = order[1]
    BY <1>3
  <2>5. QED BY <2>2, <2>3, <2>4 DEF Listed, IdsOf
<1>5. QED BY <1>1, <1>2, <1>3, <1>4, OpeningKeeps

LEMMA CloseRowKeeps == ASSUME BenchInv, CloseRow PROVE BenchInv'
<1>1. wbLeft' \in [WbEvents -> Nat]
  BY WbUseTyped DEF CloseRow, WbEvents, BenchInv
<1>2. changes \subseteq WbCall
  BY DEF BenchInv, BenchTyped, RequestsTyped
<1>3. /\ Opens(NoRow, list.rows, FALSE) /\ NoRow # sel /\ NoRow \in ConvOrNone
      /\ UNCHANGED <<order, row, list, asked, loads, changes, crossed, astray>>
  BY DEF CloseRow, ConvOrNone
<1>4. QED BY <1>1, <1>2, <1>3, OpeningKeeps

(* The panel. *)

\* A step of the panel touches neither the list nor what is called for.
LEMMA PanelStepKeeps ==
  ASSUME BenchInv, UNCHANGED <<order, row, list, sel, asked, dialog, loads, jumped>>, crossed => crossed',
         changes' \subseteq WbCall, side' \in WbSide, looks' \subseteq WbLook,
         raced' \in BOOLEAN, crossed' \in BOOLEAN, astray' \in {"no", "in haste", "calmly"},
         wbLeft' \in [WbEvents -> Nat],
         \A k \in changes' : k \in changes \/ (k.at = "sent" /\ k.do \in {"note", "contact"}),
         \A k \in changes : k.do \in {"open", "status", "edit"} => k \in changes',
         CalmLooks', PanelInv', PhonesAtHome'
  PROVE  BenchInv'
<1> USE DEF BenchInv
<1>1. BenchTyped'
  BY DEF BenchTyped, OrderTyped, RowsTyped, ListTyped, ChosenTyped, RequestsTyped, WitnessesTyped
<1>2. CalmLoads' /\ CalmCalls' /\ OneOlder' /\ Appended'
  BY LoadsStayCalm, CallsStayCalm, OlderStays
<1>3. ListInv'
  BY ListStays DEF NoFirstPage
<1>4. QuestionInv'
  BY QuestionStays
<1>5. QED BY <1>1, <1>2, <1>3, <1>4

LEMMA ShowsTyped ==
  ASSUME side \in WbSide, NEW tel \in ConvOrNone, NEW shown, shown = Shows(tel)
  PROVE  /\ shown \in WbSide /\ shown.tel = tel /\ shown.of = side.of /\ shown.notes = side.notes
         /\ shown.editing = side.editing
         /\ shown.typed = (IF tel # side.tel THEN tel ELSE side.typed)
  BY DEF Shows, WbSide

LEMMA OfTyped ==
  ASSUME NEW shown \in WbSide, NEW c \in ConvOrNone, NEW n \in Nat, NEW s, s = [shown EXCEPT !.of = c, !.notes = n]
  PROVE  /\ s \in WbSide /\ s.of = c /\ s.notes = n /\ s.tel = shown.tel /\ s.typed = shown.typed
         /\ s.editing = shown.editing
  BY DEF WbSide

LEMMA ServeLookKeeps == ASSUME BenchInv, NEW l \in looks, ServeLook(l) PROVE BenchInv'
<1> USE DEF BenchInv
<1> DEFINE new == [l EXCEPT !.at = "served", !.notes = row[l.of].notes, !.tel = row[l.of].tel]
<1>1. l \in WbLook /\ l.of \in WbConvs /\ row[l.of] \in WbRow
  BY DEF BenchTyped, RequestsTyped, WbLook, RowsTyped
<1>2. /\ new \in WbLook /\ new.of = l.of /\ new.calm = l.calm
      /\ new.notes = row[l.of].notes /\ new.tel = row[l.of].tel
  BY <1>1 DEF WbLook, WbRow
<1>3. looks' = (looks \ {l}) \union {new}
  BY DEF ServeLook
<1> HIDE DEF new
<1>4. UNCHANGED <<order, row, list, sel, asked, side, dialog, loads, changes, crossed, raced, jumped, astray, wbLeft>>
  BY DEF ServeLook
<1>5. CalmLooks'
  BY <1>2, <1>3, <1>4 DEF CalmLooks
<1>6. PanelInv'
  <2> SUFFICES ASSUME ~raced PROVE PanelInv!2'
    BY <1>4 DEF PanelInv
  <2>1. PanelInv!2
    BY DEF PanelInv
  <2>2. looks # {} /\ looks' # {} /\ OpenRow /\ OpenRow'
    BY <1>3, <1>4, <2>1 DEF OpenRow, Listed, IdsOf
  <2>3. PanelKept'
    BY <1>4, <2>1, <2>2 DEF PanelKept, Mine, Unsaved
  <2>4. QED BY <1>2, <1>3, <1>4, <2>1, <2>2, <2>3 DEF PanelCalls, Changing
<1>7. PhonesAtHome'
  BY <1>1, <1>2, <1>3, <1>4 DEF PhonesAtHome
<1>8. QED
  <2>1. changes \subseteq WbCall /\ side \in WbSide /\ looks' \subseteq WbLook /\ raced \in BOOLEAN /\ crossed \in BOOLEAN
        /\ astray \in {"no", "in haste", "calmly"} /\ wbLeft \in [WbEvents -> Nat]
    BY <1>2, <1>3 DEF BenchTyped, RequestsTyped, WitnessesTyped
  <2>2. QED BY <1>4, <1>5, <1>6, <1>7, <2>1, PanelStepKeeps

LEMMA PanelTypes ==
  ASSUME BenchTyped
  PROVE  /\ changes \subseteq WbCall /\ side \in WbSide /\ looks \subseteq WbLook /\ raced \in BOOLEAN /\ crossed \in BOOLEAN
         /\ astray \in {"no", "in haste", "calmly"} /\ wbLeft \in [WbEvents -> Nat]
         /\ sel \in ConvOrNone /\ Listed \subseteq WbConvs
         /\ side.of \in ConvOrNone /\ side.tel \in ConvOrNone /\ side.typed \in ConvOrNone /\ side.editing \in BOOLEAN
  BY IdsTyped DEF BenchTyped, RequestsTyped, WitnessesTyped, ChosenTyped, ListTyped, Listed, WbSide

LEMMA LandLookKeeps == ASSUME BenchInv, NEW l \in looks, LandLook(l) PROVE BenchInv'
<1> USE DEF BenchInv
<1> DEFINE shown == Shows(l.tel)
           filled == [shown EXCEPT !.of = l.of, !.notes = l.notes]
<1>1. /\ l \in WbLook /\ l.of \in WbConvs /\ l.of \in ConvOrNone /\ l.tel \in ConvOrNone /\ l.notes \in Nat
      /\ l.calm \in BOOLEAN
  BY DEF BenchTyped, RequestsTyped, WbLook, ConvOrNone
<1>2. /\ shown \in WbSide /\ shown.tel = l.tel /\ shown.editing = side.editing
      /\ shown.typed = (IF l.tel # side.tel THEN l.tel ELSE side.typed)
  BY <1>1, PanelTypes, ShowsTyped
<1> HIDE DEF shown
<1>3. /\ filled \in WbSide /\ filled.of = l.of /\ filled.notes = l.notes /\ filled.tel = l.tel
      /\ filled.typed = (IF l.tel # side.tel THEN l.tel ELSE side.typed) /\ filled.editing = side.editing
  <2>1. filled = [shown EXCEPT !.of = l.of, !.notes = l.notes]
    OBVIOUS
  <2> HIDE DEF filled
  <2>2. /\ filled \in WbSide /\ filled.of = l.of /\ filled.notes = l.notes /\ filled.tel = shown.tel
        /\ filled.typed = shown.typed /\ filled.editing = shown.editing
    BY <1>1, <1>2, <2>1 DEF WbSide
  <2>3. QED BY <1>2, <2>2
<1>4. /\ looks' = looks \ {l} /\ l.at = "served"
      /\ side' = (IF l.of \in Listed THEN filled ELSE side)
      /\ raced' = IF Settles(l) /\ ~(Unsaved /\ l.tel = side.tel) THEN FALSE ELSE raced \/ ~l.calm
      /\ UNCHANGED <<order, row, list, sel, asked, dialog, loads, changes, crossed, jumped, astray, wbLeft>>
  BY DEF LandLook, shown
<1> HIDE DEF filled
<1>5. CalmLooks' /\ PhonesAtHome'
  BY <1>4, LooksStayCalm, PhonesStay
<1>6. OpenRow' = OpenRow /\ PanelCalls' = PanelCalls
  BY <1>4 DEF OpenRow, Listed, IdsOf, PanelCalls, Changing
<1>7. l.of = sel => Mine(l.tel)
  BY <1>4 DEF PhonesAtHome, Mine
<1>8. PanelInv'
  <2> SUFFICES ASSUME ~raced' PROVE PanelInv!2'
    BY DEF PanelInv
  <2>1. CASE Settles(l) /\ ~(Unsaved /\ l.tel = side.tel)
    <3>1. l.calm /\ looks = {l} /\ PanelCalls = {} /\ l.of = sel /\ sel \in Listed
      BY <2>1 DEF Settles, PanelCalls
    <3>2. side' = filled /\ looks' = {} /\ OpenRow'
      BY <1>4, <1>6, <3>1 DEF OpenRow
    <3>3. l.notes = row[sel].notes /\ l.tel = row[sel].tel
      BY <1>4, <3>1 DEF CalmLooks
    <3>4. side'.typed = l.tel
      BY <1>3, <2>1, <3>2 DEF Unsaved
    <3>5. PanelKept'
      BY <1>3, <1>4, <1>7, <3>1, <3>2, <3>3, <3>4 DEF PanelKept, Mine
    <3>6. QED BY <1>6, <3>1, <3>2, <3>5
  <2>2. CASE ~(Settles(l) /\ ~(Unsaved /\ l.tel = side.tel))
    <3>1. ~raced /\ l.calm
      BY <1>1, <1>4, <2>2, PanelTypes
    <3>2. PanelInv!2
      BY <3>1 DEF PanelInv
    <3>3. l.of = sel /\ OpenRow /\ PanelKept
      BY <3>2
    <3>4. side' = filled /\ looks' \subseteq looks
      BY <1>4, <3>3 DEF OpenRow
    <3>5. Mine(side'.tel) /\ Mine(side'.typed)
      <4>1. Mine(l.tel)
        BY <1>7, <3>3
      <4>2. l.tel = side.tel => Mine(side.typed)
        <5>1. CASE side.of = sel
          BY <3>3, <5>1 DEF PanelKept
        <5>2. CASE side.of # sel
          BY <3>3, <4>1, <5>2 DEF PanelKept, Unsaved
        <5>3. QED BY <5>1, <5>2
      <4>3. QED BY <1>3, <3>4, <4>1, <4>2
    <3>6. looks' = {} => side'.notes = row[sel].notes /\ side'.tel = row[sel].tel
      BY <1>3, <1>4, <3>1, <3>3, <3>4 DEF CalmLooks
    <3>7. PanelKept'
      BY <1>3, <1>4, <3>3, <3>4, <3>5, <3>6 DEF PanelKept, Mine
    <3>8. QED BY <1>4, <1>6, <3>2, <3>3, <3>4, <3>7
  <2>3. QED BY <2>1, <2>2
<1>9. side' \in WbSide /\ looks' \subseteq WbLook /\ raced' \in BOOLEAN
  BY <1>1, <1>3, <1>4, PanelTypes
<1>10. QED BY <1>4, <1>5, <1>8, <1>9, PanelTypes, PanelStepKeeps

LEMMA LookFailsKeeps == ASSUME BenchInv, NEW l \in looks, LookFails(l) PROVE BenchInv'
<1> USE DEF BenchInv
<1>1. wbLeft' \in [WbEvents -> Nat]
  BY WbUseTyped DEF LookFails, WbEvents
<1>2. l \in WbLook /\ l.of \in ConvOrNone /\ l.tel \in ConvOrNone /\ l.notes \in Nat /\ NoRow \in ConvOrNone
  BY DEF BenchTyped, RequestsTyped, WbLook, ConvOrNone
<1>3. Shows(l.tel) \in WbSide /\ Shows(NoRow) \in WbSide
  BY <1>2, PanelTypes, ShowsTyped
<1>4. side' \in WbSide
  <2>1. [Shows(NoRow) EXCEPT !.of = l.of, !.notes = l.notes] \in WbSide
    BY <1>2, <1>3, OfTyped
  <2>2. QED BY <1>3, <2>1 DEF LookFails
<1>5. /\ looks' = looks \ {l} /\ raced' = TRUE
      /\ UNCHANGED <<order, row, list, sel, asked, dialog, loads, changes, crossed, jumped, astray>>
  BY DEF LookFails
<1>6. CalmLooks' /\ PhonesAtHome' /\ PanelInv'
  BY <1>5, LooksStayCalm, PhonesStay DEF PanelInv
<1>7. looks' \subseteq WbLook /\ raced' \in BOOLEAN
  BY <1>5, PanelTypes
<1>8. QED BY <1>1, <1>4, <1>5, <1>6, <1>7, PanelTypes, PanelStepKeeps

LEMMA EditContactKeeps == ASSUME BenchInv, NEW typed \in {side.typed, sel}, EditContact(typed) PROVE BenchInv'
<1> USE DEF BenchInv
<1>1. wbLeft' \in [WbEvents -> Nat]
  BY WbUseTyped DEF EditContact, WbEvents
<1>2. side \in WbSide /\ typed \in ConvOrNone
  BY PanelTypes
<1>3. /\ side' = [side EXCEPT !.editing = TRUE, !.typed = typed] /\ raced' = (raced \/ side.of # sel) /\ OpenRow
      /\ UNCHANGED <<order, row, list, sel, asked, dialog, loads, looks, changes, crossed, jumped, astray>>
  BY DEF EditContact
<1>4. /\ side' \in WbSide /\ side'.of = side.of /\ side'.notes = side.notes /\ side'.tel = side.tel
      /\ side'.typed = typed
  BY <1>2, <1>3 DEF WbSide
<1>5. CalmLooks' /\ PhonesAtHome'
  BY <1>3, LooksStayCalm, PhonesStay
<1>6. PanelInv'
  <2> SUFFICES ASSUME ~raced' PROVE PanelInv!2'
    BY DEF PanelInv
  <2>1. ~raced /\ side.of = sel
    BY <1>3, PanelTypes
  <2>2. PanelInv!2
    BY <2>1 DEF PanelInv
  <2>3. PanelKept /\ OpenRow'
    BY <1>3, <2>2 DEF OpenRow, Listed, IdsOf
  <2>4. (Owed({"note"}, sel) <=> Owed({"note"}, sel)') /\ (Owed({"contact"}, sel) <=> Owed({"contact"}, sel)')
    BY <1>3 DEF Owed
  <2>5. Mine(typed) /\ Mine(side'.tel)
    BY <1>4, <2>1, <2>3 DEF PanelKept, Mine
  <2>6. PanelKept'
    BY <1>3, <1>4, <2>1, <2>3, <2>4, <2>5 DEF PanelKept, Owed, Mine
  <2>7. QED BY <1>3, <2>2, <2>3, <2>6 DEF PanelCalls, Changing
<1>7. QED
  <2>1. raced' \in BOOLEAN
    BY <1>3, PanelTypes
  <2>2. QED BY <1>1, <1>3, <1>4, <1>5, <1>6, <2>1, PanelTypes, PanelStepKeeps

LEMMA CancelContactKeeps == ASSUME BenchInv, CancelContact PROVE BenchInv'
<1> USE DEF BenchInv
<1>1. side \in WbSide /\ side.tel \in ConvOrNone
  BY PanelTypes
<1>2. /\ side.editing /\ side' = [side EXCEPT !.editing = FALSE, !.typed = side.tel]
      /\ UNCHANGED <<order, row, list, sel, asked, dialog, loads, looks, changes, crossed, raced, jumped, astray, wbLeft>>
  BY DEF CancelContact
<1>3. /\ side' \in WbSide /\ side'.of = side.of /\ side'.notes = side.notes /\ side'.tel = side.tel
      /\ side'.typed = side.tel
  BY <1>1, <1>2 DEF WbSide
<1>4. CalmLooks' /\ PhonesAtHome'
  BY <1>2, LooksStayCalm, PhonesStay
<1>5. PanelInv'
  <2> SUFFICES ASSUME ~raced PROVE PanelInv!2'
    BY <1>2 DEF PanelInv
  <2>1. PanelInv!2
    BY DEF PanelInv
  <2>2. OpenRow /\ OpenRow' /\ PanelKept /\ side.of = sel
    BY <1>2, <2>1 DEF OpenRow, Listed, IdsOf, Unsaved, PanelKept
  <2>3. (Owed({"note"}, sel) <=> Owed({"note"}, sel)') /\ (Owed({"contact"}, sel) <=> Owed({"contact"}, sel)')
    BY <1>2 DEF Owed
  <2>4. Mine(side.tel)
    BY <2>2 DEF PanelKept
  <2>5. PanelKept'
    BY <1>2, <1>3, <2>2, <2>3, <2>4 DEF PanelKept, Owed, Mine
  <2>6. QED BY <1>2, <2>1, <2>2, <2>5 DEF PanelCalls, Changing
<1>6. QED BY <1>2, <1>3, <1>4, <1>5, PanelTypes, PanelStepKeeps

LEMMA SaveContactKeeps == ASSUME BenchInv, SaveContact PROVE BenchInv'
<1> USE DEF BenchInv
<1> DEFINE new == [Sent("contact", sel) EXCEPT !.tel = side.typed]
<1>1. side \in WbSide /\ side.typed \in ConvOrNone /\ sel \in WbConvs
  BY PanelTypes DEF SaveContact, OpenRow
<1>2. new \in WbCall /\ new.do = "contact" /\ new.of = sel /\ new.at = "sent" /\ new.tel = side.typed
  BY <1>1 DEF Sent, WbCall, CallKinds, Statuses, ConvOrNone
<1>3. /\ OpenRow /\ side.editing /\ side' = [side EXCEPT !.editing = FALSE] /\ changes' = changes \union {new}
      /\ UNCHANGED <<order, row, list, sel, asked, dialog, loads, looks, crossed, raced, jumped, wbLeft>>
  BY DEF SaveContact, Sends
<1> HIDE DEF new
<1>4. /\ side' \in WbSide /\ side'.of = side.of /\ side'.notes = side.notes /\ side'.tel = side.tel
      /\ side'.typed = side.typed
  BY <1>1, <1>3 DEF WbSide
<1>5. astray = "no" /\ ~raced => side.typed \in {NoRow, sel}
  BY <1>3 DEF PanelInv, PanelKept, Mine, Unsaved
<1>6. /\ astray' \in {"no", "in haste", "calmly"} /\ astray' # "calmly" /\ (astray' = "no" => astray = "no")
      /\ astray' = "no" => side.typed \in {NoRow, sel}
  BY <1>5, PanelTypes DEF SaveContact, PhonesAtHome
<1>7. CalmLooks'
  BY <1>3, LooksStayCalm
<1>8. PhonesAtHome'
  BY <1>2, <1>3, <1>6 DEF PhonesAtHome
<1>9. PanelInv'
  <2> SUFFICES ASSUME ~raced PROVE PanelInv!2'
    BY <1>3 DEF PanelInv
  <2>1. PanelInv!2
    BY DEF PanelInv
  <2>2. PanelKept /\ OpenRow' /\ side.of = sel
    BY <1>3, <2>1 DEF OpenRow, Listed, IdsOf, PanelKept, Unsaved
  <2>3. (Owed({"note"}, sel) => Owed({"note"}, sel)') /\ (Owed({"contact"}, sel) => Owed({"contact"}, sel)')
    BY <1>3 DEF Owed
  <2>4. Mine(side.tel) /\ Mine(side.typed)
    BY <2>2 DEF PanelKept
  <2>5. PanelKept'
    BY <1>3, <1>4, <1>6, <2>2, <2>3, <2>4 DEF PanelKept, Owed, Mine
  <2>6. \A k \in PanelCalls' : k.of = sel'
    BY <1>2, <1>3, <2>1 DEF PanelCalls, Changing
  <2>7. QED BY <1>3, <2>1, <2>2, <2>5, <2>6
<1>10. QED
  <2>1. changes' \subseteq WbCall
    BY <1>2, <1>3, PanelTypes
  <2>2. QED BY <1>2, <1>3, <1>4, <1>6, <1>7, <1>8, <1>9, <2>1, PanelTypes, PanelStepKeeps

LEMMA LandContactKeeps == ASSUME BenchInv, NEW k \in changes, LandContact(k) PROVE BenchInv'
<1> USE DEF BenchInv
<1>1. k \in WbCall /\ k.of \in WbConvs /\ k.tel \in ConvOrNone /\ k.calm \in BOOLEAN
  BY DEF BenchTyped, RequestsTyped, WbCall
<1>2. /\ k.at = "served" /\ k.do = "contact" /\ changes' = changes \ {k} /\ side' = Shows(k.tel)
      /\ raced' = (raced \/ ~k.calm)
      /\ UNCHANGED <<order, row, list, sel, asked, dialog, loads, looks, crossed, jumped, astray, wbLeft>>
  BY DEF LandContact
<1>3. /\ side' \in WbSide /\ side'.tel = k.tel /\ side'.of = side.of /\ side'.notes = side.notes
      /\ side'.editing = side.editing /\ side'.typed = (IF k.tel # side.tel THEN k.tel ELSE side.typed)
  <2>1. side \in WbSide /\ k.tel \in ConvOrNone /\ side' = Shows(k.tel)
    BY <1>1, <1>2, PanelTypes
  <2> HIDE DEF BenchInv
  <2>2. QED BY <2>1, ShowsTyped
<1>4. CalmLooks' /\ PhonesAtHome'
  BY <1>2, LooksStayCalm, PhonesStay
<1>5. PanelInv'
  <2> SUFFICES ASSUME ~raced' PROVE PanelInv!2'
    BY DEF PanelInv
  <2>1. ~raced /\ k.calm
    BY <1>1, <1>2, PanelTypes
  <2>2. PanelInv!2 /\ k \in PanelCalls
    BY <1>2, <2>1 DEF PanelInv, PanelCalls, Changing
  <2>3. OpenRow /\ OpenRow' /\ k.of = sel /\ PanelKept
    BY <1>2, <2>2 DEF OpenRow, Listed, IdsOf
  <2>4. row[sel].tel = k.tel
    BY <1>2, <2>1, <2>3 DEF CalmCalls
  <2>5. Owed({"note"}, sel) => Owed({"note"}, sel)'
    BY <1>2 DEF Owed
  <2>6. Mine(k.tel)
    BY <1>2, <2>3 DEF PhonesAtHome, Mine
  <2>7. CASE side.of = sel
    <3>1. Mine(side'.typed)
      BY <1>3, <2>3, <2>6, <2>7 DEF PanelKept
    <3>2. QED
      <4>1. PanelKept'
        BY <1>2, <1>3, <2>3, <2>4, <2>5, <2>6, <2>7, <3>1 DEF PanelKept, Owed, Mine
      <4>2. QED BY <1>2, <2>2, <2>3, <4>1 DEF PanelCalls, Changing
  <2>8. CASE side.of # sel
    <3>1. PanelKept'
      BY <1>2, <1>3, <2>3, <2>8 DEF PanelKept, Unsaved
    <3>2. QED BY <1>2, <2>2, <2>3, <3>1 DEF PanelCalls, Changing
  <2>9. QED BY <2>7, <2>8
<1>6. QED
  <2>1. raced' \in BOOLEAN /\ changes' \subseteq WbCall
    BY <1>1, <1>2, PanelTypes
  <2>2. QED BY <1>2, <1>3, <1>4, <1>5, <2>1, PanelTypes, PanelStepKeeps

LEMMA LandNoteKeeps == ASSUME BenchInv, NEW k \in changes, LandNote(k) PROVE BenchInv'
<1> USE DEF BenchInv
<1>1. k \in WbCall /\ k.of \in WbConvs
  BY DEF BenchTyped, RequestsTyped, WbCall
<1>2. /\ k.at = "served" /\ k.do = "note" /\ changes' = changes \ {k} /\ looks' = looks \union {Look(k.of)}
      /\ UNCHANGED <<order, row, list, sel, asked, side, dialog, loads, crossed, raced, jumped, astray, wbLeft>>
  BY DEF LandNote
<1>3. Look(k.of) \in WbLook /\ Look(k.of).at = "sent" /\ Look(k.of).of = k.of
  BY <1>1 DEF Look, WbLook, ConvOrNone
<1>4. CalmLooks' /\ PhonesAtHome'
  BY <1>2, <1>3, LooksStayCalm, PhonesStay
<1>5. PanelInv'
  <2> SUFFICES ASSUME ~raced PROVE PanelInv!2'
    BY <1>2 DEF PanelInv
  <2>1. PanelInv!2 /\ k \in PanelCalls
    BY <1>2 DEF PanelInv, PanelCalls, Changing
  <2>2. OpenRow /\ OpenRow' /\ k.of = sel /\ PanelKept /\ looks' # {}
    BY <1>2, <2>1 DEF OpenRow, Listed, IdsOf
  <2>3. PanelKept'
    BY <1>2, <2>2 DEF PanelKept, Mine, Unsaved
  <2>4. QED BY <1>2, <1>3, <2>1, <2>2, <2>3 DEF PanelCalls, Changing
<1>6. QED
  <2>1. looks' \subseteq WbLook /\ changes' \subseteq WbCall
    BY <1>2, <1>3, PanelTypes
  <2>2. QED BY <1>2, <1>4, <1>5, <2>1, PanelTypes, PanelStepKeeps

LEMMA PressNoteKeeps == ASSUME BenchInv, PressNote PROVE BenchInv'
<1> USE DEF BenchInv
<1>1. wbLeft' \in [WbEvents -> Nat]
  BY WbUseTyped DEF PressNote, WbEvents
<1>2. sel \in WbConvs /\ OpenRow
  BY PanelTypes DEF PressNote, OpenRow
<1>3. /\ Sent("note", sel) \in WbCall /\ Sent("note", sel).do = "note" /\ Sent("note", sel).of = sel
      /\ Sent("note", sel).at = "sent"
  BY <1>2 DEF Sent, WbCall, CallKinds, Statuses, ConvOrNone
<1>4. /\ changes' = changes \union {Sent("note", sel)}
      /\ UNCHANGED <<order, row, list, sel, asked, side, dialog, loads, looks, crossed, raced, jumped, astray>>
  BY DEF PressNote, Sends
<1>5. CalmLooks' /\ PanelInv' /\ PhonesAtHome'
  BY <1>2, <1>3, <1>4, LooksStayCalm, PanelStays, PhonesStay
<1>6. changes' \subseteq WbCall
  BY <1>3, <1>4, PanelTypes
<1>7. QED BY <1>1, <1>3, <1>4, <1>5, <1>6, PanelTypes, PanelStepKeeps

(* Other changes an agent makes. *)

\* Nothing moves but the calls, which are of other kinds, and the dialog.
LEMMA CallStepKeeps ==
  ASSUME BenchInv, UNCHANGED <<order, row, list, sel, asked, side, loads, looks, crossed, raced, jumped, astray>>,
         changes' \subseteq WbCall, wbLeft' \in [WbEvents -> Nat], dialog' \in ConvOrNone,
         \A k \in changes' : k \in changes \/ (k.at = "sent" /\ k.do \in {"status", "count", "edit"}),
         \A k \in changes : k.do # "count" => k \in changes',
         QuestionInv'
  PROVE  BenchInv'
<1> USE DEF BenchInv
<1>1. BenchTyped'
  BY DEF BenchTyped, OrderTyped, RowsTyped, ListTyped, ChosenTyped, RequestsTyped, WitnessesTyped
<1>2. CalmLooks' /\ CalmLoads' /\ CalmCalls' /\ OneOlder' /\ Appended'
  BY LooksStayCalm, LoadsStayCalm, CallsStayCalm, OlderStays
<1>3. ListInv' /\ PanelInv' /\ PhonesAtHome'
  BY ListStays, PanelStays, PhonesStay DEF NoFirstPage
<1>4. QED BY <1>1, <1>2, <1>3

LEMMA PressEditKeeps == ASSUME BenchInv, PressEdit PROVE BenchInv'
<1> USE DEF BenchInv
<1>1. wbLeft' \in [WbEvents -> Nat]
  BY WbUseTyped DEF PressEdit, WbEvents
<1>2. sel \in WbConvs /\ dialog \in ConvOrNone
  BY PanelTypes DEF PressEdit, OpenRow, BenchTyped, ChosenTyped
<1>3. Sent("edit", sel) \in WbCall /\ Sent("edit", sel).do = "edit" /\ Sent("edit", sel).at = "sent"
  BY <1>2 DEF Sent, WbCall, CallKinds, Statuses, ConvOrNone
<1>4. /\ changes' = changes \union {Sent("edit", sel)}
      /\ UNCHANGED <<order, row, list, sel, asked, side, dialog, loads, looks, crossed, raced, jumped, astray>>
  BY DEF PressEdit, Sends
<1>5. QuestionInv'
  BY <1>3, <1>4, QuestionStays
<1>6. changes' \subseteq WbCall
  BY <1>3, <1>4, PanelTypes
<1>7. QED BY <1>1, <1>2, <1>3, <1>4, <1>5, <1>6, CallStepKeeps

LEMMA PressStatusKeeps == ASSUME BenchInv, NEW status \in Statuses, PressStatus(status) PROVE BenchInv'
<1> USE DEF BenchInv
<1> DEFINE new == IF status = "RESOLVED" THEN Sent("count", sel) ELSE SentStatus(sel, status)
<1>1. wbLeft' \in [WbEvents -> Nat]
  BY WbUseTyped DEF PressStatus, WbEvents
<1>2. sel \in WbConvs /\ dialog \in ConvOrNone
  BY PanelTypes DEF PressStatus, OpenRow, BenchTyped, ChosenTyped
<1>3. new \in WbCall /\ new.do \in {"count", "status"} /\ new.of = sel /\ new.at = "sent"
  <2>1. /\ Sent("count", sel) \in WbCall /\ Sent("count", sel).do = "count" /\ Sent("count", sel).of = sel
        /\ Sent("count", sel).at = "sent"
    BY <1>2 DEF Sent, WbCall, CallKinds, Statuses, ConvOrNone
  <2>2. /\ SentStatus(sel, status) \in WbCall /\ SentStatus(sel, status).do = "status"
        /\ SentStatus(sel, status).of = sel /\ SentStatus(sel, status).at = "sent"
    BY <1>2 DEF Sent, SentStatus, WbCall, CallKinds, Statuses, ConvOrNone
  <2>3. QED BY <2>1, <2>2
<1>4. /\ changes' = changes \union {new}
      /\ UNCHANGED <<order, row, list, sel, asked, side, dialog, loads, looks, crossed, raced, jumped, astray>>
  BY DEF PressStatus, Sends
<1> HIDE DEF new
<1>5. QuestionInv'
  BY <1>3, <1>4, QuestionStays
<1>6. changes' \subseteq WbCall
  BY <1>3, <1>4, PanelTypes
<1>7. QED BY <1>1, <1>2, <1>3, <1>4, <1>5, <1>6, CallStepKeeps

LEMMA ConfirmResolveKeeps == ASSUME BenchInv, ConfirmResolve PROVE BenchInv'
<1> USE DEF BenchInv
<1> DEFINE new == SentStatus(sel, "RESOLVED")
<1>1. OpenRow => new \in WbCall /\ new.do = "status" /\ new.at = "sent"
  <2> SUFFICES ASSUME OpenRow PROVE new \in WbCall /\ new.do = "status" /\ new.at = "sent"
    OBVIOUS
  <2>1. sel \in WbConvs
    BY PanelTypes DEF OpenRow
  <2>2. QED BY <2>1 DEF Sent, SentStatus, WbCall, CallKinds, Statuses, ConvOrNone
<1>2. /\ dialog' = NoRow /\ changes' = (IF OpenRow THEN changes \union {new} ELSE changes)
      /\ UNCHANGED <<order, row, list, sel, asked, side, loads, looks, crossed, raced, jumped, astray, wbLeft>>
  BY DEF ConfirmResolve, Sends
<1> HIDE DEF new
<1>3. QuestionInv'
  BY <1>1, <1>2, QuestionStays
<1>4. changes' \subseteq WbCall /\ dialog' \in ConvOrNone
  BY <1>1, <1>2, PanelTypes DEF ConvOrNone
<1>5. QED BY <1>1, <1>2, <1>3, <1>4, PanelTypes, CallStepKeeps

LEMMA DismissDialogKeeps == ASSUME BenchInv, DismissDialog PROVE BenchInv'
<1> USE DEF BenchInv
<1>1. /\ dialog' = NoRow /\ NoRow \in ConvOrNone
      /\ UNCHANGED <<order, row, list, sel, asked, side, loads, looks, changes, crossed, raced, jumped, astray, wbLeft>>
  BY DEF DismissDialog, ConvOrNone
<1>2. QuestionInv'
  BY <1>1, QuestionStays
<1>3. QED BY <1>1, <1>2, PanelTypes, CallStepKeeps

LEMMA LandCountKeeps == ASSUME BenchInv, NEW k \in changes, LandCount(k) PROVE BenchInv'
<1> USE DEF BenchInv
<1> DEFINE new == SentStatus(k.of, "RESOLVED")
<1>1. k \in WbCall /\ k.of \in WbConvs /\ k.of \in ConvOrNone
  BY DEF BenchTyped, RequestsTyped, WbCall, ConvOrNone
<1>2. new \in WbCall /\ new.do = "status" /\ new.at = "sent"
  BY <1>1 DEF Sent, SentStatus, WbCall, CallKinds, Statuses, ConvOrNone
<1>3. /\ k.do = "count"
      /\ \/ dialog' = k.of /\ changes' = changes \ {k}
         \/ dialog' = dialog /\ changes' = (changes \ {k}) \union {new}
      /\ UNCHANGED <<order, row, list, sel, asked, side, loads, looks, crossed, raced, jumped, astray, wbLeft>>
  BY DEF LandCount
<1> HIDE DEF new
<1>4. QuestionInv'
  BY <1>2, <1>3 DEF QuestionInv, QuestionIsOfTheOpen
<1>5. changes' \subseteq WbCall /\ dialog' \in ConvOrNone
  BY <1>1, <1>2, <1>3, PanelTypes DEF BenchTyped, ChosenTyped
<1>6. QED BY <1>2, <1>3, <1>4, <1>5, PanelTypes, CallStepKeeps

LEMMA CallFailsKeeps == ASSUME BenchInv, NEW k \in changes, CallFails(k) PROVE BenchInv'
<1> USE DEF BenchInv
<1>1. wbLeft' \in [WbEvents -> Nat]
  BY WbUseTyped DEF CallFails, WbEvents
<1>2. /\ changes' = changes \ {k} /\ crossed' = TRUE /\ raced' = TRUE
      /\ UNCHANGED <<order, row, list, sel, asked, side, dialog, loads, looks, jumped, astray>>
  BY DEF CallFails
<1>3. BenchTyped'
  BY <1>1, <1>2 DEF BenchTyped, OrderTyped, RowsTyped, ListTyped, ChosenTyped, RequestsTyped, WitnessesTyped
<1>4. CalmLooks' /\ CalmLoads' /\ CalmCalls' /\ OneOlder' /\ Appended'
  BY <1>2, LooksStayCalm, LoadsStayCalm, CallsStayCalm, OlderStays
<1>5. ListInv' /\ PanelInv'
  BY <1>2 DEF ListInv, PanelInv
<1>6. QuestionInv' /\ PhonesAtHome'
  BY <1>2, QuestionStays, PhonesStay
<1>7. QED BY <1>3, <1>4, <1>5, <1>6

(* A call is carried out. *)

LEMMA RowsAfterTyped ==
  ASSUME RowsTyped, NEW k \in WbCall, k.do # "asked", NEW rows, rows = RowsAfter(k)
  PROVE  /\ rows \in [WbConvs -> WbRow]
         /\ \A c \in WbConvs : c # k.of => rows[c] = row[c]
         /\ k.do \in {"open", "status"} => rows[k.of].status = k.status
         /\ k.do = "contact" => rows[k.of].tel = k.tel
         /\ \A c \in WbConvs :
              /\ k.do \notin {"open", "status"} => rows[c].status = row[c].status
              /\ k.do # "edit" => rows[c].mark = row[c].mark
              /\ k.do # "note" => rows[c].notes = row[c].notes
              /\ k.do # "contact" => rows[c].tel = row[c].tel
<1>1. /\ k.of \in WbConvs /\ k.status \in Statuses /\ k.tel \in ConvOrNone
      /\ k.do \in CallKinds /\ row \in [WbConvs -> WbRow] /\ row[k.of] \in WbRow
  BY DEF WbCall, RowsTyped
<1>2. CASE k.do \in {"open", "status"}
  <2>1. rows = [row EXCEPT ![k.of].status = k.status]
    BY <1>2 DEF RowsAfter
  <2>2. [row[k.of] EXCEPT !.status = k.status] \in WbRow
    BY <1>1 DEF WbRow
  <2>3. QED BY <1>1, <1>2, <2>1, <2>2 DEF WbRow
<1>3. CASE k.do = "edit"
  <2>1. rows = [row EXCEPT ![k.of].mark = ~@]
    BY <1>3 DEF RowsAfter
  <2>2. PICK b \in BOOLEAN : b = ~row[k.of].mark
    OBVIOUS
  <2>3. rows = [row EXCEPT ![k.of].mark = b]
    BY <2>1, <2>2
  <2>4. [row[k.of] EXCEPT !.mark = b] \in WbRow
    BY <1>1 DEF WbRow
  <2>5. QED BY <1>1, <1>3, <2>3, <2>4 DEF WbRow
<1>4. CASE k.do = "note"
  <2>1. rows = [row EXCEPT ![k.of].notes = @ + 1]
    BY <1>4 DEF RowsAfter
  <2>2. [row[k.of] EXCEPT !.notes = row[k.of].notes + 1] \in WbRow
    BY <1>1 DEF WbRow
  <2>3. QED BY <1>1, <1>4, <2>1, <2>2 DEF WbRow
<1>5. CASE k.do = "contact"
  <2>1. rows = [row EXCEPT ![k.of].tel = k.tel]
    BY <1>5 DEF RowsAfter
  <2>2. [row[k.of] EXCEPT !.tel = k.tel] \in WbRow
    BY <1>1 DEF WbRow
  <2>3. QED BY <1>1, <1>5, <2>1, <2>2 DEF WbRow
<1>6. CASE k.do = "count"
  BY <1>1, <1>6 DEF RowsAfter
<1>7. QED BY <1>1, <1>2, <1>3, <1>4, <1>5, <1>6 DEF CallKinds

LEMMA EntriesKept ==
  ASSUME RowsTyped, OrderTyped, order' = order,
         \A c \in WbConvs : row'[c].status = row[c].status /\ row'[c].mark = row[c].mark,
         NEW from \in Nat
  PROVE  PageFrom(from)' = PageFrom(from)
<1> DEFINE last == IF from + WbPage > Len(order) THEN Len(order) ELSE from + WbPage
<1>1. Len(order) = WbSize /\ WbSize \in Nat /\ WbPage \in Nat
  BY OrderIsSequence, WorkbenchAssumption
<1>2. last \in Nat /\ last <= WbSize
  BY <1>1
<1>3. /\ PageFrom(from) = [j \in 1..(last - from) |-> EntryOf(order[from + j])]
      /\ PageFrom(from)' = [j \in 1..(last - from) |-> EntryOf(order[from + j])']
  BY DEF PageFrom
<1> HIDE DEF last
<1>4. \A j \in 1..(last - from) : order[from + j] \in WbConvs
  <2> SUFFICES ASSUME NEW j \in 1..(last - from) PROVE order[from + j] \in WbConvs
    OBVIOUS
  <2>1. from + j \in WbConvs
    BY <1>1, <1>2 DEF WbConvs
  <2>2. QED BY <2>1 DEF OrderTyped
<1>5. \A c \in WbConvs : EntryOf(c)' = EntryOf(c)
  BY DEF EntryOf
<1>6. \A j \in 1..(last - from) : EntryOf(order[from + j])' = EntryOf(order[from + j])
  BY <1>4, <1>5 DEF EntryOf
<1>7. QED BY <1>3, <1>6

LEMMA ServeCallKeeps == ASSUME BenchInv, NEW k \in changes, ServeCall(k) PROVE BenchInv'
<1> USE DEF BenchInv
<1>1. /\ k \in WbCall /\ k.of \in WbConvs /\ k.do \in CallKinds /\ k.do # "asked" /\ k.at = "sent"
      /\ changes \subseteq WbCall /\ loads \subseteq WbLoad /\ looks \subseteq WbLook
      /\ row' = RowsAfter(k) /\ RowsTyped
      /\ UNCHANGED <<order, list, sel, asked, side, dialog, crossed, raced, jumped, astray, wbLeft>>
  BY DEF ServeCall, BenchTyped, RequestsTyped, WbCall
<1>2. /\ row' \in [WbConvs -> WbRow]
      /\ \A c \in WbConvs : c # k.of => row'[c] = row[c]
      /\ k.do \in {"open", "status"} => row'[k.of].status = k.status
      /\ k.do = "contact" => row'[k.of].tel = k.tel
      /\ \A c \in WbConvs :
           /\ k.do \notin {"open", "status"} => row'[c].status = row[c].status
           /\ k.do # "edit" => row'[c].mark = row[c].mark
           /\ k.do # "note" => row'[c].notes = row[c].notes
           /\ k.do # "contact" => row'[c].tel = row[c].tel
  BY <1>1, RowsAfterTyped
<1>3. PICK answer \in BOOLEAN :
        /\ k.do = "edit" => answer = row'[k.of].mark
        /\ changes' = ((changes \ {k}) \ Rivals(k)) \union Disturbed(Rivals(k))
                      \union {[k EXCEPT !.at = "served", !.answer = answer]}
  <2>1. row'[k.of].mark \in BOOLEAN
    BY <1>1, <1>2 DEF WbRow
  <2>2. PICK answer \in IF k.do = "count" THEN BOOLEAN ELSE {row'[k.of].mark} :
          changes' = ((changes \ {k}) \ Rivals(k)) \union Disturbed(Rivals(k))
                     \union {[k EXCEPT !.at = "served", !.answer = answer]}
    BY DEF ServeCall
  <2>3. QED BY <2>1, <2>2
<1> DEFINE new == [k EXCEPT !.at = "served", !.answer = answer]
<1>4. /\ new \in WbCall /\ new.do = k.do /\ new.of = k.of /\ new.status = k.status /\ new.tel = k.tel
      /\ new.calm = k.calm /\ new.at = "served" /\ new.answer = answer
  BY <1>1 DEF WbCall
<1>5. changes' = ((changes \ {k}) \ Rivals(k)) \union Disturbed(Rivals(k)) \union {new}
  BY <1>3
<1> HIDE DEF new
<1>6. \A q \in Rivals(k) : q \in changes /\ q.at = "served" /\ q # k
  BY DEF Rivals, Served
<1>7. ASSUME NEW q \in changes'
      PROVE  \/ q = new
             \/ q \in changes /\ q # k /\ q \notin Rivals(k)
             \/ /\ q \in WbCall /\ ~q.calm
                /\ \E p \in changes : q.do = p.do /\ q.of = p.of /\ q.at = p.at /\ q.tel = p.tel
  <2>1. CASE q \in Disturbed(Rivals(k))
    <3>1. PICK p \in Rivals(k) : q = [p EXCEPT !.calm = FALSE]
      BY <2>1 DEF Disturbed
    <3>2. p \in changes /\ p \in WbCall
      BY <1>1, <1>6
    <3>3. QED BY <3>1, <3>2, CallDisturbed
  <2>2. QED BY <1>5, <1>7, <2>1
<1>8. ASSUME NEW p \in changes, p # k
      PROVE  \E q \in changes' : q.do = p.do /\ q.of = p.of /\ q.at = p.at
  <2>1. CASE p \notin Rivals(k)
    BY <1>5, <1>8, <2>1
  <2>2. CASE p \in Rivals(k)
    <3> DEFINE q == [p EXCEPT !.calm = FALSE]
    <3>1. q \in changes'
      BY <1>5, <2>2 DEF Disturbed
    <3>2. q.do = p.do /\ q.of = p.of /\ q.at = p.at
      BY <1>1, CallDisturbed
    <3>3. QED BY <3>1, <3>2
  <2>3. QED BY <2>1, <2>2
<1>9. new \in changes'
  BY <1>5
<1>10. /\ changes' \subseteq WbCall
       /\ \A q \in changes' : \E p \in changes : q.do = p.do /\ q.of = p.of /\ q.tel = p.tel
  BY <1>1, <1>4, <1>7
<1>11. /\ loads' = (IF k.do \in {"open", "status", "edit"} THEN Outdated(loads) ELSE loads)
       /\ looks' = (IF k.do \in {"note", "contact"} THEN Outdated(looks) ELSE looks)
  BY DEF ServeCall, Outdates
<1>12. \A l \in loads' : l \in WbLoad /\ (k.do \in {"open", "status", "edit"} => l.at = "sent" \/ ~l.calm)
                         /\ \E m \in loads : l.more = m.more /\ l.from = m.from /\ (l.calm => l = m)
                            /\ l = (IF k.do \in {"open", "status", "edit"} /\ m.at = "served"
                                    THEN [m EXCEPT !.calm = FALSE] ELSE m)
  <2> SUFFICES ASSUME NEW l \in loads'
               PROVE  l \in WbLoad /\ (k.do \in {"open", "status", "edit"} => l.at = "sent" \/ ~l.calm)
                      /\ \E m \in loads : l.more = m.more /\ l.from = m.from /\ (l.calm => l = m)
                         /\ l = (IF k.do \in {"open", "status", "edit"} /\ m.at = "served"
                                 THEN [m EXCEPT !.calm = FALSE] ELSE m)
    OBVIOUS
  <2>1. CASE k.do \in {"open", "status", "edit"}
    <3>1. PICK m \in loads : l = (IF m.at = "served" THEN [m EXCEPT !.calm = FALSE] ELSE m) /\ l \in WbLoad
                             /\ l.more = m.more /\ l.from = m.from /\ (l.at = "sent" \/ ~l.calm)
      BY <1>1, <1>11, <2>1, LoadsOutdated
    <3>2. l.calm => l = m
      <4>1. CASE m.at = "served"
        <5>1. ~l.calm
          BY <1>1, <3>1, <4>1, LoadDisturbed
        <5>2. QED BY <5>1
      <4>2. QED BY <3>1, <4>1
    <3>3. QED BY <2>1, <3>1, <3>2
  <2>2. QED BY <1>1, <1>11, <2>1
<1>13. \A l \in looks' : l \in WbLook /\ (k.do \in {"note", "contact"} => l.at = "sent" \/ ~l.calm)
                         /\ \E m \in looks : l.of = m.of /\ l.at = m.at /\ l.tel = m.tel
  BY <1>1, <1>11, LooksOutdated
<1>14. looks = {} => looks' = {}
  BY <1>13
<1>15. looks' = {} => looks = {}
  <2>1. ASSUME NEW l \in looks PROVE looks' # {}
    <3>1. CASE l \in looks'
      BY <3>1
    <3>2. CASE l \notin looks'
      <4>1. [l EXCEPT !.calm = FALSE] \in looks'
        BY <1>11, <2>1, <3>2 DEF Outdated, Served, Disturbed
      <4>2. QED BY <4>1
    <3>3. QED BY <3>1, <3>2
  <2>2. QED BY <2>1
<1>16. BenchTyped'
  <2>1. \A q \in changes' : q.do = "asked" => q.of = asked
    BY <1>10 DEF BenchTyped, RequestsTyped
  <2>2. QED BY <1>1, <1>2, <1>10, <1>12, <1>13, <2>1
              DEF BenchTyped, OrderTyped, RowsTyped, ListTyped, ChosenTyped, RequestsTyped, WitnessesTyped
<1>17. CalmLooks'
  <2>1. CASE k.do \in {"note", "contact"}
    BY <1>13, <2>1 DEF CalmLooks
  <2>2. CASE k.do \notin {"note", "contact"}
    BY <1>1, <1>2, <1>11, <2>2 DEF CalmLooks, WbLook
  <2>3. QED BY <2>1, <2>2
<1>18. CalmLoads'
  <2>1. CASE k.do \in {"open", "status", "edit"}
    BY <1>12, <2>1 DEF CalmLoads
  <2>2. CASE k.do \notin {"open", "status", "edit"}
    <3>1. \A c \in WbConvs : row'[c].status = row[c].status /\ row'[c].mark = row[c].mark
      BY <1>2, <2>2
    <3>2. loads' = loads
      BY <1>11, <2>2
    <3>3. \A l \in loads : l.from \in Nat
      BY <1>1 DEF WbLoad
    <3>4. \A l \in loads : PageFrom(l.from)' = PageFrom(l.from)
      <4> SUFFICES ASSUME NEW l \in loads PROVE PageFrom(l.from)' = PageFrom(l.from)
        OBVIOUS
      <4>1. PICK from \in Nat : from = l.from
        BY <3>3
      <4>2. PageFrom(from)' = PageFrom(from)
        BY <1>1, <3>1, EntriesKept DEF BenchTyped
      <4>3. QED BY <4>1, <4>2 DEF PageFrom
    <3>5. QED BY <3>2, <3>4 DEF CalmLoads, PageFrom
  <2>3. QED BY <2>1, <2>2
<1>19. CalmCalls'
  <2> SUFFICES ASSUME NEW q \in changes', q.at = "served"
               PROVE  /\ q.do # "asked"
                      /\ q.calm /\ q.do \in {"open", "status"} => row'[q.of].status = q.status
                      /\ q.calm /\ q.do = "edit" => row'[q.of].mark = q.answer
                      /\ q.calm /\ q.do = "contact" => row'[q.of].tel = q.tel
    BY DEF CalmCalls
  <2>1. CASE q = new
    BY <1>1, <1>2, <1>3, <1>4, <2>1
  <2>2. CASE q \in changes /\ q # k /\ q \notin Rivals(k)
    <3>1. q.of # k.of \/ k.do = "count"
      BY <2>2 DEF Rivals, Served
    <3>2. q.of \in WbConvs
      BY <1>1, <2>2 DEF WbCall
    <3>3. row'[q.of].status = row[q.of].status /\ row'[q.of].mark = row[q.of].mark
          /\ row'[q.of].tel = row[q.of].tel
      BY <1>2, <3>1, <3>2
    <3>4. QED BY <2>2, <3>3 DEF CalmCalls
  <2>3. CASE ~q.calm /\ \E p \in changes : q.do = p.do /\ q.at = p.at
    BY <2>3 DEF CalmCalls
  <2>4. QED BY <1>7, <2>1, <2>2, <2>3
<1>20. OneOlder' /\ Appended'
  <2>1. Appended'
    BY <1>1, <1>12 DEF Appended
  <2>2. ASSUME NEW l \in loads', NEW m \in loads', l.more, m.more PROVE l = m
    <3>1. PICK p \in loads : p.more /\ l = (IF k.do \in {"open", "status", "edit"} /\ p.at = "served"
                                         THEN [p EXCEPT !.calm = FALSE] ELSE p)
      BY <1>12, <2>2
    <3>2. PICK q \in loads : q.more /\ m = (IF k.do \in {"open", "status", "edit"} /\ q.at = "served"
                                         THEN [q EXCEPT !.calm = FALSE] ELSE q)
      BY <1>12, <2>2
    <3>3. p = q
      BY <3>1, <3>2 DEF OneOlder
    <3>4. QED BY <3>1, <3>2, <3>3
  <2>3. QED BY <2>1, <2>2 DEF OneOlder
<1>21. ASSUME NEW c \in WbConvs
       PROVE  /\ Owed({"open", "status"}, c) => Owed({"open", "status"}, c)'
              /\ Owed({"edit"}, c) => Owed({"edit"}, c)'
              /\ Owed({"note"}, c) => Owed({"note"}, c)'
              /\ Owed({"contact"}, c) => Owed({"contact"}, c)'
              /\ c = k.of /\ k.do \in {"open", "status"} => Owed({"open", "status"}, c)'
              /\ c = k.of /\ k.do = "edit" => Owed({"edit"}, c)'
              /\ c = k.of /\ k.do = "note" => Owed({"note"}, c)'
              /\ c = k.of /\ k.do = "contact" => Owed({"contact"}, c)'
  <2>1. \A p \in changes : p.at = "served" =>
          \E q \in changes' : q.do = p.do /\ q.of = p.of /\ q.at = "served"
    BY <1>1, <1>8
  <2>2. QED BY <1>4, <1>9, <2>1 DEF Owed
<1>22. ListInv'
  <2> SUFFICES ASSUME ~crossed, NoFirstPage' PROVE ListInv!2'
    BY <1>1 DEF ListInv
  <2>1. NoFirstPage
    <3> SUFFICES ASSUME NEW m \in loads PROVE m.more
      BY DEF NoFirstPage
    <3>1. CASE m \in loads'
      BY <3>1 DEF NoFirstPage
    <3>2. CASE m \notin loads'
      <4>1. [m EXCEPT !.calm = FALSE] \in loads'
        BY <1>11, <3>2 DEF Outdated, Served, Disturbed
      <4>2. m \in WbLoad
        BY <1>1
      <4>3. [m EXCEPT !.calm = FALSE].more = m.more
        BY <4>2 DEF WbLoad
      <4>4. QED BY <4>1, <4>3 DEF NoFirstPage
    <3>3. QED BY <3>1, <3>2
  <2>2. ListInv!2
    BY <2>1 DEF ListInv
  <2>3. ASSUME NEW i \in DOMAIN list.rows PROVE RowIsTrue(i)'
    <3>1. RowIsTrue(i) /\ order[i] \in WbConvs
      BY <2>2 DEF RowIsTrue, BenchTyped, OrderTyped
    <3>2. PICK c \in WbConvs : c = order[i]
      BY <3>1
    <3>3. c = order'[i]
      BY <1>1, <3>2
    <3>4. list.rows[i].status = row'[c].status \/ Owed({"open", "status"}, c)'
      <4>1. row'[c].status = row[c].status \/ (c = k.of /\ k.do \in {"open", "status"})
        BY <1>2
      <4>2. QED BY <1>21, <3>1, <3>2, <4>1 DEF RowIsTrue
    <3>5. list.rows[i].mark = row'[c].mark \/ Owed({"edit"}, c)'
      <4>1. row'[c].mark = row[c].mark \/ (c = k.of /\ k.do = "edit")
        BY <1>2
      <4>2. QED BY <1>21, <3>1, <3>2, <4>1 DEF RowIsTrue
    <3>6. QED BY <1>1, <3>1, <3>2, <3>3, <3>4, <3>5 DEF RowIsTrue, Owed
  <2>4. QED BY <1>1, <2>2, <2>3 DEF Listed, IdsOf
<1>23. QuestionInv'
  BY <1>1, <1>10 DEF QuestionInv, QuestionIsOfTheOpen
<1>24. PanelInv'
  <2> SUFFICES ASSUME ~raced PROVE PanelInv!2'
    BY <1>1 DEF PanelInv
  <2>1. PanelInv!2 /\ (OpenRow' <=> OpenRow) /\ (Unsaved' <=> Unsaved)
    BY <1>1 DEF PanelInv, OpenRow, Listed, IdsOf, Unsaved
  <2>2. \A l \in looks' : l.of = sel'
    BY <1>1, <1>13, <2>1
  <2>3. \A q \in PanelCalls' : q.of = sel' /\ PanelCalls # {}
    BY <1>1, <1>10, <2>1 DEF PanelCalls, Changing
  <2>4. ASSUME OpenRow PROVE PanelKept'
    <3>1. PanelKept /\ sel \in WbConvs
      BY <2>1, <2>4, PanelTypes DEF OpenRow
    <3>2. PICK c \in WbConvs : c = sel /\ c = sel'
      BY <1>1, <3>1
    <3>3. looks = {} => side.notes = row'[c].notes \/ Owed({"note"}, c)'
      <4>1. row'[c].notes = row[c].notes \/ (c = k.of /\ k.do = "note")
        BY <1>2
      <4>2. QED BY <1>21, <3>1, <3>2, <4>1 DEF PanelKept
    <3>4. looks = {} => side.tel = row'[c].tel \/ Owed({"contact"}, c)'
      <4>1. row'[c].tel = row[c].tel \/ (c = k.of /\ k.do = "contact")
        BY <1>2
      <4>2. QED BY <1>21, <3>1, <3>2, <4>1 DEF PanelKept
    <3>5. QED BY <1>1, <1>14, <1>15, <2>1, <3>1, <3>2, <3>3, <3>4 DEF PanelKept, Mine, Owed
  <2>5. QED BY <1>1, <1>14, <2>1, <2>2, <2>3, <2>4
<1>25. PhonesAtHome'
  <2> SUFFICES ASSUME astray = "no" PROVE PhonesAtHome!2!2'
    BY <1>1 DEF PhonesAtHome
  <2>1. \A c \in WbConvs : row'[c].tel \in {NoRow, c}
    BY <1>1, <1>2 DEF PhonesAtHome
  <2>2. \A q \in changes' : q.do = "contact" => q.tel \in {NoRow, q.of}
    BY <1>10 DEF PhonesAtHome
  <2>3. \A l \in looks' : l.at = "served" => l.tel \in {NoRow, l.of}
    BY <1>13 DEF PhonesAtHome
  <2>4. QED BY <2>1, <2>2, <2>3
<1>26. QED BY <1>16, <1>17, <1>18, <1>19, <1>20, <1>22, <1>23, <1>24, <1>25

LEMMA PatchedTyped ==
  ASSUME ListTyped, NEW k \in WbCall
  PROVE  /\ Patched(k) \in Seq(WbEntry) /\ DOMAIN Patched(k) = DOMAIN list.rows
         /\ Len(Patched(k)) = Len(list.rows) /\ IdsOf(Patched(k)) = Listed
         /\ list.rows # <<>> => Patched(k) # <<>>
         /\ \A i \in DOMAIN list.rows :
              /\ Patched(k)[i].id = list.rows[i].id
              /\ list.rows[i].id # k.of => Patched(k)[i] = list.rows[i]
              /\ list.rows[i].id = k.of /\ k.do = "edit" =>
                   Patched(k)[i].mark = k.answer /\ Patched(k)[i].status = list.rows[i].status
              /\ list.rows[i].id = k.of /\ k.do # "edit" =>
                   Patched(k)[i].status = k.status /\ Patched(k)[i].mark = list.rows[i].mark
<1>1. list.rows \in Seq(WbEntry) /\ k.answer \in BOOLEAN /\ k.status \in Statuses
  BY DEF ListTyped, WbCall
<1> DEFINE p == Patched(k)
           size == Len(list.rows)
<1>2. size \in Nat /\ DOMAIN list.rows = 1..size
  BY <1>1
<1> DEFINE e(i) == IF list.rows[i].id # k.of THEN list.rows[i]
                   ELSE IF k.do = "edit" THEN [list.rows[i] EXCEPT !.mark = k.answer]
                   ELSE [list.rows[i] EXCEPT !.status = k.status]
<1>3. ASSUME NEW i \in 1..size
      PROVE  /\ e(i) \in WbEntry /\ e(i).id = list.rows[i].id
             /\ list.rows[i].id # k.of => e(i) = list.rows[i]
             /\ list.rows[i].id = k.of /\ k.do = "edit" =>
                  e(i).mark = k.answer /\ e(i).status = list.rows[i].status
             /\ list.rows[i].id = k.of /\ k.do # "edit" =>
                  e(i).status = k.status /\ e(i).mark = list.rows[i].mark
  <2>1. list.rows[i] \in WbEntry
    BY <1>1, <1>2
  <2>2. CASE list.rows[i].id # k.of
    <3>1. e(i) = list.rows[i]
      BY <2>2
    <3> HIDE DEF e
    <3>2. QED BY <2>1, <2>2, <3>1
  <2>3. CASE list.rows[i].id = k.of /\ k.do = "edit"
    <3>1. e(i) = [list.rows[i] EXCEPT !.mark = k.answer]
      BY <2>3
    <3> HIDE DEF e
    <3>2. QED BY <1>1, <2>1, <2>3, <3>1 DEF WbEntry
  <2>4. CASE list.rows[i].id = k.of /\ k.do # "edit"
    <3>1. e(i) = [list.rows[i] EXCEPT !.status = k.status]
      BY <2>4
    <3> HIDE DEF e
    <3>2. QED BY <1>1, <2>1, <2>4, <3>1 DEF WbEntry
  <2>5. QED BY <2>2, <2>3, <2>4
<1>4. p = [i \in 1..size |-> e(i)]
  BY <1>2 DEF Patched
<1> HIDE DEF e
<1>5. \A i \in 1..size :
        /\ p[i] \in WbEntry /\ p[i].id = list.rows[i].id
        /\ list.rows[i].id # k.of => p[i] = list.rows[i]
        /\ list.rows[i].id = k.of /\ k.do = "edit" => p[i].mark = k.answer /\ p[i].status = list.rows[i].status
        /\ list.rows[i].id = k.of /\ k.do # "edit" => p[i].status = k.status /\ p[i].mark = list.rows[i].mark
  BY <1>3, <1>4
<1>6. DOMAIN p = 1..size
  BY <1>4
<1>7. p \in [1..size -> WbEntry]
  <2>1. p = [i \in 1..size |-> p[i]]
    BY <1>4
  <2> HIDE DEF p
  <2>2. QED BY <1>5, <2>1
<1> HIDE DEF p, size
<1>8. p \in Seq(WbEntry) /\ Len(p) = size
  BY <1>2, <1>7
<1>9. IdsOf(p) = Listed
  BY <1>2, <1>5, <1>6 DEF IdsOf, Listed
<1>10. list.rows # <<>> => p # <<>>
  BY <1>1, <1>2, <1>8 DEF size
<1>11. QED BY <1>2, <1>5, <1>6, <1>8, <1>9, <1>10 DEF p, size

LEMMA LandChangeKeeps == ASSUME BenchInv, NEW k \in changes, LandChange(k) PROVE BenchInv'
<1> USE DEF BenchInv
<1> DEFINE rows == Patched(k)
           c == DrawnTo(sel, rows)
           anew == k.of = sel
<1>1. /\ k \in WbCall /\ k.of \in WbConvs /\ k.calm \in BOOLEAN /\ changes \subseteq WbCall /\ ChosenTyped /\ ListTyped
      /\ list \in [rows : Seq(WbEntry), older : BOOLEAN] /\ crossed \in BOOLEAN /\ sel \in ConvOrNone
  BY DEF BenchTyped, RequestsTyped, ListTyped, WbCall, WitnessesTyped, ChosenTyped
<1>2. /\ rows \in Seq(WbEntry) /\ DOMAIN rows = DOMAIN list.rows /\ Len(rows) = Len(list.rows) /\ IdsOf(rows) = Listed
      /\ list.rows # <<>> => rows # <<>>
  BY <1>1, PatchedTyped
<1>3. ASSUME NEW i \in DOMAIN list.rows
      PROVE  /\ rows[i].id = list.rows[i].id
             /\ list.rows[i].id # k.of => rows[i] = list.rows[i]
             /\ list.rows[i].id = k.of /\ k.do = "edit" =>
                  rows[i].mark = k.answer /\ rows[i].status = list.rows[i].status
             /\ list.rows[i].id = k.of /\ k.do # "edit" =>
                  rows[i].status = k.status /\ rows[i].mark = list.rows[i].mark
  BY <1>1, PatchedTyped
<1>4. c \in ConvOrNone /\ (c = sel \/ c \in Listed)
  BY <1>1, <1>2, DrawnToTyped
<1>5. /\ k.at = "served" /\ k.do \in {"open", "status", "edit"}
      /\ list' = [list EXCEPT !.rows = rows] /\ Opens(c, rows, anew) /\ crossed' = (crossed \/ ~k.calm)
      /\ changes' = (changes \ {k}) \union (IF FetchesAsked(list.rows) THEN {Sent("asked", asked)} ELSE {})
      /\ UNCHANGED <<order, row, asked, loads, astray, wbLeft>>
  BY DEF LandChange
<1>6. anew \in BOOLEAN
  OBVIOUS
<1> HIDE DEF rows, c, anew
<1>7. list' \in [rows : Seq(WbEntry), older : BOOLEAN] /\ list'.rows = rows /\ list'.older = list.older
  BY <1>1, <1>2, <1>5
<1>8. /\ sel' = c /\ dialog' \in ConvOrNone /\ side' \in WbSide /\ looks' \subseteq WbLook
      /\ raced' \in BOOLEAN /\ jumped' \in BOOLEAN /\ \A m \in looks' : m \in looks \/ m.at = "sent"
  BY <1>2, <1>4, <1>5, <1>6, OpensTyped
<1>9. /\ changes' \subseteq WbCall /\ changes \ {k} \subseteq changes'
      /\ \A q \in changes' : q \in changes \/ (q.do = "asked" /\ q.of = asked /\ q.at = "sent")
  BY <1>1, <1>5, AskedTyped
<1>10. BenchTyped'
  BY <1>1, <1>2, <1>4, <1>5, <1>7, <1>8, <1>9
     DEF BenchTyped, OrderTyped, RowsTyped, ListTyped, ChosenTyped, RequestsTyped, WitnessesTyped
<1>11. CalmLooks' /\ CalmLoads' /\ CalmCalls'
  BY <1>5, <1>8, <1>9, LooksStayCalm, LoadsStayCalm, CallsStayCalm
<1>12. OneOlder' /\ Appended'
  BY <1>1, <1>2, <1>5, <1>7 DEF OneOlder, Appended
<1>13. ListInv'
  <2> SUFFICES ASSUME ~crossed', NoFirstPage' PROVE ListInv!2'
    BY DEF ListInv
  <2>1. ~crossed /\ k.calm /\ NoFirstPage
    BY <1>1, <1>5 DEF NoFirstPage
  <2>2. ListInv!2
    BY <2>1 DEF ListInv
  <2>3. /\ k.do \in {"open", "status"} => row[k.of].status = k.status
        /\ k.do = "edit" => row[k.of].mark = k.answer
    BY <1>5, <2>1 DEF CalmCalls
  <2>4. ASSUME NEW i \in DOMAIN rows PROVE RowIsTrue(i)'
    <3>1. RowIsTrue(i) /\ i \in DOMAIN list.rows
      BY <1>2, <2>2
    <3>2. list'.rows[i].status = row[order[i]].status \/ Owed({"open", "status"}, order[i])'
      <4>1. CASE list.rows[i].id = k.of /\ k.do # "edit"
        BY <1>3, <1>5, <1>7, <2>3, <3>1, <4>1 DEF RowIsTrue
      <4>2. CASE ~(list.rows[i].id = k.of /\ k.do # "edit")
        <5>1. list'.rows[i].status = list.rows[i].status
          BY <1>3, <1>7, <3>1, <4>2
        <5>2. Owed({"open", "status"}, order[i]) => Owed({"open", "status"}, order[i])'
          BY <1>5, <1>9, <3>1, <4>2 DEF Owed, RowIsTrue
        <5>3. QED BY <3>1, <5>1, <5>2 DEF RowIsTrue
      <4>3. QED BY <4>1, <4>2
    <3>3. list'.rows[i].mark = row[order[i]].mark \/ Owed({"edit"}, order[i])'
      <4>1. CASE list.rows[i].id = k.of /\ k.do = "edit"
        BY <1>3, <1>5, <1>7, <2>3, <3>1, <4>1 DEF RowIsTrue
      <4>2. CASE ~(list.rows[i].id = k.of /\ k.do = "edit")
        <5>1. list'.rows[i].mark = list.rows[i].mark
          BY <1>3, <1>7, <3>1, <4>2
        <5>2. Owed({"edit"}, order[i]) => Owed({"edit"}, order[i])'
          BY <1>5, <1>9, <3>1, <4>2 DEF Owed, RowIsTrue
        <5>3. QED BY <3>1, <5>1, <5>2 DEF RowIsTrue
      <4>3. QED BY <4>1, <4>2
    <3>4. QED BY <1>3, <1>5, <1>7, <3>1, <3>2, <3>3 DEF RowIsTrue, Owed
  <2>5. (sel # NoRow => sel \in Listed)'
    BY <1>2, <1>4, <1>7, <1>8, <2>2 DEF Listed
  <2>6. QED BY <1>2, <1>7, <2>2, <2>4, <2>5
<1>14. QuestionInv'
  BY <1>5, <1>9, OpensKeepsQuestion
<1>15. PanelInv'
  <2>1. \A q : q.do \in {"note", "contact"} => (q \in changes' <=> q \in changes)
    BY <1>5, <1>9
  <2>2. c = sel /\ c \in IdsOf(rows) => OpenRow
    BY <1>2 DEF OpenRow
  <2>3. c = sel /\ OpenRow => c \in IdsOf(rows)
    BY <1>2 DEF OpenRow
  <2>4. QED BY <1>2, <1>4, <1>5, <1>7, <2>1, <2>2, <2>3, OpensKeepsPanel
<1>16. PhonesAtHome'
  BY <1>5, <1>8, <1>9, PhonesStay
<1>17. QED BY <1>10, <1>11, <1>12, <1>13, <1>14, <1>15, <1>16

(* Others. *)

\* A conversation changes its status under the agent's hands.
LEMMA StatusMoves ==
  ASSUME BenchInv, NEW c \in WbConvs, NEW s \in Statuses, row' = [row EXCEPT ![c].status = s],
         changes' = Outdated(changes), UNCHANGED <<list, sel, asked, side, dialog, looks, raced, jumped, astray>>
  PROVE  /\ RowsTyped' /\ changes' \subseteq WbCall /\ \A k \in changes' : k.do = "asked" => k.of = asked
         /\ CalmLooks' /\ CalmCalls' /\ QuestionInv' /\ PanelInv' /\ PhonesAtHome'
<1> USE DEF BenchInv
<1>1. /\ row \in [WbConvs -> WbRow] /\ changes \subseteq WbCall /\ looks \subseteq WbLook
      /\ \A k \in changes : k.do = "asked" => k.of = asked
  BY DEF BenchTyped, RowsTyped, RequestsTyped
<1>2. /\ row' \in [WbConvs -> WbRow]
      /\ \A d \in WbConvs : row'[d].notes = row[d].notes /\ row'[d].tel = row[d].tel /\ row'[d].mark = row[d].mark
  <2>1. row[c] \in WbRow /\ [row[c] EXCEPT !.status = s] \in WbRow
    BY <1>1 DEF WbRow
  <2>2. QED BY <1>1, <2>1 DEF WbRow
<1>3. /\ \A k \in changes' :
           k \in WbCall /\ (k.at = "sent" \/ ~k.calm)
           /\ \E q \in changes : k.do = q.do /\ k.of = q.of /\ k.at = q.at /\ k.tel = q.tel
      /\ \A q \in changes : \E k \in changes' : k.do = q.do /\ k.of = q.of /\ k.at = q.at
  BY <1>1, CallsOutdated
<1>4. changes' \subseteq WbCall /\ \A k \in changes' : k.do = "asked" => k.of = asked
  BY <1>1, <1>3
<1>5. CalmLooks'
  BY <1>1, <1>2 DEF CalmLooks, WbLook
<1>6. CalmCalls'
  <2>1. \A k \in changes' : k.at = "served" => ~k.calm /\ k.do # "asked"
    BY <1>3 DEF CalmCalls
  <2>2. QED BY <2>1 DEF CalmCalls
<1>7. QuestionInv'
  BY <1>3 DEF QuestionInv, QuestionIsOfTheOpen
<1>8. PhonesAtHome'
  BY <1>2, <1>3 DEF PhonesAtHome
<1>9. PanelInv'
  <2> SUFFICES ASSUME ~raced PROVE PanelInv!2'
    BY DEF PanelInv
  <2>1. PanelInv!2 /\ (OpenRow' <=> OpenRow) /\ (Unsaved' <=> Unsaved)
    BY DEF PanelInv, OpenRow, Listed, IdsOf, Unsaved
  <2>2. \A q \in PanelCalls' : q.of = sel' /\ PanelCalls # {}
    BY <1>3, <2>1 DEF PanelCalls, Changing
  <2>3. (Owed({"note"}, sel) => Owed({"note"}, sel)') /\ (Owed({"contact"}, sel) => Owed({"contact"}, sel)')
    BY <1>3 DEF Owed
  <2>4. ASSUME OpenRow PROVE PanelKept'
    <3>1. PanelKept /\ sel \in WbConvs
      BY <2>1, <2>4, PanelTypes DEF OpenRow
    <3>2. row'[sel].notes = row[sel].notes /\ row'[sel].tel = row[sel].tel
      BY <1>2, <3>1
    <3>3. QED BY <2>1, <2>3, <3>1, <3>2 DEF PanelKept, Mine, Owed
  <2>5. QED BY <2>1, <2>2, <2>4
<1>10. QED BY <1>2, <1>4, <1>5, <1>6, <1>7, <1>8, <1>9 DEF RowsTyped

IsOrder(o) == o \in [WbConvs -> WbConvs] /\ \A d \in WbConvs : \E i \in WbConvs : o[i] = d

LEMMA MovedUpTyped ==
  ASSUME OrderTyped, NEW c \in WbConvs, NEW moved, moved = MovedUp(c)
  PROVE  IsOrder(moved)
<1> DEFINE p == PlaceOf(c)
<1>1. WbSize \in Nat /\ order \in [WbConvs -> WbConvs] /\ WbConvs = 1..WbSize
  BY WorkbenchAssumption DEF OrderTyped, WbConvs
<1>2. \E i \in DOMAIN order : order[i] = c
  BY <1>1 DEF OrderTyped
<1>3. p \in WbConvs /\ order[p] = c
  BY <1>1, <1>2 DEF PlaceOf
<1>4. moved = [i \in WbConvs |-> IF i = 1 THEN c ELSE IF i <= p THEN order[i - 1] ELSE order[i]]
  BY <1>1 DEF MovedUp
<1> HIDE DEF p
<1>5. ASSUME NEW i \in WbConvs
      PROVE  (IF i = 1 THEN c ELSE IF i <= p THEN order[i - 1] ELSE order[i]) \in WbConvs
  <2>1. i # 1 => i - 1 \in WbConvs
    BY <1>1
  <2>2. QED BY <1>1, <2>1
<1>6. moved \in [WbConvs -> WbConvs]
  BY <1>4, <1>5
<1>7. ASSUME NEW d \in WbConvs PROVE \E i \in WbConvs : moved[i] = d
  <2>1. PICK j \in WbConvs : order[j] = d
    BY DEF OrderTyped
  <2>2. CASE j = p
    <3>1. 1 \in WbConvs /\ moved[1] = c
      BY <1>1, <1>3, <1>4
    <3>2. QED BY <1>3, <2>1, <2>2, <3>1
  <2>3. CASE j > p
    <3>1. j # 1 /\ ~(j <= p)
      BY <1>1, <1>3, <2>3
    <3>2. moved[j] = order[j]
      BY <1>4, <3>1
    <3>3. QED BY <2>1, <3>2
  <2>4. CASE j < p
    <3>1. j + 1 \in WbConvs /\ j + 1 # 1 /\ j + 1 <= p /\ (j + 1) - 1 = j
      BY <1>1, <1>3, <2>4
    <3>2. moved[j + 1] = order[(j + 1) - 1]
      BY <1>4, <3>1
    <3>3. QED BY <2>1, <3>1, <3>2
  <2>5. QED BY <1>1, <1>3, <2>2, <2>3, <2>4
<1>8. QED BY <1>6, <1>7 DEF IsOrder

LEMMA ArrivesKeeps == ASSUME BenchInv, NEW c \in WbConvs, Arrives(c) PROVE BenchInv'
<1> USE DEF BenchInv
<1> DEFINE s == IF row[c].status = "RESOLVED" THEN "OPEN" ELSE row[c].status
<1>1. loads \subseteq WbLoad /\ row \in [WbConvs -> WbRow] /\ OrderTyped
  BY DEF BenchTyped, RequestsTyped, RowsTyped
<1>2. s \in Statuses
  BY <1>1 DEF WbRow, Statuses
<1>3. /\ order' = MovedUp(c) /\ row' = [row EXCEPT ![c].status = s] /\ changes' = Outdated(changes)
      /\ loads' = Disturbed(loads) \union {Load(FALSE, 0)}
      /\ UNCHANGED <<list, sel, asked, side, dialog, looks, crossed, raced, jumped, astray>>
  BY DEF Arrives
<1> HIDE DEF s
<1>4. Load(FALSE, 0) \in WbLoad /\ Load(FALSE, 0).at = "sent" /\ ~Load(FALSE, 0).more
  BY DEF Load, WbLoad
<1>5. \A l \in loads' : l \in WbLoad /\ (l.at = "sent" \/ ~l.calm) /\ (l.more => ~l.calm)
  BY <1>1, <1>3, <1>4, LoadsDisturbed
<1>6. wbLeft' \in [WbEvents -> Nat]
  BY WbUseTyped DEF Arrives, WbEvents
<1>7. OrderTyped'
  <2>1. OrderTyped /\ c \in WbConvs /\ order' = MovedUp(c)
    BY <1>1, <1>3
  <2> HIDE DEF BenchInv
  <2>2. IsOrder(order')
    BY ONLY <2>1, MovedUpTyped
  <2>3. QED BY <2>2 DEF OrderTyped, IsOrder
<1>8. /\ RowsTyped' /\ changes' \subseteq WbCall /\ \A k \in changes' : k.do = "asked" => k.of = asked
      /\ CalmLooks' /\ CalmCalls' /\ QuestionInv' /\ PanelInv' /\ PhonesAtHome'
  BY <1>2, <1>3, StatusMoves
<1>9. BenchTyped'
  BY <1>3, <1>5, <1>6, <1>7, <1>8 DEF BenchTyped, ListTyped, ChosenTyped, RequestsTyped, WitnessesTyped
<1>10. CalmLoads' /\ Appended'
  <2>1. CalmLoads'
    BY <1>5 DEF CalmLoads
  <2>2. Appended'
    BY <1>5 DEF Appended
  <2>3. QED BY <2>1, <2>2
<1>11. OneOlder'
  <2> SUFFICES ASSUME NEW l \in loads', NEW m \in loads', l.more, m.more PROVE l = m
    BY DEF OneOlder
  <2>1. l \in Disturbed(loads) /\ m \in Disturbed(loads)
    BY <1>3, <1>4
  <2>2. PICK p \in loads : l = [p EXCEPT !.calm = FALSE] /\ l.more = p.more
    BY <1>1, <2>1, LoadsDisturbed
  <2>3. PICK q \in loads : m = [q EXCEPT !.calm = FALSE] /\ m.more = q.more
    BY <1>1, <2>1, LoadsDisturbed
  <2>4. QED BY <2>2, <2>3 DEF OneOlder
<1>12. ListInv'
  BY <1>3, <1>4 DEF ListInv, NoFirstPage
<1>13. QED BY <1>8, <1>9, <1>10, <1>11, <1>12

LEMMA ColleagueChangesKeeps ==
  ASSUME BenchInv, NEW c \in WbConvs, NEW status \in Statuses, ColleagueChanges(c, status)
  PROVE  BenchInv'
<1> USE DEF BenchInv
<1>1. loads \subseteq WbLoad
  BY DEF BenchTyped, RequestsTyped
<1>2. /\ row' = [row EXCEPT ![c].status = status] /\ changes' = Outdated(changes) /\ loads' = Outdated(loads)
      /\ crossed' = TRUE /\ UNCHANGED <<order, list, sel, asked, side, dialog, looks, raced, jumped, astray>>
  BY DEF ColleagueChanges
<1>3. wbLeft' \in [WbEvents -> Nat]
  BY WbUseTyped DEF ColleagueChanges, WbEvents
<1>4. /\ RowsTyped' /\ changes' \subseteq WbCall /\ \A k \in changes' : k.do = "asked" => k.of = asked
      /\ CalmLooks' /\ CalmCalls' /\ QuestionInv' /\ PanelInv' /\ PhonesAtHome'
  BY <1>2, StatusMoves
<1>5. \A l \in loads' : l \in WbLoad /\ (l.at = "sent" \/ ~l.calm)
  BY <1>1, <1>2, LoadsOutdated
<1>6. BenchTyped'
  BY <1>2, <1>3, <1>4, <1>5 DEF BenchTyped, OrderTyped, ListTyped, ChosenTyped, RequestsTyped, WitnessesTyped
<1>7. CalmLoads'
  BY <1>5 DEF CalmLoads
<1>8. Appended' /\ ListInv'
  BY <1>2 DEF Appended, ListInv
<1>9. OneOlder'
  <2> SUFFICES ASSUME NEW l \in loads', NEW m \in loads', l.more, m.more PROVE l = m
    BY DEF OneOlder
  <2>1. PICK p \in loads : l = (IF p.at = "served" THEN [p EXCEPT !.calm = FALSE] ELSE p) /\ l.more = p.more
    BY <1>1, <1>2, LoadsOutdated
  <2>2. PICK q \in loads : m = (IF q.at = "served" THEN [q EXCEPT !.calm = FALSE] ELSE q) /\ m.more = q.more
    BY <1>1, <1>2, LoadsOutdated
  <2>3. QED BY <2>1, <2>2 DEF OneOlder
<1>10. QED BY <1>4, <1>6, <1>7, <1>8, <1>9

LEMMA BenchSame == ASSUME BenchInv, UNCHANGED wbVars PROVE BenchInv'
<1> USE DEF BenchInv, wbVars
<1>1. BenchTyped'
  BY DEF BenchTyped, OrderTyped, RowsTyped, ListTyped, ChosenTyped, RequestsTyped, WitnessesTyped
<1>2. CalmLooks' /\ CalmLoads' /\ CalmCalls' /\ OneOlder' /\ Appended'
  BY LooksStayCalm, LoadsStayCalm, CallsStayCalm, OlderStays
<1>3. ListInv' /\ QuestionInv' /\ PanelInv' /\ PhonesAtHome'
  BY ListStays, QuestionStays, PanelStays, PhonesStay DEF NoFirstPage
<1>4. QED BY <1>1, <1>2, <1>3

LEMMA BenchStepKeeps == ASSUME BenchInv, [WbNext]_wbVars PROVE BenchInv'
  BY BenchSame, ReloadKeeps, PressOlderKeeps, ServeLoadKeeps, LandLoadKeeps, ListFailsKeeps, LandAskedKeeps,
     SelectRowKeeps, OpenFromNoticeKeeps, CloseRowKeeps, ServeLookKeeps, LandLookKeeps, LookFailsKeeps,
     PressStatusKeeps, ConfirmResolveKeeps, DismissDialogKeeps, PressEditKeeps, PressNoteKeeps, EditContactKeeps,
     CancelContactKeeps, SaveContactKeeps, ServeCallKeeps, LandChangeKeeps, LandCountKeeps, LandNoteKeeps,
     LandContactKeeps, CallFailsKeeps, ArrivesKeeps, ColleagueChangesKeeps
     DEF WbNext

LEMMA BenchTypesHold == BenchInv => WbTypeOK
<1> SUFFICES ASSUME BenchInv PROVE WbTypeOK
  OBVIOUS
<1> USE DEF BenchInv
<1>1. order \in [WbConvs -> WbConvs] /\ \A c \in WbConvs : \E i \in DOMAIN order : order[i] = c
  BY DEF BenchTyped, OrderTyped
<1>2. \A c \in WbConvs : row[c] \in WbRow
  BY DEF BenchTyped, RowsTyped
<1>3. \A i \in DOMAIN list.rows : list.rows[i] \in WbEntry
  BY IdsTyped DEF BenchTyped, ListTyped
<1>4. {sel, asked, dialog, side.of, side.tel, side.typed} \subseteq WbConvs \union {NoRow}
  BY PanelTypes DEF BenchTyped, ChosenTyped, ConvOrNone
<1>5. /\ \A k \in changes : k.do \in CallKinds /\ k.of \in WbConvs /\ k.at \in {"sent", "served"}
      /\ \A l \in looks : l.of \in WbConvs
      /\ \A l \in loads : l.more => l.from > 0
  BY DEF BenchTyped, RequestsTyped, WbCall, WbLook, WbLoad
<1>6. WitnessesTyped
  BY DEF BenchTyped
<1>7. QED BY <1>1, <1>2, <1>3, <1>4, <1>5, <1>6 DEF WbTypeOK, WbRow, WbEntry, ConvOrNone, WitnessesTyped

LEMMA BenchFollows == BenchInv => BenchHolds
<1> SUFFICES ASSUME BenchInv PROVE BenchHolds
  OBVIOUS
<1> USE DEF BenchInv
<1>1. ListIsTrue
  <2> SUFFICES ASSUME AtRest, ~crossed
               PROVE  /\ \A i \in DOMAIN list.rows : i \in DOMAIN order /\ list.rows[i] = EntryOf(order[i])
                      /\ sel # NoRow => sel \in Listed
    BY DEF ListIsTrue
  <2>1. ListInv!2
    BY DEF ListInv, NoFirstPage, AtRest
  <2>2. ASSUME NEW i \in DOMAIN list.rows PROVE i \in DOMAIN order /\ list.rows[i] = EntryOf(order[i])
    <3>1. RowIsTrue(i) /\ list.rows[i] \in WbEntry
      BY <2>1, IdsTyped DEF BenchTyped, ListTyped
    <3>2. \A kinds, c : ~Owed(kinds, c)
      BY DEF Owed, AtRest
    <3>3. i \in WbConvs /\ order[i] \in WbConvs /\ DOMAIN order = WbConvs
      BY <3>1 DEF RowIsTrue, BenchTyped, OrderTyped
    <3>4. /\ list.rows[i].id = EntryOf(order[i]).id /\ list.rows[i].status = EntryOf(order[i]).status
          /\ list.rows[i].mark = EntryOf(order[i]).mark
      BY <3>1, <3>2, <3>3 DEF RowIsTrue, EntryOf
    <3>5. EntryOf(order[i]) \in WbEntry
      BY <3>3, EntryTyped DEF BenchTyped
    <3>6. QED BY <3>1, <3>3, <3>4, <3>5 DEF WbEntry
  <2>3. QED BY <2>1, <2>2
<1>2. PanelIsOfTheOpen
  BY DEF PanelIsOfTheOpen, AtRest, PanelInv, PanelKept, Owed
<1>3. PhonesGoHome /\ QuestionIsOfTheOpen
  BY DEF PhonesGoHome, PhonesAtHome, QuestionInv
<1>4. QED BY <1>1, <1>2, <1>3 DEF BenchHolds

-----------------------------------------------------------------------------
(* Once nothing is under way, the list shows the latest conversations, each once, in *)
(* their order and as they are, the open one among them, and the panel the notes and *)
(* the phone of the open one's customer, unless an answer came too late, a request   *)
(* failed, or a colleague or a hurry came between; a phone goes to the customer for  *)
(* whom it was typed, and the question whether to resolve is about the open          *)
(* conversation: for any number of conversations, loads, answers and their orders.   *)
THEOREM WorkbenchIsRight == PlatformSpec => []BenchIsRight
<1> DEFINE I == part = "workbench" => BenchInv
<1>1. PlatformInit => I
  BY BenchInitially DEF PlatformInit
<1>2. I /\ [PlatformNext]_plVars => I'
  <2> SUFFICES ASSUME I, [PlatformNext]_plVars, part' = "workbench"
               PROVE  BenchInv'
    OBVIOUS
  <2>1. part = "workbench" /\ [WbNext]_wbVars
    BY DEF PlatformNext, plVars
  <2>2. QED BY <2>1, BenchStepKeeps
<1>3. I => BenchIsRight
  BY BenchFollows DEF BenchIsRight
<1>4. QED BY <1>1, <1>2, <1>3, PTL DEF PlatformSpec
-----------------------------------------------------------------------------
(* Client: the thread and the composer of the inbox page.                    *)

ClText == {NoText, Typed} \union [by : {"ai"}, of : Convs, n : Nat]
ClMade == [of : Convs, n : Nat]
ClEvent == [type : {"message", "deleted", "draft"}, of : Convs]
ClMessage == [of : Convs, out : BOOLEAN, alive : BOOLEAN]
ClStream == [open : BOOLEAN, queue : Seq(ClEvent), untold : SUBSET Convs]
ClDraft == [n : Nat, live : BOOLEAN, since : Nat]
ClThread == [ids : SUBSET Nat, bubbles : Nat, ghosts : Nat, more : BOOLEAN, stale : BOOLEAN, upto : Nat]
ClLoad == [of : Convs, kind : {"full", "quiet", "older"}, before : Nat, got : {"pending", "page", "failed"},
           ids : SUBSET Nat, more : BOOLEAN, upto : Nat]
ClBar == [text : ClText, draft : ClMade \union {Nothing}, last : ClText,
          suppressed : BOOLEAN, turned : BOOLEAN, astray : BOOLEAN]
ClAsk == [of : Convs, last : ClText, got : {"pending", "answer"}, n : Nat]
ClCall == [of : Convs, got : {"pending", "done", "failed", "draft"}, draft : ClMade \union {Nothing}]

ApiTyped ==
  /\ hybrid \in BOOLEAN /\ log \in Seq(ClMessage) /\ draft \in [Convs -> ClDraft] /\ stream \in ClStream
InboxTyped ==
  /\ open \in Convs \union {NoConv} /\ thread \in ClThread
  /\ fetches \in [LoadPlaces -> ClLoad \union {Nothing}]
ComposerTyped ==
  /\ bar \in ClBar /\ asks \in [AskPlaces -> ClAsk \union {Nothing}]
  /\ calls \in [CallNames -> ClCall \union {Nothing}]

\* Places of messages are places of log; a draft that is shown was made.
RealDraft(d) == d.of \in Convs /\ d.n \in 1..draft[d.of].n
LogFits ==
  /\ thread.ids \subseteq 1..Len(log) /\ thread.upto <= Len(log)
  /\ \A c \in Convs : draft[c].since <= Len(log) /\ (draft[c].live => draft[c].n > 0)
DraftsFit ==
  /\ bar.draft # Nothing => RealDraft(bar.draft)
  /\ \A n \in AskPlaces : asks[n] # Nothing => asks[n].n <= draft[asks[n].of].n
  /\ calls["generate"] # Nothing /\ calls["generate"].got = "draft" =>
       calls["generate"].draft # Nothing /\ calls["generate"].draft.n \in 1..draft[calls["generate"].of].n

\* So many of the messages of c are shown that none is left out from the oldest to upto.
Whole(c, ids, upto) ==
  /\ \A i \in ids : log[i].of = c /\ i <= upto
  /\ \A i \in Held(c) : i <= upto => ids # {} /\ \A j \in ids : j <= i => i \in ids
Before(l) ==
  /\ l.before <= l.upto
  /\ \A i \in l.ids : log[i].of = l.of /\ i < l.before
  /\ \A i \in Held(l.of) : i < l.before => \A j \in l.ids : j <= i => i \in l.ids
PageFits(l) ==
  /\ l.upto <= Len(log) /\ l.ids \subseteq 1..Len(log)
  /\ IF l.kind = "older" THEN Before(l) ELSE Whole(l.of, l.ids, l.upto)
PagesFit == \A n \in LoadPlaces : fetches[n] # Nothing /\ fetches[n].got = "page" => PageFits(fetches[n])

\* What will bring a message: an event, or a load that is not answered before it.
Announced(c) == \E i \in DOMAIN stream.queue : stream.queue[i].type = "message" /\ stream.queue[i].of = c
Brings(l, c, i) == l # Nothing /\ l.of = c /\ l.kind # "older" /\ (l.got = "page" => i <= l.upto)
Coming(c, i) == Announced(c) \/ \E n \in LoadPlaces : Brings(fetches[n], c, i)
IsFull(l, c) == l # Nothing /\ l.of = c /\ l.kind = "full"
FullComing(c) == \E n \in LoadPlaces : IsFull(fetches[n], c)
Told == open # NoConv /\ open \notin stream.untold
Replies(c, seen) == {i \in Held(c) : log[i].out /\ i > seen}
SendOwes(c) == calls["send"] # Nothing /\ calls["send"].of = c /\ calls["send"].got # "done"
Owing(c) == IF SendOwes(c) THEN 1 ELSE 0
ThreadFits(c) ==
  /\ \A i \in Held(c) : i > thread.upto => Coming(c, i)
  /\ thread.stale => FullComing(c)
  /\ ~thread.stale => /\ Whole(c, thread.ids, thread.upto)
                      /\ thread.bubbles <= thread.ghosts + Owing(c) + Cardinality(Replies(c, thread.upto))
ThreadInv == Told => ThreadFits(open)

\* What will bring a draft.
DraftAnnounced(c) == \E i \in DOMAIN stream.queue : stream.queue[i].type # "deleted" /\ stream.queue[i].of = c
AskBrings(a, c) == a # Nothing /\ a.of = c /\ (a.got = "pending" \/ a.n # 0)
DraftComing(c) ==
  \/ DraftAnnounced(c) \/ \E n \in AskPlaces : AskBrings(asks[n], c)
  \/ calls["generate"] # Nothing /\ calls["generate"].of = c
BarInv ==
  /\ bar.draft # Nothing /\ ~bar.astray => bar.draft.of = open
  /\ Told /\ hybrid /\ OnOffer(open) /\ ~bar.suppressed /\ ~bar.turned => bar.draft # Nothing \/ DraftComing(open)

ClTyped == ApiTyped /\ InboxTyped /\ ComposerTyped
ClInv == ClTyped /\ LogFits /\ DraftsFit /\ PagesFit /\ ThreadInv /\ BarInv

\* A set of numbers that ends somewhere has a least one and a greatest one.
LEMMA LeastIs ==
  ASSUME NEW N \in Nat, NEW T, T \subseteq 1..N, T # {}
  PROVE  \E x \in T : \A y \in T : x <= y
<1> DEFINE Under(x) == {y \in T : y < x}
           F == {Under(x) : x \in T}
<1>1. IsFiniteSet(1..N)
  BY FS_Interval
<1>2. \A x \in T : Under(x) \in FiniteSubsetsOf(1..N) /\ Under(x) \in SUBSET (1..N)
  BY <1>1, FS_Subset DEF FiniteSubsetsOf
<1>3. F \subseteq FiniteSubsetsOf(1..N) /\ F # {}
  BY <1>2
<1>4. IsWellFoundedOn(StrictSubsetOrdering(1..N), FiniteSubsetsOf(1..N))
  BY FS_StrictSubsetOrderingWellFounded
<1> HIDE DEF F, Under
<1>5. PICK U \in F : \A V \in F : ~(<<V, U>> \in StrictSubsetOrdering(1..N))
  BY <1>3, <1>4, WFMin
<1>6. PICK x \in T : U = Under(x)
  BY <1>5 DEF F
<1>7. \A y \in T : x <= y
  <2> SUFFICES ASSUME NEW y \in T, ~(x <= y) PROVE FALSE
    OBVIOUS
  <2>1. Under(y) \in F /\ Under(y) \in SUBSET (1..N) /\ Under(x) \in SUBSET (1..N)
    BY <1>2 DEF F
  <2>2. Under(y) \subseteq Under(x) /\ y \in Under(x) /\ y \notin Under(y)
    <3>1. x \in Nat /\ y \in Nat /\ \A z \in T : z \in Nat
      BY <1>6
    <3>2. y < x /\ ~(y < y)
      BY <3>1
    <3>3. \A z \in T : z < y => z < x
      BY <3>1, <3>2
    <3>4. QED BY <3>2, <3>3 DEF Under
  <2>3. <<Under(y), Under(x)>> \in StrictSubsetOrdering(1..N)
    BY <2>1, <2>2 DEF StrictSubsetOrdering
  <2>4. QED BY <1>5, <1>6, <2>1, <2>3
<1>8. QED BY <1>7

LEMMA GreatestIs ==
  ASSUME NEW N \in Nat, NEW T, T \subseteq 1..N, T # {}
  PROVE  \E x \in T : \A y \in T : y <= x
<1> DEFINE Mirrored == {N + 1 - x : x \in T}
<1>1. Mirrored \subseteq 1..N /\ Mirrored # {}
  OBVIOUS
<1>2. PICK m \in Mirrored : \A y \in Mirrored : m <= y
  BY <1>1, LeastIs
<1>3. PICK x \in T : m = N + 1 - x
  BY <1>2
<1>4. \A y \in T : y <= x
  <2> SUFFICES ASSUME NEW y \in T PROVE y <= x
    OBVIOUS
  <2>1. N + 1 - y \in Mirrored
    OBVIOUS
  <2>2. x \in Nat /\ y \in Nat /\ N + 1 - x <= N + 1 - y
    BY <1>2, <1>3, <2>1
  <2>3. QED BY <2>2
<1>5. QED BY <1>4

LEMMA LowestIs ==
  ASSUME NEW N \in Nat, NEW T, T \subseteq 1..N, T # {}
  PROVE  Lowest(T) \in T
<1>1. \E x \in T : \A y \in T : x <= y
  BY LeastIs
<1>2. QED BY <1>1 DEF Lowest

\* A page is the end of what it is taken from.
LEMMA LatestIs ==
  ASSUME NEW N \in Nat, NEW T, T \subseteq 1..N
  PROVE  /\ Latest(T) \subseteq T
         /\ \A i \in T, j \in Latest(T) : j <= i => i \in Latest(T)
         /\ T # {} => Latest(T) # {}
<1> DEFINE Over(x) == {j \in T : j > x}
<1>1. IsFiniteSet(T)
  <2>1. IsFiniteSet(1..N)
    BY FS_Interval
  <2>2. T \in SUBSET (1..N)
    OBVIOUS
  <2>3. QED BY <2>1, <2>2, FS_Subset
<1>2. \A x : IsFiniteSet(Over(x)) /\ Cardinality(Over(x)) \in Nat
  BY <1>1, FS_Subset, FS_CardinalityType
<1>3. Latest(T) = {i \in T : Cardinality(Over(i)) < PageSize}
  BY DEF Latest
<1>4. \A i \in T, j \in T : j <= i => Cardinality(Over(i)) <= Cardinality(Over(j))
  <2> SUFFICES ASSUME NEW i \in T, NEW j \in T, j <= i PROVE Cardinality(Over(i)) <= Cardinality(Over(j))
    OBVIOUS
  <2>1. Over(i) \in SUBSET Over(j)
    <3>1. i \in Nat /\ j \in Nat /\ \A z \in T : z \in Nat
      OBVIOUS
    <3>2. \A z \in T : z > i => z > j
      BY <3>1
    <3>3. QED BY <3>2
  <2> HIDE DEF Over
  <2>2. QED BY <1>2, <2>1, FS_Subset
<1>5. T # {} => Latest(T) # {}
  <2> SUFFICES ASSUME T # {} PROVE Latest(T) # {}
    OBVIOUS
  <2>1. PICK x \in T : \A y \in T : y <= x
    BY GreatestIs
  <2>2. Over(x) = {}
    <3>1. x \in Nat /\ \A z \in T : z \in Nat
      OBVIOUS
    <3>2. \A z \in T : ~(z > x)
      BY <2>1, <3>1
    <3>3. QED BY <3>2
  <2> HIDE DEF Over
  <2>3. Cardinality(Over(x)) = 0
    BY <2>2, FS_EmptySet
  <2>4. QED BY <1>3, <2>3, ClientAssumption
<1> HIDE DEF Over
<1>6. \A i \in T, j \in Latest(T) : j <= i => i \in Latest(T)
  <2> SUFFICES ASSUME NEW i \in T, NEW j \in Latest(T), j <= i PROVE i \in Latest(T)
    OBVIOUS
  <2>1. j \in T /\ Cardinality(Over(j)) < PageSize
    BY <1>3
  <2>2. Cardinality(Over(i)) <= Cardinality(Over(j))
    BY <1>4, <2>1
  <2>3. Cardinality(Over(i)) < PageSize
    BY <1>2, <2>1, <2>2, ClientAssumption
  <2>4. QED BY <1>3, <2>3
<1>7. QED BY <1>3, <1>5, <1>6

-----------------------------------------------------------------------------

LEMMA PageSizeIs == PageSize \in Nat /\ PageSize > 0 /\ NoConv \notin Convs
  BY ClientAssumption

LEMMA LoadIs ==
  ASSUME NEW l \in ClLoad \union {Nothing}, l # Nothing
  PROVE  l \in ClLoad /\ l.of \in Convs /\ l.of # NoConv
  BY ClientAssumption DEF ClLoad

LEMMA HeldIs ==
  ASSUME ApiTyped, NEW c
  PROVE  /\ Len(log) \in Nat /\ DOMAIN log = 1..Len(log) /\ Held(c) \subseteq 1..Len(log)
         /\ \A i \in 1..Len(log) : log[i] \in ClMessage /\ log[i].of \in Convs /\ log[i].alive \in BOOLEAN /\ log[i].out \in BOOLEAN
<1>1. log \in Seq(ClMessage)
  BY DEF ApiTyped
<1>2. Len(log) \in Nat /\ DOMAIN log = 1..Len(log) /\ \A i \in 1..Len(log) : log[i] \in ClMessage
  BY <1>1
<1>3. \A i \in 1..Len(log) : log[i].of \in Convs /\ log[i].alive \in BOOLEAN /\ log[i].out \in BOOLEAN
  BY <1>2 DEF ClMessage
<1>4. QED BY <1>2, <1>3 DEF Held

\* What starts is under way; the rest is as it was.
LoadsMore ==
  \A n \in LoadPlaces : fetches'[n] = fetches[n] \/ (fetches[n] = Nothing /\ fetches'[n] \in ClLoad /\ fetches'[n].got = "pending")
AsksMore ==
  \A n \in AskPlaces :
    asks'[n] = asks[n] \/ (asks[n] = Nothing /\ asks'[n] \in ClAsk /\ asks'[n].got = "pending" /\ asks'[n].n = 0)
FetchTyped == fetches \in [LoadPlaces -> ClLoad \union {Nothing}]
AsksTyped == asks \in [AskPlaces -> ClAsk \union {Nothing}]

LEMMA LoadStarts ==
  ASSUME FetchTyped, NEW kind \in {"full", "quiet", "older"}, NEW c \in Convs, NEW before \in Nat,
         FreeLoad # {}, fetches' = Starting(kind, c, before)
  PROVE  FetchTyped' /\ LoadsMore /\ \E n \in LoadPlaces : fetches'[n] = NewLoad(kind, c, before)
<1> DEFINE p == CHOOSE n \in FreeLoad : TRUE
           l == NewLoad(kind, c, before)
<1>1. p \in LoadPlaces /\ fetches[p] = Nothing
  <2>1. p \in FreeLoad
    OBVIOUS
  <2>2. QED BY <2>1 DEF FreeLoad
<1>2. l \in ClLoad /\ l.got = "pending"
  BY DEF NewLoad, ClLoad
<1>3. fetches' = [fetches EXCEPT ![p] = l]
  BY DEF Starting
<1> HIDE DEF p, l
<1>4. /\ fetches' \in [LoadPlaces -> ClLoad \union {Nothing}] /\ fetches'[p] = l
      /\ \A n \in LoadPlaces : n # p => fetches'[n] = fetches[n]
  BY <1>1, <1>2, <1>3 DEF FetchTyped
<1>5. FetchTyped'
  BY <1>4 DEF FetchTyped
<1>6. LoadsMore
  BY <1>1, <1>2, <1>4 DEF LoadsMore
<1>7. QED BY <1>1, <1>4, <1>5, <1>6 DEF l

LEMMA AskStarts ==
  ASSUME AsksTyped, NEW c \in Convs, hybrid \in BOOLEAN, bar.last \in ClText, AsksFor(c)
  PROVE  AsksTyped' /\ AsksMore /\ (hybrid => \E n \in AskPlaces : AskBrings(asks'[n], c))
<1>1. CASE hybrid
  <2> DEFINE p == CHOOSE n \in FreeAsk : TRUE
             a == NewAsk(c, bar.last)
  <2>1. FreeAsk # {} /\ asks' = [asks EXCEPT ![p] = a]
    BY <1>1 DEF AsksFor, Asking
  <2>2. p \in AskPlaces /\ asks[p] = Nothing
    <3>1. p \in FreeAsk
      BY <2>1
    <3>2. QED BY <3>1 DEF FreeAsk
  <2>3. a \in ClAsk /\ a.got = "pending" /\ a.n = 0 /\ a.of = c
    BY DEF NewAsk, ClAsk
  <2> HIDE DEF p, a
  <2>4. a # Nothing
    BY <2>3, PageSizeIs DEF Nothing
  <2>5. /\ asks' \in [AskPlaces -> ClAsk \union {Nothing}] /\ asks'[p] = a
        /\ \A n \in AskPlaces : n # p => asks'[n] = asks[n]
    BY <2>1, <2>2, <2>3 DEF AsksTyped
  <2>6. AsksTyped'
    BY <2>5 DEF AsksTyped
  <2>7. AsksMore
    BY <2>2, <2>3, <2>5 DEF AsksMore
  <2>8. AskBrings(asks'[p], c)
    BY <2>3, <2>4, <2>5 DEF AskBrings
  <2>9. QED BY <2>2, <2>6, <2>7, <2>8
<1>2. CASE ~hybrid
  BY <1>2 DEF AsksFor, AsksTyped, AsksMore
<1>3. QED BY <1>1, <1>2

LEMMA RefreshStarts ==
  ASSUME FetchTyped, NEW c \in Convs, Refreshes(c)
  PROVE  FetchTyped' /\ LoadsMore /\ (open = c => \E n \in LoadPlaces : fetches'[n] = NewLoad("quiet", c, 0))
<1>1. CASE open = c
  <2>1. FreeLoad # {} /\ fetches' = Starting("quiet", c, 0)
    BY <1>1 DEF Refreshes
  <2>2. QED BY <2>1, LoadStarts
<1>2. CASE open # c
  BY <1>2 DEF Refreshes, FetchTyped, LoadsMore
<1>3. QED BY <1>1, <1>2

LEMMA LookStarts ==
  ASSUME AsksTyped, NEW c \in Convs, hybrid \in BOOLEAN, bar.last \in ClText, Looks(c)
  PROVE  /\ AsksTyped' /\ AsksMore
         /\ open = c /\ ~bar.suppressed /\ hybrid => \E n \in AskPlaces : AskBrings(asks'[n], c)
<1>1. CASE open = c /\ ~bar.suppressed
  <2>1. AsksFor(c)
    BY <1>1 DEF Looks
  <2>2. QED BY <2>1, AskStarts
<1>2. CASE ~(open = c /\ ~bar.suppressed)
  BY <1>2 DEF Looks, AsksTyped, AsksMore
<1>3. QED BY <1>1, <1>2

-----------------------------------------------------------------------------

\* What is published comes to the page, or the page is not told.
LEMMA PublishedIs ==
  ASSUME stream \in ClStream, NEW c \in Convs, NEW type \in {"message", "deleted", "draft"}, stream' = Published(type, c)
  PROVE  /\ stream' \in ClStream /\ stream.untold \subseteq stream'.untold
         /\ \A d : Announced(d) => Announced(d)' \/ d \in stream'.untold
         /\ \A d : DraftAnnounced(d) => DraftAnnounced(d)' \/ d \in stream'.untold
         /\ c \notin stream'.untold => /\ type = "message" => Announced(c)'
                                       /\ type # "deleted" => DraftAnnounced(c)'
<1>1. CASE stream.open
  <2> DEFINE e == [type |-> type, of |-> c]
             q == stream.queue
  <2>1. e \in ClEvent /\ e.type = type /\ e.of = c
    BY DEF ClEvent
  <2>2. q \in Seq(ClEvent) /\ stream.untold \in SUBSET Convs /\ stream.open \in BOOLEAN
    BY DEF ClStream
  <2>3. stream' = [stream EXCEPT !.queue = Append(q, e)]
    BY <1>1 DEF Published
  <2> HIDE DEF e
  <2>4. /\ Append(q, e) \in Seq(ClEvent) /\ Len(Append(q, e)) = Len(q) + 1 /\ Len(q) \in Nat
        /\ Append(q, e)[Len(q) + 1] = e /\ \A i \in 1..Len(q) : Append(q, e)[i] = q[i]
    BY <2>1, <2>2
  <2>5. /\ stream' \in ClStream /\ stream'.queue = Append(q, e) /\ stream'.untold = stream.untold
    BY <2>2, <2>3, <2>4 DEF ClStream
  <2>6. DOMAIN q = 1..Len(q) /\ DOMAIN stream'.queue = 1..(Len(q) + 1)
    BY <2>2, <2>4, <2>5
  <2>7. \A i \in DOMAIN q : i \in DOMAIN stream'.queue /\ stream'.queue[i] = q[i]
    BY <2>4, <2>5, <2>6
  <2>8. Len(q) + 1 \in DOMAIN stream'.queue /\ stream'.queue[Len(q) + 1] = e
    BY <2>4, <2>5, <2>6
  <2>9. \A d : (Announced(d) => Announced(d)') /\ (DraftAnnounced(d) => DraftAnnounced(d)')
    BY <2>7 DEF Announced, DraftAnnounced
  <2>10. (type = "message" => Announced(c)') /\ (type # "deleted" => DraftAnnounced(c)')
    BY <2>1, <2>8 DEF Announced, DraftAnnounced
  <2>11. QED BY <2>5, <2>9, <2>10
<1>2. CASE ~stream.open
  <2>1. stream' = [stream EXCEPT !.untold = @ \union {c}]
    BY <1>2 DEF Published
  <2>2. stream' \in ClStream /\ stream'.queue = stream.queue /\ stream'.untold = stream.untold \union {c}
    BY <2>1 DEF ClStream
  <2>3. \A d : (Announced(d) => Announced(d)') /\ (DraftAnnounced(d) => DraftAnnounced(d)')
    BY <2>2 DEF Announced, DraftAnnounced
  <2>4. QED BY <2>2, <2>3
<1>3. QED BY <1>1, <1>2

LEMMA UntoldIs ==
  ASSUME stream \in ClStream, NEW c \in Convs, stream' = [stream EXCEPT !.untold = @ \union {c}]
  PROVE  /\ stream' \in ClStream /\ stream'.untold = stream.untold \union {c} /\ stream'.queue = stream.queue
         /\ \A d : (Announced(d) => Announced(d)') /\ (DraftAnnounced(d) => DraftAnnounced(d)')
<1>1. stream' \in ClStream /\ stream'.queue = stream.queue /\ stream'.untold = stream.untold \union {c}
  BY DEF ClStream
<1>2. QED BY <1>1 DEF Announced, DraftAnnounced

\* The log only grows, and messages are only taken out of sight.
LogGrown ==
  /\ Len(log) <= Len(log)'
  /\ \A i \in 1..Len(log) : log'[i].of = log[i].of /\ log'[i].out = log[i].out /\ (log'[i].alive => log[i].alive)

LEMMA LogRests == ASSUME ApiTyped, log' = log PROVE LogGrown
<1>1. Len(log) \in Nat
  BY HeldIs
<1>2. QED BY <1>1 DEF LogGrown

LEMMA HeldShrinks ==
  ASSUME ApiTyped, ApiTyped', LogGrown, NEW c
  PROVE  /\ Len(log) \in Nat /\ Len(log)' \in Nat /\ Held(c) \subseteq 1..Len(log) /\ Held(c)' \subseteq 1..Len(log)'
         /\ \A i \in 1..Len(log) : log[i].of \in Convs /\ (i \in Held(c)' => i \in Held(c))
<1>1. /\ Len(log) \in Nat /\ DOMAIN log = 1..Len(log) /\ Held(c) \subseteq 1..Len(log)
      /\ \A i \in 1..Len(log) : log[i].of \in Convs
  BY HeldIs
<1>2. Len(log)' \in Nat /\ Held(c)' \subseteq 1..Len(log)'
  <2>1. log' \in Seq(ClMessage)
    BY DEF ApiTyped
  <2>2. Len(log)' \in Nat /\ DOMAIN log' = 1..Len(log)'
    BY <2>1
  <2>3. QED BY <2>2 DEF Held
<1>3. \A i \in 1..Len(log) : i \in Held(c)' => i \in Held(c)
  <2> SUFFICES ASSUME NEW i \in 1..Len(log), i \in Held(c)' PROVE i \in Held(c)
    OBVIOUS
  <2>1. log'[i].of = c /\ log'[i].alive
    BY DEF Held
  <2>2. QED BY <1>1, <2>1 DEF Held, LogGrown
<1>4. QED BY <1>1, <1>2, <1>3

LEMMA WholeKept ==
  ASSUME ApiTyped, ApiTyped', LogGrown, NEW c, NEW ids \in SUBSET (1..Len(log)), NEW upto \in Nat, upto <= Len(log),
         Whole(c, ids, upto)
  PROVE  Whole(c, ids, upto)'
<1>1. /\ Len(log) \in Nat /\ Len(log)' \in Nat /\ Held(c)' \subseteq 1..Len(log)'
      /\ \A i \in 1..Len(log) : i \in Held(c)' => i \in Held(c)
  BY HeldShrinks
<1>2. \A i \in ids : log'[i].of = c /\ i <= upto
  BY DEF Whole, LogGrown
<1>3. \A i \in Held(c)' : i <= upto => i \in Held(c)
  <2> SUFFICES ASSUME NEW i \in Held(c)', i <= upto PROVE i \in Held(c)
    OBVIOUS
  <2>1. i \in 1..Len(log)
    BY <1>1
  <2>2. QED BY <1>1, <2>1
<1>4. \A i \in Held(c)' : i <= upto => ids # {} /\ \A j \in ids : j <= i => i \in ids
  BY <1>3 DEF Whole
<1>5. QED BY <1>2, <1>4 DEF Whole

LEMMA BeforeKept ==
  ASSUME ApiTyped, ApiTyped', LogGrown, NEW l \in ClLoad, l.upto <= Len(log), l.ids \subseteq 1..Len(log), Before(l)
  PROVE  Before(l)'
<1>1. /\ Len(log) \in Nat /\ Len(log)' \in Nat /\ Held(l.of)' \subseteq 1..Len(log)'
      /\ \A i \in 1..Len(log) : i \in Held(l.of)' => i \in Held(l.of)
  BY HeldShrinks
<1>2. l.before \in Nat /\ l.upto \in Nat /\ l.before <= l.upto
  BY DEF ClLoad, Before
<1>3. \A i \in l.ids : log'[i].of = l.of /\ i < l.before
  BY DEF Before, LogGrown
<1>4. \A i \in Held(l.of)' : i < l.before => i \in Held(l.of)
  <2> SUFFICES ASSUME NEW i \in Held(l.of)', i < l.before PROVE i \in Held(l.of)
    OBVIOUS
  <2>1. i \in 1..Len(log)'
    BY <1>1
  <2>2. i \in 1..Len(log)
    BY <1>1, <1>2, <2>1
  <2>3. QED BY <1>1, <2>2
<1>5. \A i \in Held(l.of)' : i < l.before => \A j \in l.ids : j <= i => i \in l.ids
  BY <1>4 DEF Before
<1>6. QED BY <1>2, <1>3, <1>5 DEF Before

LEMMA PageKept ==
  ASSUME ApiTyped, ApiTyped', LogGrown, NEW l \in ClLoad, PageFits(l)
  PROVE  PageFits(l)'
<1>1. Len(log) \in Nat /\ Len(log)' \in Nat /\ Len(log) <= Len(log)'
  BY HeldShrinks DEF LogGrown
<1>2. l.upto \in Nat /\ l.upto <= Len(log) /\ l.ids \subseteq 1..Len(log)
  BY DEF PageFits, ClLoad
<1>3. l.upto <= Len(log)' /\ l.ids \subseteq 1..Len(log)'
  BY <1>1, <1>2
<1>4. CASE l.kind = "older"
  <2>1. Before(l)
    BY <1>4 DEF PageFits
  <2>2. Before(l)'
    BY <1>2, <2>1, BeforeKept
  <2>3. QED BY <1>3, <1>4, <2>2 DEF PageFits
<1>5. CASE l.kind # "older"
  <2>1. Whole(l.of, l.ids, l.upto)
    BY <1>5 DEF PageFits
  <2>2. Whole(l.of, l.ids, l.upto)'
    BY <1>2, <2>1, WholeKept
  <2>3. QED BY <1>3, <1>5, <2>2 DEF PageFits
<1>6. QED BY <1>4, <1>5

\* Pages that are answered stay as they were answered.
LEMMA PagesKept ==
  ASSUME ApiTyped, ApiTyped', FetchTyped, PagesFit, LogGrown,
         \A n \in LoadPlaces : fetches'[n] # Nothing /\ fetches'[n].got = "page" => fetches'[n] = fetches[n]
  PROVE  PagesFit'
<1> SUFFICES ASSUME NEW n \in LoadPlaces, fetches'[n] # Nothing, fetches'[n].got = "page"
             PROVE  PageFits(fetches[n])' /\ fetches'[n] = fetches[n]
  <2>1. \A n \in LoadPlaces : fetches'[n] # Nothing /\ fetches'[n].got = "page" => PageFits(fetches[n])'
    OBVIOUS
  <2>2. QED BY <2>1 DEF PagesFit
<1>1. fetches'[n] = fetches[n]
  OBVIOUS
<1>2. PICK l : l = fetches[n]
  OBVIOUS
<1>3. l \in ClLoad /\ PageFits(l)
  BY <1>1, <1>2 DEF FetchTyped, PagesFit
<1>4. PageFits(l)'
  BY <1>3, PageKept
<1>5. PageFits(fetches[n])'
  BY <1>1, <1>2, <1>4 DEF PageFits, Before, Whole, Held
<1>6. QED BY <1>1, <1>5

LEMMA LoadsBring ==
  ASSUME LoadsMore
  PROVE  /\ \A c, i : (\E n \in LoadPlaces : Brings(fetches[n], c, i)) => \E n \in LoadPlaces : Brings(fetches'[n], c, i)
         /\ \A c : FullComing(c) => FullComing(c)'
         /\ \A n \in LoadPlaces : fetches'[n] # Nothing /\ fetches'[n].got = "page" => fetches'[n] = fetches[n]
<1>1. \A n \in LoadPlaces : fetches[n] # Nothing => fetches'[n] = fetches[n]
  BY DEF LoadsMore
<1>2. \A c, i : (\E n \in LoadPlaces : Brings(fetches[n], c, i)) => \E n \in LoadPlaces : Brings(fetches'[n], c, i)
  BY <1>1 DEF Brings
<1>3. \A c : FullComing(c) => FullComing(c)'
  BY <1>1 DEF FullComing, IsFull
<1>4. \A n \in LoadPlaces : fetches'[n] # Nothing /\ fetches'[n].got = "page" => fetches'[n] = fetches[n]
  BY DEF LoadsMore
<1>5. QED BY <1>2, <1>3, <1>4

LEMMA AsksBring ==
  ASSUME AsksMore
  PROVE  \A c : (\E n \in AskPlaces : AskBrings(asks[n], c)) => \E n \in AskPlaces : AskBrings(asks'[n], c)
<1>1. \A n \in AskPlaces : asks[n] # Nothing => asks'[n] = asks[n]
  BY DEF AsksMore
<1>2. QED BY <1>1 DEF AskBrings

-----------------------------------------------------------------------------

LEMMA RepliesAre ==
  ASSUME ApiTyped, NEW c, NEW seen
  PROVE  IsFiniteSet(Replies(c, seen)) /\ Cardinality(Replies(c, seen)) \in Nat /\ Replies(c, seen) \subseteq 1..Len(log)
<1>1. Replies(c, seen) \subseteq 1..Len(log) /\ Len(log) \in Nat
  BY HeldIs DEF Replies
<1>2. IsFiniteSet(1..Len(log)) /\ Replies(c, seen) \in SUBSET (1..Len(log))
  BY <1>1, FS_Interval
<1>3. IsFiniteSet(Replies(c, seen))
  BY <1>2, FS_Subset
<1>4. QED BY <1>1, <1>3, FS_CardinalityType

LEMMA RepliesAreThen ==
  ASSUME ApiTyped'
  PROVE  Cardinality(Replies(open, thread.upto))' \in Nat
<1> PICK o, u : o = open' /\ u = thread'.upto
  OBVIOUS
<1> DEFINE R == {i \in {k \in DOMAIN log' : log'[k].of = o /\ log'[k].alive} : log'[i].out /\ i > u}
<1>1. log' \in Seq(ClMessage)
  BY DEF ApiTyped
<1>2. Len(log)' \in Nat /\ DOMAIN log' = 1..Len(log)'
  BY <1>1
<1>3. R \in SUBSET (1..Len(log)') /\ IsFiniteSet(1..Len(log)')
  BY <1>2, FS_Interval
<1>4. Cardinality(R) \in Nat
  BY <1>3, FS_Subset, FS_CardinalityType
<1>5. Replies(open, thread.upto)' = R
  BY DEF Replies, Held
<1>6. QED BY <1>4, <1>5

LEMMA OwingIs == \A c : Owing(c) \in {0, 1}
  BY DEF Owing

LEMMA ToldIs == ASSUME InboxTyped, Told PROVE open \in Convs
  BY DEF InboxTyped, Told

\* The thread is as it was, or is as much behind as it was.
LEMMA ThreadGoesOn ==
  ASSUME ApiTyped, ApiTyped', InboxTyped, InboxTyped', LogFits, LogGrown, ThreadInv, open' = open, Told' => Told,
         thread'.ids = thread.ids, thread'.upto = thread.upto, thread'.stale = thread.stale,
         Told' => \A i \in Held(open)' : i > thread.upto => Coming(open, i)',
         Told' /\ FullComing(open) => FullComing(open)',
         thread'.bubbles + thread.ghosts + Owing(open) + Cardinality(Replies(open, thread.upto))
           <= thread.bubbles + thread'.ghosts + Owing(open)' + Cardinality(Replies(open, thread.upto))'
  PROVE  ThreadInv'
<1> SUFFICES ASSUME Told' PROVE ThreadFits(open)'
  BY DEF ThreadInv
<1>1. ThreadFits(open)
  BY DEF ThreadInv
<1> PICK ids, upto, o : ids = thread.ids /\ upto = thread.upto /\ o = open
  OBVIOUS
<1>2. thread.ids \in SUBSET Nat /\ thread.upto \in Nat /\ thread.upto <= Len(log) /\ thread.ids \subseteq 1..Len(log)
  BY DEF InboxTyped, ClThread, LogFits
<1>3. \A i \in Held(open)' : i > thread'.upto => Coming(open, i)'
  OBVIOUS
<1>4. thread'.stale => FullComing(open)'
  BY <1>1 DEF ThreadFits
<1>5. ~thread'.stale => Whole(open, thread.ids, thread.upto)'
  <2> SUFFICES ASSUME ~thread.stale PROVE Whole(open, thread.ids, thread.upto)'
    OBVIOUS
  <2>1. Whole(o, ids, upto)
    BY <1>1 DEF ThreadFits
  <2>2. Whole(o, ids, upto)'
    BY <1>2, <2>1, WholeKept
  <2>3. QED BY <2>2 DEF Whole, Held
<1>6. ~thread'.stale => thread'.bubbles <= thread'.ghosts + Owing(open)' + Cardinality(Replies(open, thread.upto))'
  <2>1. ~thread.stale => thread.bubbles <= thread.ghosts + Owing(open) + Cardinality(Replies(open, thread.upto))
    BY <1>1 DEF ThreadFits
  <2>2. /\ thread.bubbles \in Nat /\ thread.ghosts \in Nat /\ thread'.bubbles \in Nat /\ thread'.ghosts \in Nat
        /\ Owing(open) \in Nat /\ Owing(open)' \in Nat
    BY OwingIs DEF InboxTyped, ClThread, Owing
  <2>3. Cardinality(Replies(open, thread.upto)) \in Nat
    BY RepliesAre
  <2>4. Cardinality(Replies(open, thread.upto))' \in Nat
    BY RepliesAreThen
  <2>5. QED BY <2>1, <2>2, <2>3, <2>4
<1>7. QED BY <1>3, <1>4, <1>5, <1>6 DEF ThreadFits

\* The same, when nothing is written or sent.
LEMMA ThreadStays ==
  ASSUME ApiTyped, ApiTyped', InboxTyped, InboxTyped', LogFits, ThreadInv, log' = log, thread' = thread, open' = open,
         Told' => Told, \A c : SendOwes(c)' = SendOwes(c),
         Told' => \A i : Coming(open, i) => Coming(open, i)',
         Told' /\ FullComing(open) => FullComing(open)'
  PROVE  ThreadInv'
<1>1. LogGrown
  BY LogRests
<1>2. Told' => \A i \in Held(open)' : i > thread.upto => Coming(open, i)'
  <2> SUFFICES ASSUME Told', NEW i \in Held(open)', i > thread.upto PROVE Coming(open, i)'
    OBVIOUS
  <2>1. i \in Held(open)
    BY DEF Held
  <2>2. Coming(open, i)
    BY <2>1 DEF ThreadInv, ThreadFits
  <2>3. QED BY <2>2
<1>3. Replies(open, thread.upto)' = Replies(open, thread.upto) /\ Owing(open)' = Owing(open)
  BY DEF Replies, Held, Owing
<1>4. /\ thread.bubbles \in Nat /\ thread.ghosts \in Nat /\ Owing(open) \in Nat
      /\ Cardinality(Replies(open, thread.upto)) \in Nat
  BY RepliesAre, OwingIs DEF InboxTyped, ClThread, Owing
<1>5. thread'.bubbles + thread.ghosts + Owing(open) + Cardinality(Replies(open, thread.upto))
           <= thread.bubbles + thread'.ghosts + Owing(open)' + Cardinality(Replies(open, thread.upto))'
  BY <1>3, <1>4
<1>6. QED BY <1>1, <1>2, <1>5, ThreadGoesOn

LEMMA DraftIs ==
  ASSUME ApiTyped, NEW c \in Convs
  PROVE  draft[c] \in ClDraft /\ draft[c].n \in Nat /\ draft[c].live \in BOOLEAN /\ draft[c].since \in Nat
  BY DEF ApiTyped, ClDraft

\* The drafts that are shown or on their way are drafts that were made.
LEMMA DraftsGoOn ==
  ASSUME ApiTyped, ApiTyped', ComposerTyped, ComposerTyped', DraftsFit,
         \A d \in Convs : draft[d].n <= draft'[d].n,
         bar'.draft \in {bar.draft, Nothing},
         \A n \in AskPlaces : asks'[n] = asks[n] \/ asks'[n] = Nothing \/ asks'[n].n = 0,
         calls'["generate"] \in {calls["generate"], Nothing} \/ calls'["generate"].got = "pending"
  PROVE  DraftsFit'
<1>1. \A d \in Convs : draft[d].n \in Nat /\ draft'[d].n \in Nat
  BY DEF ApiTyped, ClDraft
<1>2. bar'.draft # Nothing => RealDraft(bar.draft)'
  <2> SUFFICES ASSUME bar'.draft # Nothing PROVE RealDraft(bar.draft)'
    OBVIOUS
  <2>1. bar'.draft = bar.draft /\ RealDraft(bar.draft)
    BY DEF DraftsFit
  <2>2. bar.draft.of \in Convs /\ bar.draft.n \in 1..draft[bar.draft.of].n
    BY <2>1 DEF RealDraft
  <2>3. bar'.draft.n \in 1..draft'[bar'.draft.of].n /\ bar'.draft.of \in Convs
    BY <1>1, <2>1, <2>2
  <2>4. QED BY <2>3 DEF RealDraft
<1>3. \A n \in AskPlaces : asks'[n] # Nothing => asks'[n].n <= draft'[asks'[n].of].n
  <2> SUFFICES ASSUME NEW n \in AskPlaces, asks'[n] # Nothing PROVE asks'[n].n <= draft'[asks'[n].of].n
    OBVIOUS
  <2>1. asks'[n] \in ClAsk
    BY DEF ComposerTyped
  <2>2. asks'[n].of \in Convs /\ asks'[n].n \in Nat
    BY <2>1 DEF ClAsk
  <2>3. CASE asks'[n] = asks[n]
    <3>1. asks[n].n <= draft[asks[n].of].n
      BY <2>3 DEF DraftsFit
    <3>2. QED BY <1>1, <2>2, <2>3, <3>1
  <2>4. CASE asks'[n].n = 0
    BY <1>1, <2>2, <2>4
  <2>5. QED BY <2>3, <2>4
<1>4. calls'["generate"] # Nothing /\ calls'["generate"].got = "draft" =>
         calls'["generate"].draft # Nothing /\ calls'["generate"].draft.n \in 1..draft'[calls'["generate"].of].n
  <2> SUFFICES ASSUME calls'["generate"] # Nothing, calls'["generate"].got = "draft"
               PROVE  calls'["generate"].draft # Nothing /\ calls'["generate"].draft.n \in 1..draft'[calls'["generate"].of].n
    OBVIOUS
  <2>1. calls'["generate"] = calls["generate"]
    OBVIOUS
  <2>2. calls["generate"].draft # Nothing /\ calls["generate"].draft.n \in 1..draft[calls["generate"].of].n
    BY <2>1 DEF DraftsFit
  <2>3. calls["generate"].of \in Convs
    BY <2>1 DEF ComposerTyped, CallNames, ClCall
  <2>4. QED BY <1>1, <2>1, <2>2, <2>3
<1>5. QED BY <1>2, <1>3, <1>4 DEF DraftsFit

\* A draft on offer stays on its way to a composer that does not have it.
LEMMA BarGoesOn ==
  ASSUME BarInv, open' = open, hybrid' = hybrid, bar'.draft = bar.draft, bar'.astray = bar.astray,
         bar'.suppressed = bar.suppressed, bar'.turned = bar.turned, Told' => Told,
         Told' /\ OnOffer(open)' => OnOffer(open) \/ DraftComing(open)',
         Told' /\ hybrid /\ ~bar.suppressed /\ DraftComing(open) => DraftComing(open)'
  PROVE  BarInv'
<1>1. bar'.draft # Nothing /\ ~bar'.astray => bar'.draft.of = open'
  BY DEF BarInv
<1>2. Told' /\ hybrid' /\ OnOffer(open)' /\ ~bar'.suppressed /\ ~bar'.turned => bar'.draft # Nothing \/ DraftComing(open)'
  <2> SUFFICES ASSUME Told', hybrid', OnOffer(open)', ~bar'.suppressed, ~bar'.turned, bar'.draft = Nothing
               PROVE  DraftComing(open)'
    OBVIOUS
  <2>1. CASE OnOffer(open)
    <3>1. DraftComing(open)
      BY <2>1 DEF BarInv
    <3>2. QED BY <3>1
  <2>2. QED BY <2>1
<1>3. QED BY <1>1, <1>2 DEF BarInv

-----------------------------------------------------------------------------

\* A message that is stored comes last, and the page hears of it or is not told.
LEMMA StoredIs ==
  ASSUME ApiTyped, NEW c \in Convs, NEW by, Stored(c, by), hybrid' = hybrid
  PROVE  /\ ApiTyped' /\ LogGrown /\ Len(log)' = Len(log) + 1 /\ Len(log) \in Nat
         /\ \A d : d # c => Held(d)' = Held(d)
         /\ Held(c)' = Held(c) \union {Len(log) + 1}
         /\ \A i \in 1..Len(log) : log'[i] = log[i]
         /\ log'[Len(log) + 1].out = (by # "customer")
         /\ draft' \in [Convs -> ClDraft] /\ \A d \in Convs : d # c => draft'[d] = draft[d]
         /\ \A d \in Convs : draft'[d].n = draft[d].n /\ draft'[d].since = draft[d].since /\ (draft'[d].live => draft[d].live)
<1> PICK out \in BOOLEAN : out = (by # "customer")
  OBVIOUS
<1> PICK live \in BOOLEAN : live = (draft[c].live /\ by # "agent")
  OBVIOUS
<1> DEFINE m == [of |-> c, out |-> out, alive |-> TRUE]
           N == Len(log)
<1>1. m \in ClMessage /\ m.of = c /\ m.out = out /\ m.alive = TRUE
  BY DEF ClMessage
<1>2. log \in Seq(ClMessage) /\ draft \in [Convs -> ClDraft] /\ stream \in ClStream /\ hybrid \in BOOLEAN
  BY DEF ApiTyped
<1>3. log' = Append(log, m)
  BY DEF Stored
<1>4. draft' = [draft EXCEPT ![c].live = live]
  BY DEF Stored
<1>5. stream' = Published("message", c)
  BY DEF Stored
<1> HIDE DEF m
<1>6. /\ log' \in Seq(ClMessage) /\ N \in Nat /\ Len(log') = N + 1 /\ log'[N + 1] = m
      /\ \A i \in 1..N : log'[i] = log[i]
  BY <1>1, <1>2, <1>3
<1>7. DOMAIN log = 1..N /\ DOMAIN log' = 1..(N + 1)
  BY <1>2, <1>6
<1>8. /\ draft' \in [Convs -> ClDraft]
      /\ \A d \in Convs : d # c => draft'[d] = draft[d]
      /\ draft'[c] = [draft[c] EXCEPT !.live = live]
  BY <1>2, <1>4 DEF ClDraft
<1>9. draft'[c].n = draft[c].n /\ draft'[c].since = draft[c].since /\ (draft'[c].live => draft[c].live)
  <2>1. draft[c] \in ClDraft
    BY <1>2
  <2>2. draft'[c].n = draft[c].n /\ draft'[c].since = draft[c].since /\ draft'[c].live = live
    BY <1>8, <2>1 DEF ClDraft
  <2>3. QED BY <2>2
<1>10. \A d \in Convs : draft'[d].n = draft[d].n /\ draft'[d].since = draft[d].since /\ (draft'[d].live => draft[d].live)
  BY <1>8, <1>9
<1>11. stream' \in ClStream
  BY <1>2, <1>5, PublishedIs
<1>12. ApiTyped'
  BY <1>2, <1>6, <1>8, <1>11 DEF ApiTyped
<1>13. LogGrown
  BY <1>6 DEF LogGrown
<1>14. \A d : Held(d)' = {i \in 1..(N + 1) : log'[i].of = d /\ log'[i].alive} /\ Held(d) = {i \in 1..N : log[i].of = d /\ log[i].alive}
  BY <1>7 DEF Held
<1>15. \A d : d # c => Held(d)' = Held(d)
  <2> SUFFICES ASSUME NEW d, d # c PROVE Held(d)' = Held(d)
    OBVIOUS
  <2>1. \A i \in 1..(N + 1) : i \in 1..N \/ i = N + 1
    BY <1>6
  <2>2. \A i \in 1..N : i \in 1..(N + 1)
    BY <1>6
  <2>3. log'[N + 1].of # d
    BY <1>1, <1>6
  <2>4. QED BY <1>6, <1>14, <2>1, <2>2, <2>3
<1>16. Held(c)' = Held(c) \union {N + 1}
  BY <1>1, <1>6, <1>14
<1>17. QED BY <1>1, <1>6, <1>8, <1>10, <1>12, <1>13, <1>15, <1>16

LEMMA RepliesStored ==
  ASSUME ApiTyped, NEW c \in Convs, NEW by, Stored(c, by), hybrid' = hybrid, NEW seen \in Nat, seen <= Len(log)
  PROVE  /\ \A d : d # c => Replies(d, seen)' = Replies(d, seen)
         /\ by = "customer" => Replies(c, seen)' = Replies(c, seen)
         /\ by # "customer" => Cardinality(Replies(c, seen)') = Cardinality(Replies(c, seen)) + 1
<1> DEFINE N == Len(log)
<1>1. /\ N \in Nat /\ \A d : d # c => Held(d)' = Held(d)
      /\ Held(c)' = Held(c) \union {N + 1} /\ \A i \in 1..N : log'[i] = log[i]
      /\ log'[N + 1].out = (by # "customer")
  BY StoredIs
<1>2. \A d : Held(d) \subseteq 1..N
  BY HeldIs
<1>3. \A d : d # c => Replies(d, seen)' = Replies(d, seen)
  BY <1>1, <1>2 DEF Replies
<1>4. by = "customer" => Replies(c, seen)' = Replies(c, seen)
  BY <1>1, <1>2 DEF Replies
<1>5. by # "customer" => Replies(c, seen)' = Replies(c, seen) \union {N + 1}
  <2> SUFFICES ASSUME by # "customer" PROVE Replies(c, seen)' = Replies(c, seen) \union {N + 1}
    OBVIOUS
  <2>1. N + 1 > seen
    BY <1>1
  <2>2. log'[N + 1].out
    BY <1>1, Zenon
  <2>3. QED BY <1>1, <1>2, <2>1, <2>2 DEF Replies
<1>6. IsFiniteSet(Replies(c, seen)) /\ N + 1 \notin Replies(c, seen)
  BY <1>1, RepliesAre
<1>7. QED BY <1>3, <1>4, <1>5, <1>6, FS_AddElement

\* What a stored message does to the page: it is on its way.
LEMMA StoredKeeps ==
  ASSUME ClInv, NEW c \in Convs, NEW by, Stored(c, by), InboxTyped', UNCHANGED <<hybrid, open, fetches, bar, asks>>, thread' = thread,
         calls'["generate"] = calls["generate"], ComposerTyped',
         Owing(open) + (IF by = "customer" \/ open # c THEN 0 ELSE -1) <= Owing(open)'
  PROVE  ClInv'
<1>1. ApiTyped /\ InboxTyped /\ ComposerTyped /\ LogFits /\ DraftsFit /\ PagesFit /\ ThreadInv /\ BarInv
  BY DEF ClInv, ClTyped
<1> HIDE DEF ClInv
<1>2. /\ ApiTyped' /\ LogGrown /\ Len(log)' = Len(log) + 1 /\ Len(log) \in Nat
      /\ \A d : d # c => Held(d)' = Held(d)
      /\ Held(c)' = Held(c) \union {Len(log) + 1}
      /\ \A d \in Convs : d # c => draft'[d] = draft[d]
      /\ \A d \in Convs : draft'[d].n = draft[d].n /\ draft'[d].since = draft[d].since /\ (draft'[d].live => draft[d].live)
      /\ \A i \in 1..Len(log) : log'[i] = log[i]
  BY <1>1, StoredIs
<1>3. /\ stream' \in ClStream /\ stream.untold \subseteq stream'.untold
      /\ \A d : Announced(d) => Announced(d)' \/ d \in stream'.untold
      /\ \A d : DraftAnnounced(d) => DraftAnnounced(d)' \/ d \in stream'.untold
      /\ c \notin stream'.untold => Announced(c)' /\ DraftAnnounced(c)'
  BY <1>1, PublishedIs DEF Stored, ApiTyped
<1>4. LogFits'
  <2>1. thread.ids \subseteq 1..Len(log) /\ thread.upto <= Len(log) /\ thread.upto \in Nat
    BY <1>1 DEF LogFits, InboxTyped, ClThread
  <2>2. thread'.ids \subseteq 1..Len(log)' /\ thread'.upto <= Len(log)'
    BY <1>2, <2>1
  <2>3. \A d \in Convs : draft'[d].since <= Len(log)' /\ (draft'[d].live => draft'[d].n > 0)
    <3> SUFFICES ASSUME NEW d \in Convs PROVE draft'[d].since <= Len(log)' /\ (draft'[d].live => draft'[d].n > 0)
      OBVIOUS
    <3>1. draft[d].since <= Len(log) /\ (draft[d].live => draft[d].n > 0) /\ draft[d].since \in Nat
      BY <1>1, DraftIs DEF LogFits
    <3>2. QED BY <1>2, <3>1
  <2>4. QED BY <2>2, <2>3 DEF LogFits
<1>5. DraftsFit'
  <2>1. \A d \in Convs : draft[d].n <= draft'[d].n
    BY <1>1, <1>2, DraftIs
  <2>2. QED BY <1>1, <1>2, <2>1, DraftsGoOn
<1>6. PagesFit'
  BY <1>1, <1>2, PagesKept DEF InboxTyped, FetchTyped
<1>7. Told' => Told /\ open \in Convs
  BY <1>1, <1>3, ToldIs DEF Told
<1>8. Told' => \A i \in Held(open)' : i > thread.upto => Coming(open, i)'
  <2> SUFFICES ASSUME Told', NEW i \in Held(open)', i > thread.upto PROVE Coming(open, i)'
    OBVIOUS
  <2>1. open \notin stream'.untold
    BY DEF Told
  <2>2. CASE open = c
    BY <1>3, <2>1, <2>2 DEF Coming
  <2>3. CASE open # c
    <3>1. i \in Held(open)
      <4>1. Held(open)' = {k \in DOMAIN log' : log'[k].of = open /\ log'[k].alive}
        BY DEF Held
      <4> PICK o : o = open
        OBVIOUS
      <4>2. Held(o)' = Held(o)
        BY <1>2, <2>3
      <4>3. QED BY <4>1, <4>2 DEF Held
    <3>2. Coming(open, i)
      BY <1>1, <1>7, <3>1 DEF ThreadInv, ThreadFits
    <3>3. QED BY <1>3, <2>1, <3>2 DEF Coming, Brings
  <2>4. QED BY <2>2, <2>3
<1>9. Told' /\ FullComing(open) => FullComing(open)'
  BY DEF FullComing, IsFull
<1>10. Owing(open) + Cardinality(Replies(open, thread.upto)) <= Owing(open)' + Cardinality(Replies(open, thread.upto))'
  <2> PICK o, u : o = open /\ u = thread.upto
    OBVIOUS
  <2>1. u \in Nat /\ u <= Len(log)
    BY <1>1 DEF LogFits, InboxTyped, ClThread
  <2>2. /\ \A d : d # c => Replies(d, u)' = Replies(d, u)
        /\ by = "customer" => Replies(c, u)' = Replies(c, u)
        /\ by # "customer" => Cardinality(Replies(c, u)') = Cardinality(Replies(c, u)) + 1
    BY <1>1, <2>1, RepliesStored
  <2>3. Replies(open, thread.upto)' = Replies(o, u)'
    BY DEF Replies, Held
  <2>4. Cardinality(Replies(o, u)) \in Nat
    BY <1>1, RepliesAre
  <2>5. Owing(open) \in {0, 1} /\ Owing(open)' \in {0, 1}
    BY DEF Owing
  <2>6. CASE by = "customer" \/ o # c
    <3>1. Replies(o, u)' = Replies(o, u)
      BY <2>2, <2>6
    <3>2. Owing(open) <= Owing(open)'
      BY <2>5, <2>6
    <3>3. QED BY <2>3, <2>4, <2>5, <3>1, <3>2
  <2>7. CASE by # "customer" /\ o = c
    <3>1. Cardinality(Replies(o, u)') = Cardinality(Replies(o, u)) + 1
      BY <2>2, <2>7
    <3>2. Owing(open) - 1 <= Owing(open)'
      BY <2>5, <2>7
    <3>3. QED BY <2>3, <2>4, <2>5, <3>1, <3>2
  <2>8. QED BY <2>6, <2>7
<1>11. thread'.bubbles + thread.ghosts + Owing(open) + Cardinality(Replies(open, thread.upto))
           <= thread.bubbles + thread'.ghosts + Owing(open)' + Cardinality(Replies(open, thread.upto))'
  <2>1. thread.bubbles \in Nat /\ thread.ghosts \in Nat /\ Owing(open) \in Nat /\ Owing(open)' \in Nat
    BY <1>1, OwingIs DEF InboxTyped, ClThread, Owing
  <2>2. Cardinality(Replies(open, thread.upto)) \in Nat
    BY <1>1, RepliesAre
  <2>3. Cardinality(Replies(open, thread.upto))' \in Nat
    BY <1>2, RepliesAreThen
  <2>4. QED BY <1>10, <2>1, <2>2, <2>3
<1>12. ThreadInv'
  BY <1>1, <1>2, <1>7, <1>8, <1>9, <1>11, ThreadGoesOn
<1>13. Told' /\ OnOffer(open)' => OnOffer(open) \/ DraftComing(open)'
  <2> SUFFICES ASSUME Told', OnOffer(open)', ~DraftComing(open)' PROVE OnOffer(open)
    OBVIOUS
  <2>1. open \notin stream'.untold /\ open \in Convs
    BY <1>7 DEF Told
  <2>2. open # c
    BY <1>3, <2>1 DEF DraftComing
  <2> PICK o : o = open
    OBVIOUS
  <2>3. draft'[o] = draft[o] /\ Held(o)' = Held(o)
    BY <1>2, <2>1, <2>2
  <2>4. OnOffer(o)'
    BY DEF OnOffer, Held
  <2>5. \A i \in Held(o) : log'[i] = log[i]
    BY <1>1, <1>2, HeldIs
  <2>6. OnOffer(o)
    BY <2>3, <2>4, <2>5 DEF OnOffer
  <2>7. QED BY <2>6
<1>14. Told' /\ hybrid /\ ~bar.suppressed /\ DraftComing(open) => DraftComing(open)'
  BY <1>3 DEF DraftComing, Told, AskBrings
<1>15. BarInv'
  BY <1>1, <1>7, <1>13, <1>14, BarGoesOn
<1>16. QED BY <1>2, <1>4, <1>5, <1>6, <1>12, <1>15 DEF ClInv, ClTyped

-----------------------------------------------------------------------------

LEMMA ClInvIs ==
  ASSUME ClInv
  PROVE  ApiTyped /\ InboxTyped /\ ComposerTyped /\ LogFits /\ DraftsFit /\ PagesFit /\ ThreadInv /\ BarInv
  BY DEF ClInv, ClTyped

LEMMA ClInvOf ==
  ASSUME ApiTyped', InboxTyped', ComposerTyped', LogFits', DraftsFit', PagesFit', ThreadInv', BarInv'
  PROVE  ClInv'
  BY DEF ClInv, ClTyped

\* What the composer does with the thread: nothing.
LEMMA PageSide ==
  ASSUME ClInv, ApiTyped', UNCHANGED <<log, open, thread, fetches>>, stream.untold \subseteq stream'.untold,
         stream'.queue = stream.queue, \A c : SendOwes(c)' = SendOwes(c)
  PROVE  InboxTyped' /\ PagesFit' /\ ThreadInv'
<1>1. ApiTyped /\ InboxTyped /\ ComposerTyped /\ LogFits /\ PagesFit /\ ThreadInv
  BY ClInvIs
<1>2. InboxTyped'
  BY <1>1 DEF InboxTyped
<1>3. PagesFit'
  BY <1>1, LogRests, PagesKept DEF InboxTyped, FetchTyped
<1>4. \A c, i : Coming(c, i) => Coming(c, i)'
  BY DEF Coming, Announced, Brings
<1>5. \A c : FullComing(c) => FullComing(c)'
  BY DEF FullComing, IsFull
<1>6. (Told' => Told) /\ (\A i : Coming(open, i) => Coming(open, i)') /\ (FullComing(open) => FullComing(open)')
  <2>1. Told' => Told
    BY DEF Told
  <2> PICK o : o = open
    OBVIOUS
  <2>2. (\A i : Coming(o, i) => Coming(o, i)') /\ (FullComing(o) => FullComing(o)')
    BY <1>4, <1>5
  <2>3. \A i : Coming(open, i) => Coming(open, i)'
    BY <2>2 DEF Coming, Announced, Brings
  <2>4. FullComing(open) => FullComing(open)'
    BY <2>2 DEF FullComing, IsFull
  <2>5. QED BY <2>1, <2>3, <2>4
<1>7. ThreadInv'
  BY <1>1, <1>2, <1>6, ThreadStays
<1>8. QED BY <1>2, <1>3, <1>7

\* What the thread does with the composer: nothing.
LEMMA BarSide ==
  ASSUME ClInv, ApiTyped', UNCHANGED <<hybrid, log, draft, open, bar, asks>>, stream.untold \subseteq stream'.untold,
         stream'.queue = stream.queue, calls'["generate"] = calls["generate"], ComposerTyped'
  PROVE  DraftsFit' /\ BarInv'
<1>1. ApiTyped /\ InboxTyped /\ ComposerTyped /\ DraftsFit /\ BarInv
  BY ClInvIs
<1>2. DraftsFit'
  BY <1>1, DraftIs, DraftsGoOn
<1>3. OnOffer(open)' => OnOffer(open)
  BY DEF OnOffer, Held
<1>4. DraftComing(open) => DraftComing(open)'
  BY DEF DraftComing, DraftAnnounced, AskBrings
<1>5. Told' => Told
  BY DEF Told
<1>6. QED BY <1>1, <1>2, <1>3, <1>4, <1>5, BarGoesOn

LEMMA LogFitsRests ==
  ASSUME ClInv, UNCHANGED <<log, draft>>, thread'.ids = thread.ids, thread'.upto = thread.upto
  PROVE  LogFits'
<1>1. LogFits
  BY ClInvIs
<1>2. QED BY <1>1 DEF LogFits

\* A message that is unsent is still shown, and no longer held.
LEMMA UnsendsKeeps ==
  ASSUME ClInv, NEW k \in DOMAIN log, CustomerUnsends(k), hybrid' = hybrid
  PROVE  ClInv'
<1>1. ApiTyped /\ InboxTyped /\ ComposerTyped /\ LogFits /\ DraftsFit /\ PagesFit /\ ThreadInv /\ BarInv
  BY ClInvIs
<1>2. /\ log' = [log EXCEPT ![k].alive = FALSE] /\ ~log[k].out /\ stream' = Published("deleted", log[k].of)
      /\ UNCHANGED <<draft, open, thread, fetches, bar, asks, calls>>
  BY DEF CustomerUnsends
<1> HIDE DEF ClInv
<1>3. Len(log) \in Nat /\ DOMAIN log = 1..Len(log) /\ \A i \in 1..Len(log) : log[i] \in ClMessage /\ log[i].of \in Convs
  BY <1>1, HeldIs
<1>4. /\ log' \in Seq(ClMessage) /\ Len(log') = Len(log) /\ DOMAIN log' = DOMAIN log
      /\ \A i \in DOMAIN log : i # k => log'[i] = log[i]
      /\ log'[k] = [log[k] EXCEPT !.alive = FALSE]
  <2>1. log \in Seq(ClMessage) /\ log[k] \in ClMessage
    BY <1>1, <1>3 DEF ApiTyped
  <2>2. [log[k] EXCEPT !.alive = FALSE] \in ClMessage
    BY <2>1 DEF ClMessage
  <2>3. QED BY <1>2, <1>3, <2>1, <2>2
<1>5. log'[k].of = log[k].of /\ log'[k].out = log[k].out /\ log'[k].alive = FALSE
  BY <1>3, <1>4 DEF ClMessage
<1>6. \A i \in DOMAIN log : log'[i].of = log[i].of /\ log'[i].out = log[i].out /\ (log'[i].alive => log[i].alive)
  BY <1>4, <1>5
<1>7. LogGrown
  BY <1>3, <1>4, <1>6 DEF LogGrown
<1>8. /\ stream' \in ClStream /\ stream.untold \subseteq stream'.untold
      /\ \A d : Announced(d) => Announced(d)' \/ d \in stream'.untold
      /\ \A d : DraftAnnounced(d) => DraftAnnounced(d)' \/ d \in stream'.untold
  BY <1>1, <1>2, <1>3, PublishedIs DEF ApiTyped
<1>9. ApiTyped' /\ InboxTyped' /\ ComposerTyped'
  BY <1>1, <1>2, <1>4, <1>8 DEF ApiTyped, InboxTyped, ComposerTyped
<1>10. LogFits'
  BY <1>1, <1>2, <1>4 DEF LogFits
<1>11. DraftsFit'
  BY <1>1, <1>2, <1>9, DraftIs, DraftsGoOn
<1>12. PagesFit'
  BY <1>1, <1>2, <1>7, <1>9, PagesKept DEF InboxTyped, FetchTyped
<1>13. Told' => Told
  BY <1>2, <1>8 DEF Told
<1>14. \A d : Held(d)' = Held(d) \ {k}
  <2> SUFFICES ASSUME NEW d PROVE Held(d)' = Held(d) \ {k}
    OBVIOUS
  <2>1. \A i \in DOMAIN log : i # k => (log'[i].of = d /\ log'[i].alive <=> log[i].of = d /\ log[i].alive)
    BY <1>4
  <2>2. QED BY <1>4, <1>5, <2>1 DEF Held
<1>15. \A d, seen : Replies(d, seen)' = Replies(d, seen)
  <2> SUFFICES ASSUME NEW d, NEW seen PROVE Replies(d, seen)' = Replies(d, seen)
    OBVIOUS
  <2>1. \A i \in Held(d) : i \in DOMAIN log /\ (log'[i].out <=> log[i].out)
    BY <1>6 DEF Held
  <2>2. k \notin Replies(d, seen)
    BY <1>2 DEF Replies
  <2>3. QED BY <1>14, <2>1, <2>2 DEF Replies
<1>16. Told' => \A i \in Held(open)' : i > thread.upto => Coming(open, i)'
  <2> SUFFICES ASSUME Told', NEW i \in Held(open)', i > thread.upto PROVE Coming(open, i)'
    OBVIOUS
  <2> PICK o : o = open
    OBVIOUS
  <2>1. i \in Held(o)'
    BY <1>2 DEF Held
  <2>2. i \in Held(open)
    BY <1>14, <2>1
  <2>3. Coming(open, i)
    BY <1>1, <1>13, <2>2 DEF ThreadInv, ThreadFits
  <2>4. QED BY <1>2, <1>8, <2>3 DEF Coming, Brings, Told
<1>17. FullComing(open) => FullComing(open)'
  BY <1>2 DEF FullComing, IsFull
<1>18. thread'.bubbles + thread.ghosts + Owing(open) + Cardinality(Replies(open, thread.upto))
           <= thread.bubbles + thread'.ghosts + Owing(open)' + Cardinality(Replies(open, thread.upto))'
  <2> PICK o, u : o = open /\ u = thread.upto
    OBVIOUS
  <2>1. Owing(open)' = Owing(open) /\ Owing(open) \in Nat
    BY <1>2 DEF Owing, SendOwes
  <2>2. Replies(open, thread.upto)' = Replies(o, u)'
    BY <1>2 DEF Replies, Held
  <2>3. Replies(open, thread.upto)' = Replies(open, thread.upto)
    BY <1>15, <2>2
  <2>4. thread.bubbles \in Nat /\ thread.ghosts \in Nat /\ Cardinality(Replies(open, thread.upto)) \in Nat
    BY <1>1, RepliesAre DEF InboxTyped, ClThread
  <2>5. QED BY <1>2, <2>1, <2>3, <2>4
<1>19. ThreadInv'
  BY <1>1, <1>2, <1>7, <1>9, <1>13, <1>16, <1>17, <1>18, ThreadGoesOn
<1>20. OnOffer(open)' => OnOffer(open)
  <2> PICK o : o = open
    OBVIOUS
  <2> SUFFICES ASSUME OnOffer(o)' PROVE OnOffer(o)
    BY <1>2 DEF OnOffer, Held
  <2>1. draft[o].live /\ ~\E i \in Held(o)' : i > draft[o].since /\ log'[i].out /\ \A j \in Held(o)' : j <= i
    BY <1>2 DEF OnOffer
  <2>2. ~\E i \in Held(o) : i > draft[o].since /\ log[i].out /\ \A j \in Held(o) : j <= i
    <3> SUFFICES ASSUME NEW i \in Held(o), i > draft[o].since, log[i].out, \A j \in Held(o) : j <= i PROVE FALSE
      OBVIOUS
    <3>1. i # k /\ i \in DOMAIN log
      BY <1>2 DEF Held
    <3>2. i \in Held(o)' /\ log'[i].out
      BY <1>4, <1>14, <3>1
    <3>3. \A j \in Held(o)' : j <= i
      BY <1>14
    <3>4. QED BY <2>1, <3>2, <3>3
  <2>3. QED BY <2>1, <2>2 DEF OnOffer
<1>21. Told' /\ DraftComing(open) => DraftComing(open)'
  BY <1>2, <1>8 DEF DraftComing, Told, AskBrings
<1>22. BarInv'
  BY <1>1, <1>2, <1>13, <1>20, <1>21, BarGoesOn
<1>23. QED BY <1>9, <1>10, <1>11, <1>12, <1>19, <1>22, ClInvOf

\* A new draft: the last one that was made, and nothing has answered it.
LEMMA NewDraftIs ==
  ASSUME ApiTyped, LogFits, NEW c \in Convs, draft' = [draft EXCEPT ![c] = NewDraft(c)], log' = log, thread' = thread
  PROVE  /\ draft' \in [Convs -> ClDraft] /\ LogFits'
         /\ draft'[c].n = draft[c].n + 1 /\ \A d \in Convs : (d # c => draft'[d] = draft[d]) /\ draft[d].n <= draft'[d].n
<1>1. draft \in [Convs -> ClDraft] /\ Len(log) \in Nat /\ draft[c].n \in Nat
  BY HeldIs, DraftIs DEF ApiTyped
<1>2. NewDraft(c) \in ClDraft /\ NewDraft(c).n = draft[c].n + 1 /\ NewDraft(c).since = Len(log)
  BY <1>1 DEF NewDraft, ClDraft
<1>3. /\ draft' \in [Convs -> ClDraft] /\ draft'[c] = NewDraft(c)
      /\ \A d \in Convs : d # c => draft'[d] = draft[d]
  BY <1>1, <1>2
<1>4. \A d \in Convs : draft[d].n <= draft'[d].n
  BY <1>1, <1>2, <1>3, DraftIs
<1>5. \A d \in Convs : draft'[d].since <= Len(log) /\ (draft'[d].live => draft'[d].n > 0)
  <2> SUFFICES ASSUME NEW d \in Convs PROVE draft'[d].since <= Len(log) /\ (draft'[d].live => draft'[d].n > 0)
    OBVIOUS
  <2>1. CASE d = c
    BY <1>1, <1>2, <1>3, <2>1
  <2>2. CASE d # c
    BY <1>3, <2>2 DEF LogFits
  <2>3. QED BY <2>1, <2>2
<1>6. LogFits'
  BY <1>5 DEF LogFits
<1>7. QED BY <1>2, <1>3, <1>4, <1>6

LEMMA DraftIsMadeKeeps ==
  ASSUME ClInv, NEW c \in Convs, DraftIsMade(c), hybrid' = hybrid
  PROVE  ClInv'
<1>1. ApiTyped /\ InboxTyped /\ ComposerTyped /\ LogFits /\ DraftsFit /\ PagesFit /\ ThreadInv /\ BarInv
  BY ClInvIs
<1> HIDE DEF ClInv
<1>2. /\ draft' = [draft EXCEPT ![c] = NewDraft(c)] /\ stream' = Published("draft", c)
      /\ UNCHANGED <<log, open, thread, fetches, bar, asks, calls>>
  BY DEF DraftIsMade
<1>3. /\ draft' \in [Convs -> ClDraft] /\ LogFits'
      /\ \A d \in Convs : (d # c => draft'[d] = draft[d]) /\ draft[d].n <= draft'[d].n
  BY <1>1, <1>2, NewDraftIs
<1>4. /\ stream' \in ClStream /\ stream.untold \subseteq stream'.untold
      /\ \A d : Announced(d) => Announced(d)' \/ d \in stream'.untold
      /\ \A d : DraftAnnounced(d) => DraftAnnounced(d)' \/ d \in stream'.untold
      /\ c \notin stream'.untold => DraftAnnounced(c)'
  BY <1>1, <1>2, PublishedIs DEF ApiTyped
<1>5. ApiTyped' /\ InboxTyped' /\ ComposerTyped'
  BY <1>1, <1>2, <1>3, <1>4 DEF ApiTyped, InboxTyped, ComposerTyped
<1>6. DraftsFit'
  BY <1>1, <1>2, <1>3, <1>5, DraftsGoOn
<1>7. PagesFit'
  BY <1>1, <1>2, <1>5, LogRests, PagesKept DEF InboxTyped, FetchTyped
<1>8. Told' => Told /\ open \in Convs
  BY <1>1, <1>2, <1>4, ToldIs DEF Told
<1>9. Told' => \A i : Coming(open, i) => Coming(open, i)'
  BY <1>2, <1>4 DEF Coming, Brings, Told
<1>10. FullComing(open) => FullComing(open)'
  BY <1>2 DEF FullComing, IsFull
<1>11. \A d : SendOwes(d)' = SendOwes(d)
  BY <1>2 DEF SendOwes
<1>12. ThreadInv'
  BY <1>1, <1>2, <1>5, <1>8, <1>9, <1>10, <1>11, ThreadStays
<1>13. Told' /\ OnOffer(open)' => OnOffer(open) \/ DraftComing(open)'
  <2> SUFFICES ASSUME Told', OnOffer(open)', ~DraftComing(open)' PROVE OnOffer(open)
    OBVIOUS
  <2>1. open \notin stream'.untold /\ open \in Convs
    BY <1>2, <1>8 DEF Told
  <2>2. open # c
    BY <1>2, <1>4, <2>1 DEF DraftComing
  <2>3. draft'[open] = draft[open]
    BY <1>3, <2>1, <2>2
  <2>4. QED BY <1>2, <2>3 DEF OnOffer, Held
<1>14. Told' /\ DraftComing(open) => DraftComing(open)'
  BY <1>2, <1>4 DEF DraftComing, Told, AskBrings
<1>15. BarInv'
  BY <1>1, <1>2, <1>8, <1>13, <1>14, BarGoesOn
<1>16. QED BY <1>3, <1>5, <1>6, <1>7, <1>12, <1>15, ClInvOf

-----------------------------------------------------------------------------

\* Loads that start bring what others brought.
LEMMA PageLoads ==
  ASSUME ClInv, ApiTyped', FetchTyped', LoadsMore, UNCHANGED <<log, open, thread>>, stream.untold \subseteq stream'.untold,
         Told' /\ Announced(open) => Announced(open)' \/ \E n \in LoadPlaces : fetches'[n] = NewLoad("quiet", open, 0),
         \A c : SendOwes(c)' = SendOwes(c)
  PROVE  InboxTyped' /\ PagesFit' /\ ThreadInv'
<1>1. ApiTyped /\ InboxTyped /\ ComposerTyped /\ LogFits /\ PagesFit /\ ThreadInv
  BY ClInvIs
<1> HIDE DEF ClInv
<1>2. InboxTyped' /\ FetchTyped
  BY <1>1 DEF InboxTyped, FetchTyped
<1>3. /\ \A c, i : (\E n \in LoadPlaces : Brings(fetches[n], c, i)) => \E n \in LoadPlaces : Brings(fetches'[n], c, i)
      /\ \A c : FullComing(c) => FullComing(c)'
      /\ \A n \in LoadPlaces : fetches'[n] # Nothing /\ fetches'[n].got = "page" => fetches'[n] = fetches[n]
  BY LoadsBring
<1>4. PagesFit'
  BY <1>1, <1>2, <1>3, LogRests, PagesKept
<1>5. Told' => Told
  BY DEF Told
<1>6. Told' => \A i : Coming(open, i) => Coming(open, i)'
  <2> SUFFICES ASSUME Told', NEW i, Coming(open, i) PROVE Coming(open, i)'
    OBVIOUS
  <2>1. CASE \E n \in LoadPlaces : Brings(fetches[n], open, i)
    <3>1. \E n \in LoadPlaces : Brings(fetches'[n], open, i)
      BY <1>3, <2>1
    <3>2. QED BY <3>1 DEF Coming, Brings
  <2>2. CASE Announced(open)
    <3>1. CASE Announced(open)'
      BY <3>1 DEF Coming
    <3>2. CASE \E n \in LoadPlaces : fetches'[n] = NewLoad("quiet", open, 0)
      <4>1. PICK n \in LoadPlaces : fetches'[n] = NewLoad("quiet", open, 0)
        BY <3>2
      <4>2. open \in Convs
        BY <1>1, <1>5, ToldIs
      <4>3. fetches'[n] # Nothing
        BY <4>1, <4>2, PageSizeIs DEF NewLoad, Nothing
      <4>4. fetches'[n].of = open' /\ fetches'[n].kind # "older" /\ fetches'[n].got # "page"
        BY <4>1 DEF NewLoad
      <4>5. Brings(fetches[n], open, i)'
        BY <4>3, <4>4 DEF Brings
      <4>6. QED BY <4>5 DEF Coming
    <3>3. QED BY <2>2, <3>1, <3>2
  <2>3. QED BY <2>1, <2>2 DEF Coming
<1>7. FullComing(open) => FullComing(open)'
  <2> PICK o : o = open
    OBVIOUS
  <2>1. FullComing(o) => FullComing(o)'
    BY <1>3
  <2>2. QED BY <2>1 DEF FullComing, IsFull
<1>8. ThreadInv'
  BY <1>1, <1>2, <1>5, <1>6, <1>7, ThreadStays
<1>9. QED BY <1>2, <1>4, <1>8

LEMMA EmptyTyped == EmptyBar \in ClBar /\ EmptyThread \in ClThread
<1>1. EmptyBar \in ClBar
  BY DEF EmptyBar, ClBar, ClText
<1>2. EmptyThread \in ClThread
  BY DEF EmptyThread, ClThread
<1>3. QED BY <1>1, <1>2

LEMMA ComposerIs ==
  ASSUME ComposerTyped
  PROVE  /\ bar \in ClBar /\ bar.text \in ClText /\ bar.last \in ClText /\ bar.draft \in ClMade \union {Nothing}
         /\ AsksTyped /\ calls \in [CallNames -> ClCall \union {Nothing}]
  BY DEF ComposerTyped, ClBar, AsksTyped

\* Another conversation: everything is loaded for it.
LEMMA SelectKeeps ==
  ASSUME ClInv, NEW c \in Convs, Select(c), hybrid' = hybrid
  PROVE  ClInv'
<1>1. ApiTyped /\ InboxTyped /\ ComposerTyped /\ LogFits /\ DraftsFit /\ PagesFit /\ ThreadInv /\ BarInv
  BY ClInvIs
<1> HIDE DEF ClInv
<1>2. /\ FreeLoad # {} /\ open' = c /\ thread' = [thread EXCEPT !.stale = TRUE, !.more = FALSE, !.upto = 0]
      /\ fetches' = Starting("full", c, 0) /\ bar' = EmptyBar /\ AsksFor(c)
      /\ stream' = [stream EXCEPT !.untold = @ \ {c}] /\ UNCHANGED <<log, draft, calls>>
  BY DEF Select, ClearedBar
<1>3. FetchTyped' /\ LoadsMore /\ \E n \in LoadPlaces : fetches'[n] = NewLoad("full", c, 0)
  BY <1>1, <1>2, LoadStarts DEF InboxTyped, FetchTyped
<1>4. AsksTyped' /\ AsksMore /\ (hybrid => \E n \in AskPlaces : AskBrings(asks'[n], c))
  BY <1>1, <1>2, AskStarts, ComposerIs DEF ApiTyped
<1>5. /\ thread' \in ClThread /\ thread'.ids = thread.ids /\ thread'.upto = 0 /\ thread'.stale = TRUE
  BY <1>1, <1>2 DEF InboxTyped, ClThread
<1>6. stream' \in ClStream /\ c \notin stream'.untold
  BY <1>1, <1>2 DEF ApiTyped, ClStream
<1>7. ApiTyped' /\ InboxTyped' /\ ComposerTyped'
  BY <1>1, <1>2, <1>3, <1>4, <1>5, <1>6, EmptyTyped DEF ApiTyped, InboxTyped, ComposerTyped, FetchTyped, AsksTyped
<1>8. LogFits'
  BY <1>1, <1>2, <1>5, HeldIs DEF LogFits
<1>9. bar'.draft = Nothing
  BY <1>2 DEF EmptyBar
<1>10. DraftsFit'
  <2>1. \A d \in Convs : draft[d].n <= draft'[d].n
    BY <1>1, <1>2, DraftIs
  <2>2. \A n \in AskPlaces : asks'[n] = asks[n] \/ asks'[n] = Nothing \/ asks'[n].n = 0
    BY <1>4 DEF AsksMore
  <2>3. QED BY <1>1, <1>2, <1>7, <1>9, <2>1, <2>2, DraftsGoOn
<1>11. PagesFit'
  <2>1. \A n \in LoadPlaces : fetches'[n] # Nothing /\ fetches'[n].got = "page" => fetches'[n] = fetches[n]
    BY <1>3, LoadsBring
  <2>2. QED BY <1>1, <1>2, <1>7, <2>1, LogRests, PagesKept DEF InboxTyped, FetchTyped
<1>12. ThreadFits(open)'
  <2>1. PICK n \in LoadPlaces : fetches'[n] = NewLoad("full", c, 0)
    BY <1>3
  <2>2. fetches'[n] # Nothing
    BY <2>1, PageSizeIs DEF NewLoad, Nothing
  <2>3. fetches'[n].of = open' /\ fetches'[n].kind = "full" /\ fetches'[n].got # "page"
    BY <1>2, <2>1 DEF NewLoad
  <2>4. \A i : Brings(fetches[n], open, i)'
    BY <2>2, <2>3 DEF Brings
  <2>5. IsFull(fetches[n], open)'
    BY <2>2, <2>3 DEF IsFull
  <2>6. (\A i : Coming(open, i)') /\ FullComing(open)'
    BY <2>4, <2>5 DEF Coming, FullComing
  <2>7. QED BY <1>5, <2>6 DEF ThreadFits
<1>13. ThreadInv'
  BY <1>12 DEF ThreadInv
<1>14. hybrid' => DraftComing(open)'
  BY <1>2, <1>4 DEF DraftComing, AskBrings
<1>15. BarInv'
  BY <1>9, <1>14 DEF BarInv
<1>16. QED BY <1>7, <1>8, <1>10, <1>11, <1>13, <1>15, ClInvOf

LEMMA CloseKeeps ==
  ASSUME ClInv, Close, hybrid' = hybrid
  PROVE  ClInv'
<1>1. ApiTyped /\ InboxTyped /\ ComposerTyped /\ LogFits /\ DraftsFit /\ PagesFit /\ ThreadInv /\ BarInv
  BY ClInvIs
<1> HIDE DEF ClInv
<1>2. open' = NoConv /\ thread' = EmptyThread /\ bar' = EmptyBar /\ UNCHANGED <<log, draft, stream, fetches, asks, calls>>
  BY DEF Close, ClearedBar
<1>3. ApiTyped' /\ InboxTyped' /\ ComposerTyped'
  BY <1>1, <1>2, EmptyTyped DEF ApiTyped, InboxTyped, ComposerTyped
<1>4. bar'.draft = Nothing /\ thread'.ids = {} /\ thread'.upto = 0
  BY <1>2 DEF EmptyBar, EmptyThread
<1>5. LogFits'
  BY <1>1, <1>2, <1>4, HeldIs DEF LogFits
<1>6. DraftsFit'
  BY <1>1, <1>2, <1>3, <1>4, DraftIs, DraftsGoOn
<1>7. PagesFit'
  BY <1>1, <1>2, <1>3, LogRests, PagesKept DEF InboxTyped, FetchTyped
<1>8. ~Told'
  BY <1>2 DEF Told
<1>9. ThreadInv' /\ BarInv'
  BY <1>4, <1>8 DEF ThreadInv, BarInv
<1>10. QED BY <1>3, <1>5, <1>6, <1>7, <1>9, ClInvOf

\* An event is taken: what it told of is loaded.
LEMMA TakeEventKeeps ==
  ASSUME ClInv, TakeEvent, hybrid' = hybrid
  PROVE  ClInv'
<1>1. ApiTyped /\ InboxTyped /\ ComposerTyped /\ LogFits /\ DraftsFit /\ PagesFit /\ ThreadInv /\ BarInv
  BY ClInvIs
<1> HIDE DEF ClInv
<1> DEFINE e == Head(stream.queue)
           q == stream.queue
<1>2. /\ q # <<>> /\ stream' = [stream EXCEPT !.queue = Tail(@)]
      /\ LooksFor(e) /\ (IF e.type # "draft" THEN Refreshes(e.of) ELSE UNCHANGED fetches)
      /\ UNCHANGED <<log, draft, open, thread, bar, calls>>
  BY DEF TakeEvent
<1>3. q \in Seq(ClEvent) /\ stream \in ClStream
  BY <1>1 DEF ApiTyped, ClStream
<1>4. /\ e \in ClEvent /\ Tail(q) \in Seq(ClEvent) /\ Len(q) \in Nat /\ Len(q) > 0 /\ Len(Tail(q)) = Len(q) - 1
      /\ \A i \in 1..(Len(q) - 1) : Tail(q)[i] = q[i + 1]
      /\ e = q[1] /\ DOMAIN q = 1..Len(q) /\ DOMAIN Tail(q) = 1..(Len(q) - 1)
  BY <1>2, <1>3
<1>5. e.of \in Convs /\ e.type \in {"message", "deleted", "draft"}
  BY <1>4 DEF ClEvent
<1>6. stream' \in ClStream /\ stream'.queue = Tail(q) /\ stream'.untold = stream.untold
  BY <1>2, <1>3, <1>4 DEF ClStream
<1> HIDE DEF e, q
<1>7. \A i \in DOMAIN q : i = 1 \/ \E j \in DOMAIN Tail(q) : Tail(q)[j] = q[i]
  <2> SUFFICES ASSUME NEW i \in DOMAIN q, i # 1 PROVE \E j \in DOMAIN Tail(q) : Tail(q)[j] = q[i]
    OBVIOUS
  <2>1. i - 1 \in 1..(Len(q) - 1) /\ (i - 1) + 1 = i
    BY <1>4
  <2>2. QED BY <1>4, <2>1
<1>8. \A d : Announced(d) => Announced(d)' \/ (e.type = "message" /\ e.of = d)
  <2> SUFFICES ASSUME NEW d, Announced(d), ~(e.type = "message" /\ e.of = d) PROVE Announced(d)'
    OBVIOUS
  <2>1. PICK i \in DOMAIN q : q[i].type = "message" /\ q[i].of = d
    BY DEF Announced, q
  <2>2. i # 1
    BY <1>4, <2>1
  <2>3. PICK j \in DOMAIN Tail(q) : Tail(q)[j] = q[i]
    BY <1>7, <2>2
  <2>4. QED BY <1>6, <2>1, <2>3 DEF Announced
<1>9. \A d : DraftAnnounced(d) => DraftAnnounced(d)' \/ (e.type # "deleted" /\ e.of = d)
  <2> SUFFICES ASSUME NEW d, DraftAnnounced(d), ~(e.type # "deleted" /\ e.of = d) PROVE DraftAnnounced(d)'
    OBVIOUS
  <2>1. PICK i \in DOMAIN q : q[i].type # "deleted" /\ q[i].of = d
    BY DEF DraftAnnounced, q
  <2>2. i # 1
    BY <1>4, <2>1
  <2>3. PICK j \in DOMAIN Tail(q) : Tail(q)[j] = q[i]
    BY <1>7, <2>2
  <2>4. QED BY <1>6, <2>1, <2>3 DEF DraftAnnounced
<1>10. FetchTyped' /\ LoadsMore
       /\ (e.type # "draft" /\ open = e.of => \E n \in LoadPlaces : fetches'[n] = NewLoad("quiet", e.of, 0))
  <2>1. CASE e.type # "draft"
    <3>1. Refreshes(e.of)
      BY <1>2, <2>1
    <3>2. QED BY <1>1, <1>5, <3>1, RefreshStarts DEF InboxTyped, FetchTyped
  <2>2. CASE e.type = "draft"
    BY <1>1, <1>2, <2>2 DEF InboxTyped, FetchTyped, LoadsMore
  <2>3. QED BY <2>1, <2>2
<1>11. AsksTyped' /\ AsksMore
       /\ (e.type # "deleted" /\ open = e.of /\ ~bar.suppressed /\ hybrid => \E n \in AskPlaces : AskBrings(asks'[n], e.of))
  <2>1. CASE e.type # "deleted"
    <3>1. Looks(e.of)
      BY <1>2, <2>1 DEF LooksFor
    <3>2. QED BY <1>1, <1>5, <3>1, LookStarts, ComposerIs DEF ApiTyped
  <2>2. CASE e.type = "deleted"
    BY <1>1, <1>2, <2>2 DEF LooksFor, ComposerTyped, AsksTyped, AsksMore
  <2>3. QED BY <2>1, <2>2
<1>12. ApiTyped' /\ ComposerTyped'
  BY <1>1, <1>2, <1>6, <1>11 DEF ApiTyped, ComposerTyped, AsksTyped
<1>13. \A c : SendOwes(c)' = SendOwes(c)
  BY <1>2 DEF SendOwes
<1>14. InboxTyped' /\ PagesFit' /\ ThreadInv'
  <2>1. Told' /\ Announced(open) => Announced(open)' \/ \E n \in LoadPlaces : fetches'[n] = NewLoad("quiet", open, 0)
    <3> SUFFICES ASSUME Announced(open), ~Announced(open)' PROVE \E n \in LoadPlaces : fetches'[n] = NewLoad("quiet", open, 0)
      OBVIOUS
    <3> PICK o : o = open
      OBVIOUS
    <3>1. ~Announced(o)'
      BY <1>2 DEF Announced
    <3>2. e.type = "message" /\ e.of = open
      BY <1>8, <3>1
    <3>3. QED BY <1>10, <3>2
  <2>2. QED BY <1>2, <1>6, <1>10, <1>12, <1>13, <2>1, PageLoads
<1>15. LogFits'
  BY <1>2, LogFitsRests
<1>16. DraftsFit'
  <2>1. \A d \in Convs : draft[d].n <= draft'[d].n
    BY <1>1, <1>2, DraftIs
  <2>2. \A n \in AskPlaces : asks'[n] = asks[n] \/ asks'[n] = Nothing \/ asks'[n].n = 0
    BY <1>11 DEF AsksMore
  <2>3. QED BY <1>1, <1>2, <1>12, <2>1, <2>2, DraftsGoOn
<1>17. Told' => Told
  BY <1>2, <1>6 DEF Told
<1>18. Told' /\ OnOffer(open)' => OnOffer(open)
  BY <1>2 DEF OnOffer, Held
<1>19. Told' /\ hybrid /\ ~bar.suppressed /\ DraftComing(open) => DraftComing(open)'
  <2> SUFFICES ASSUME hybrid, ~bar.suppressed, DraftComing(open) PROVE DraftComing(open)'
    OBVIOUS
  <2> PICK o : o = open
    OBVIOUS
  <2>1. CASE DraftAnnounced(o)
    <3>1. CASE DraftAnnounced(o)'
      BY <1>2, <3>1 DEF DraftComing, DraftAnnounced
    <3>2. CASE e.type # "deleted" /\ e.of = o
      <4>1. \E n \in AskPlaces : AskBrings(asks'[n], o)
        BY <1>11, <3>2
      <4>2. QED BY <1>2, <4>1 DEF DraftComing, AskBrings
    <3>3. QED BY <1>9, <2>1, <3>1, <3>2
  <2>2. CASE \E n \in AskPlaces : AskBrings(asks[n], o)
    <3>1. \E n \in AskPlaces : AskBrings(asks'[n], o)
      BY <1>11, <2>2, AsksBring
    <3>2. QED BY <1>2, <3>1 DEF DraftComing, AskBrings
  <2>3. CASE calls["generate"] # Nothing /\ calls["generate"].of = open
    BY <1>2, <2>3 DEF DraftComing
  <2>4. QED BY <2>1, <2>2, <2>3 DEF DraftComing, AskBrings
<1>20. BarInv'
  BY <1>1, <1>2, <1>17, <1>18, <1>19, BarGoesOn
<1>21. QED BY <1>12, <1>14, <1>15, <1>16, <1>20, ClInvOf

-----------------------------------------------------------------------------

LEMMA StreamBreaksKeeps ==
  ASSUME ClInv, StreamBreaks, hybrid' = hybrid
  PROVE  ClInv'
<1>1. ApiTyped /\ InboxTyped /\ ComposerTyped /\ LogFits /\ DraftsFit /\ PagesFit /\ ThreadInv /\ BarInv
  BY ClInvIs
<1> HIDE DEF ClInv
<1> DEFINE lost == {stream.queue[i].of : i \in DOMAIN stream.queue}
<1>2. /\ stream' = [open |-> FALSE, queue |-> <<>>, untold |-> stream.untold \union lost]
      /\ UNCHANGED <<log, draft, open, thread, fetches, bar, asks, calls>>
  BY DEF StreamBreaks
<1>3. lost \subseteq Convs /\ stream.untold \subseteq Convs
  <2>1. stream.queue \in Seq(ClEvent) /\ stream.untold \subseteq Convs
    BY <1>1 DEF ApiTyped, ClStream
  <2>2. \A i \in DOMAIN stream.queue : stream.queue[i] \in ClEvent
    BY <2>1
  <2>3. \A i \in DOMAIN stream.queue : stream.queue[i].of \in Convs
    BY <2>2 DEF ClEvent
  <2>4. QED BY <2>1, <2>3
<1>4. \A d : (Announced(d) \/ DraftAnnounced(d)) => d \in lost
  BY DEF Announced, DraftAnnounced
<1> HIDE DEF lost
<1>5. stream' \in ClStream /\ stream'.untold = stream.untold \union lost
  <2>1. <<>> \in Seq(ClEvent)
    OBVIOUS
  <2>2. QED BY <1>2, <1>3, <2>1 DEF ClStream
<1>6. ApiTyped' /\ InboxTyped' /\ ComposerTyped'
  BY <1>1, <1>2, <1>5 DEF ApiTyped, InboxTyped, ComposerTyped
<1>7. LogFits'
  BY <1>2, LogFitsRests
<1>8. DraftsFit'
  BY <1>1, <1>2, <1>6, DraftIs, DraftsGoOn
<1>9. PagesFit'
  BY <1>1, <1>2, <1>6, LogRests, PagesKept DEF InboxTyped, FetchTyped
<1>10. Told' => Told /\ open \notin lost
  BY <1>2, <1>5 DEF Told
<1>11. Told' => \A i : Coming(open, i) => Coming(open, i)'
  BY <1>2, <1>4, <1>10 DEF Coming, Brings
<1>12. FullComing(open) => FullComing(open)'
  BY <1>2 DEF FullComing, IsFull
<1>13. \A d : SendOwes(d)' = SendOwes(d)
  BY <1>2 DEF SendOwes
<1>14. ThreadInv'
  BY <1>1, <1>2, <1>6, <1>10, <1>11, <1>12, <1>13, ThreadStays
<1>15. OnOffer(open)' => OnOffer(open)
  BY <1>2 DEF OnOffer, Held
<1>16. Told' /\ DraftComing(open) => DraftComing(open)'
  BY <1>2, <1>4, <1>10 DEF DraftComing, AskBrings
<1>17. BarInv'
  BY <1>1, <1>2, <1>10, <1>15, <1>16, BarGoesOn
<1>18. QED BY <1>6, <1>7, <1>8, <1>9, <1>14, <1>17, ClInvOf

LEMMA StreamOpensKeeps ==
  ASSUME ClInv, StreamOpens, hybrid' = hybrid
  PROVE  ClInv'
<1>1. ApiTyped /\ InboxTyped /\ ComposerTyped
  BY ClInvIs
<1> HIDE DEF ClInv
<1>2. stream' = [stream EXCEPT !.open = TRUE] /\ UNCHANGED <<log, draft, open, thread, fetches, bar, asks, calls>>
  BY DEF StreamOpens
<1>3. stream' \in ClStream /\ stream'.untold = stream.untold /\ stream'.queue = stream.queue
  BY <1>1, <1>2 DEF ApiTyped, ClStream
<1>4. ApiTyped' /\ ComposerTyped'
  BY <1>1, <1>2, <1>3 DEF ApiTyped, ComposerTyped
<1>5. \A d : SendOwes(d)' = SendOwes(d)
  BY <1>2 DEF SendOwes
<1>6. InboxTyped' /\ PagesFit' /\ ThreadInv'
  BY <1>2, <1>3, <1>4, <1>5, PageSide
<1>7. DraftsFit' /\ BarInv'
  BY <1>2, <1>3, <1>4, BarSide
<1>8. LogFits'
  BY <1>2, LogFitsRests
<1>9. QED BY <1>4, <1>6, <1>7, <1>8, ClInvOf

\* A load starts, and nothing else happens.
LEMMA LoadKeeps ==
  ASSUME ClInv, FetchTyped', LoadsMore, UNCHANGED <<hybrid, log, draft, stream, open, thread, bar, asks, calls>>
  PROVE  ClInv'
<1>1. ApiTyped /\ ComposerTyped
  BY ClInvIs
<1> HIDE DEF ClInv
<1>2. ApiTyped' /\ ComposerTyped'
  BY <1>1 DEF ApiTyped, ComposerTyped
<1>3. \A d : SendOwes(d)' = SendOwes(d)
  BY DEF SendOwes
<1>4. Announced(open) => Announced(open)'
  BY DEF Announced
<1>5. InboxTyped' /\ PagesFit' /\ ThreadInv'
  BY <1>2, <1>3, <1>4, PageLoads
<1>6. DraftsFit' /\ BarInv'
  BY <1>2, BarSide
<1>7. LogFits'
  BY LogFitsRests
<1>8. QED BY <1>2, <1>5, <1>6, <1>7, ClInvOf

LEMMA PollThreadKeeps ==
  ASSUME ClInv, PollThread, hybrid' = hybrid
  PROVE  ClInv'
<1>1. InboxTyped
  BY ClInvIs
<1> HIDE DEF ClInv
<1>2. open # NoConv /\ Refreshes(open) /\ UNCHANGED <<log, draft, stream, open, thread, bar, asks, calls>>
  BY DEF PollThread
<1>3. open \in Convs /\ FetchTyped
  BY <1>1, <1>2 DEF InboxTyped, FetchTyped
<1>4. FetchTyped' /\ LoadsMore
  BY <1>2, <1>3, RefreshStarts
<1>5. QED BY <1>2, <1>4, LoadKeeps

LEMMA LoadOlderKeeps ==
  ASSUME ClInv, LoadOlder, hybrid' = hybrid
  PROVE  ClInv'
<1>1. ApiTyped /\ InboxTyped /\ LogFits
  BY ClInvIs
<1> HIDE DEF ClInv
<1>2. /\ open # NoConv /\ thread.ids # {} /\ FreeLoad # {} /\ fetches' = Starting("older", open, Lowest(thread.ids))
      /\ UNCHANGED <<log, draft, stream, open, thread, bar, asks, calls>>
  BY DEF LoadOlder
<1>3. open \in Convs /\ FetchTyped
  BY <1>1, <1>2 DEF InboxTyped, FetchTyped
<1>4. Lowest(thread.ids) \in Nat
  <2>1. Len(log) \in Nat /\ thread.ids \subseteq 1..Len(log)
    BY <1>1, HeldIs DEF LogFits
  <2>2. Lowest(thread.ids) \in thread.ids
    BY <1>2, <2>1, LowestIs
  <2>3. QED BY <2>1, <2>2
<1>5. FetchTyped' /\ LoadsMore
  BY <1>2, <1>3, <1>4, LoadStarts
<1>6. QED BY <1>2, <1>5, LoadKeeps

\* The page that is answered: the end of the conversation, or of what came before a message of it.
LEMMA PageIs ==
  ASSUME ApiTyped, NEW l \in ClLoad, l.kind = "older" => l.before \in Held(l.of)
  PROVE  Page(l) \in ClLoad /\ Page(l).of = l.of /\ Page(l).kind = l.kind /\ Page(l).upto = Len(log) /\ PageFits(Page(l))
<1>0. PICK more \in BOOLEAN : more = (Cardinality(Within(l)) > PageSize)
  <2>1. Len(log) \in Nat /\ Within(l) \subseteq 1..Len(log)
    BY HeldIs DEF Within
  <2>2. IsFiniteSet(1..Len(log)) /\ Within(l) \in SUBSET (1..Len(log))
    BY <2>1, FS_Interval
  <2>3. Cardinality(Within(l)) \in Nat
    BY <2>2, FS_Subset, FS_CardinalityType
  <2> PICK k \in Nat : k = Cardinality(Within(l))
    BY <2>3
  <2>4. \E b \in BOOLEAN : b = (k > PageSize)
    <3>1. CASE k > PageSize
      <4>1. (k > PageSize) = TRUE
        BY <3>1
      <4>2. QED BY <4>1
    <3>2. CASE ~(k > PageSize)
      <4>1. (k > PageSize) = FALSE
        BY <3>2
      <4>2. QED BY <4>1
    <3>3. QED BY <3>1, <3>2
  <2>5. QED BY <2>4
<1> DEFINE W == Within(l)
           ids == Latest(W)
           p == Page(l)
<1>1. Len(log) \in Nat /\ Held(l.of) \subseteq 1..Len(log)
  BY HeldIs
<1>2. W \subseteq 1..Len(log) /\ W = {i \in Held(l.of) : l.kind = "older" => i < l.before}
  BY <1>1 DEF Within
<1> HIDE DEF W
<1>3. /\ ids \subseteq W /\ \A i \in W, j \in ids : j <= i => i \in ids
      /\ W # {} => ids # {}
  <2>1. ids = Latest(W)
    OBVIOUS
  <2> HIDE DEF ids
  <2>2. W \subseteq 1..Len(log) /\ Len(log) \in Nat
    BY <1>1, <1>2
  <2>3. /\ Latest(W) \subseteq W /\ \A i \in W, j \in Latest(W) : j <= i => i \in Latest(W)
        /\ W # {} => Latest(W) # {}
    BY <2>2, LatestIs
  <2>4. QED BY <2>1, <2>3, Zenon
<1> HIDE DEF ids
<1>4. p = [l EXCEPT !.got = "page", !.ids = ids, !.more = more, !.upto = Len(log)]
  BY <1>0 DEF Page, ids, W
<1> HIDE DEF p
<1>5. ids \in SUBSET Nat
  BY <1>1, <1>2, <1>3
<1>6. /\ p \in ClLoad /\ p.of = l.of /\ p.kind = l.kind /\ p.before = l.before /\ p.ids = ids /\ p.upto = Len(log)
  BY <1>1, <1>4, <1>5 DEF ClLoad
<1>7. ids \subseteq 1..Len(log) /\ \A i \in ids : i \in Held(l.of) /\ log[i].of = l.of
  BY <1>2, <1>3 DEF Held
<1>8. CASE l.kind = "older"
  <2>1. l.before \in Held(l.of) /\ l.before <= Len(log)
    BY <1>1, <1>8
  <2>2. \A i \in ids : i < l.before
    BY <1>2, <1>3, <1>8
  <2>3. \A i \in Held(l.of) : i < l.before => \A j \in ids : j <= i => i \in ids
    BY <1>2, <1>3, <1>8
  <2>4. Before(p)
    BY <1>6, <1>7, <2>1, <2>2, <2>3 DEF Before
  <2>5. PageFits(p)
    BY <1>1, <1>6, <1>7, <1>8, <2>4 DEF PageFits
  <2>6. QED BY <1>6, <2>5 DEF p
<1>9. CASE l.kind # "older"
  <2>1. W = Held(l.of)
    BY <1>2, <1>9
  <2>2. \A i \in ids : i <= Len(log)
    BY <1>1, <1>7
  <2>3. Whole(l.of, ids, Len(log))
    BY <1>3, <1>7, <2>1, <2>2 DEF Whole
  <2>4. PageFits(p)
    BY <1>1, <1>6, <1>7, <1>9, <2>3 DEF PageFits
  <2>5. QED BY <1>6, <2>4 DEF p
<1>10. QED BY <1>8, <1>9

\* A load that is answered brings what it was to bring.
LEMMA AnswerKeeps ==
  ASSUME ClInv, NEW n \in LoadPlaces, NEW l \in ClLoad, fetches[n] # Nothing, fetches' = [fetches EXCEPT ![n] = l],
         l.of = fetches[n].of, l.kind = fetches[n].kind, l.got = "page" => l.upto = Len(log) /\ PageFits(l),
         UNCHANGED <<hybrid, log, draft, stream, open, thread, bar, asks, calls>>
  PROVE  ClInv'
<1>1. ApiTyped /\ InboxTyped /\ ComposerTyped /\ LogFits /\ PagesFit /\ ThreadInv
  BY ClInvIs
<1> HIDE DEF ClInv
<1>2. /\ fetches' \in [LoadPlaces -> ClLoad \union {Nothing}] /\ fetches'[n] = l
      /\ \A m \in LoadPlaces : m # n => fetches'[m] = fetches[m]
  BY <1>1 DEF InboxTyped
<1>3. ApiTyped' /\ InboxTyped' /\ ComposerTyped'
  BY <1>1, <1>2 DEF ApiTyped, InboxTyped, ComposerTyped
<1>4. PagesFit'
  <2> SUFFICES ASSUME NEW m \in LoadPlaces, fetches'[m] # Nothing, fetches'[m].got = "page" PROVE PageFits(fetches[m])'
    BY DEF PagesFit
  <2> PICK x : x = fetches'[m]
    OBVIOUS
  <2>1. PageFits(x)
    <3>1. CASE m = n
      BY <1>2, <3>1
    <3>2. CASE m # n
      BY <1>1, <1>2, <3>2 DEF PagesFit
    <3>3. QED BY <3>1, <3>2
  <2>2. QED BY <2>1 DEF PageFits, Before, Whole, Held
<1>5. l # Nothing
  BY PageSizeIs DEF ClLoad, Nothing
<1>6. \A i \in Held(open) : Coming(open, i) => Coming(open, i)'
  <2> SUFFICES ASSUME NEW i \in Held(open), Coming(open, i) PROVE Coming(open, i)'
    OBVIOUS
  <2>1. CASE Announced(open)
    BY <2>1 DEF Coming, Announced
  <2>2. CASE \E m \in LoadPlaces : Brings(fetches[m], open, i)
    <3>1. PICK m \in LoadPlaces : Brings(fetches[m], open, i)
      BY <2>2
    <3>2. CASE m = n
      <4>1. i <= Len(log)
        BY <1>1, HeldIs
      <4>2. Brings(l, open, i)
        BY <1>5, <3>1, <3>2, <4>1 DEF Brings
      <4>3. QED BY <1>2, <4>2 DEF Coming, Brings
    <3>3. CASE m # n
      BY <1>2, <3>1, <3>3 DEF Coming, Brings
    <3>4. QED BY <3>2, <3>3
  <2>3. QED BY <2>1, <2>2 DEF Coming
<1>7. FullComing(open) => FullComing(open)'
  <2> SUFFICES ASSUME FullComing(open) PROVE FullComing(open)'
    OBVIOUS
  <2>1. PICK m \in LoadPlaces : IsFull(fetches[m], open)
    BY DEF FullComing
  <2>2. IsFull(fetches[m], open)'
    BY <1>2, <1>5, <2>1 DEF IsFull
  <2>3. QED BY <2>2 DEF FullComing
<1>8. Told' => Told
  BY DEF Told
<1>9. Told' => \A i \in Held(open)' : i > thread.upto => Coming(open, i)'
  <2> SUFFICES ASSUME Told', NEW i \in Held(open)', i > thread.upto PROVE Coming(open, i)'
    OBVIOUS
  <2>1. i \in Held(open)
    BY DEF Held
  <2>2. Coming(open, i)
    BY <1>1, <1>8, <2>1 DEF ThreadInv, ThreadFits
  <2>3. QED BY <1>6, <2>1, <2>2
<1>10. ThreadInv'
  <2>1. Replies(open, thread.upto)' = Replies(open, thread.upto) /\ Owing(open)' = Owing(open)
    BY DEF Replies, Held, Owing, SendOwes
  <2>2. /\ thread.bubbles \in Nat /\ thread.ghosts \in Nat /\ Owing(open) \in Nat
        /\ Cardinality(Replies(open, thread.upto)) \in Nat
    BY <1>1, RepliesAre, OwingIs DEF InboxTyped, ClThread, Owing
  <2>3. thread'.bubbles + thread.ghosts + Owing(open) + Cardinality(Replies(open, thread.upto))
             <= thread.bubbles + thread'.ghosts + Owing(open)' + Cardinality(Replies(open, thread.upto))'
    BY <2>1, <2>2
  <2>4. QED BY <1>1, <1>3, <1>7, <1>8, <1>9, <2>3, LogRests, ThreadGoesOn
<1>11. DraftsFit' /\ BarInv'
  BY <1>3, BarSide
<1>12. LogFits'
  BY LogFitsRests
<1>13. QED BY <1>3, <1>4, <1>10, <1>11, <1>12, ClInvOf

LEMMA ServePageKeeps ==
  ASSUME ClInv, NEW n \in LoadPlaces, ServePage(n), hybrid' = hybrid
  PROVE  ClInv'
<1>1. ApiTyped /\ fetches \in [LoadPlaces -> ClLoad \union {Nothing}]
  BY ClInvIs DEF InboxTyped
<1> HIDE DEF ClInv
<1>2. fetches[n] # Nothing /\ UNCHANGED <<log, draft, stream, open, thread, bar, asks, calls>>
  BY DEF ServePage
<1> PICK l : l = fetches[n]
  OBVIOUS
<1>3. l \in ClLoad
  BY <1>1, <1>2
<1>4. CASE /\ fetches[n].kind = "older" => fetches[n].before \in Held(fetches[n].of)
           /\ fetches' = [fetches EXCEPT ![n] = Page(@)]
  <2>1. Page(l) \in ClLoad /\ Page(l).of = l.of /\ Page(l).kind = l.kind /\ Page(l).upto = Len(log) /\ PageFits(Page(l))
    BY <1>1, <1>3, <1>4, PageIs
  <2>2. fetches' = [fetches EXCEPT ![n] = Page(l)]
    BY <1>4
  <2>3. QED BY <1>2, <2>1, <2>2, AnswerKeeps
<1>5. CASE fetches' = [fetches EXCEPT ![n].got = "failed"]
  <2> DEFINE f == [l EXCEPT !.got = "failed"]
  <2>1. f \in ClLoad /\ f.of = l.of /\ f.kind = l.kind /\ f.got # "page"
    BY <1>3 DEF ClLoad
  <2>2. fetches' = [fetches EXCEPT ![n] = f]
    BY <1>1, <1>5
  <2> HIDE DEF f
  <2>3. QED BY <1>2, <2>1, <2>2, AnswerKeeps
<1>6. QED BY <1>4, <1>5 DEF ServePage

-----------------------------------------------------------------------------

LEMMA FetchGone ==
  ASSUME FetchTyped, NEW n \in LoadPlaces, fetches' = [fetches EXCEPT ![n] = Nothing]
  PROVE  FetchTyped' /\ fetches'[n] = Nothing /\ \A m \in LoadPlaces : m # n => fetches'[m] = fetches[m]
  BY DEF FetchTyped

\* A load of another conversation, or that the page is told has failed, is no longer waited for.
LEMMA LoadGoneKeeps ==
  ASSUME ClInv, NEW n \in LoadPlaces, fetches' = [fetches EXCEPT ![n] = Nothing], ApiTyped',
         UNCHANGED <<hybrid, log, draft, open, thread, bar, asks, calls>>,
         stream.untold \subseteq stream'.untold, stream'.queue = stream.queue,
         Told' => fetches[n].of # open \/ fetches[n].kind = "older"
  PROVE  ClInv'
<1>1. ApiTyped /\ InboxTyped /\ ComposerTyped /\ LogFits /\ PagesFit /\ ThreadInv
  BY ClInvIs
<1> HIDE DEF ClInv
<1>2. FetchTyped /\ FetchTyped' /\ fetches'[n] = Nothing /\ \A m \in LoadPlaces : m # n => fetches'[m] = fetches[m]
  BY <1>1, FetchGone DEF InboxTyped, FetchTyped
<1>3. InboxTyped' /\ ComposerTyped'
  BY <1>1, <1>2 DEF InboxTyped, FetchTyped, ComposerTyped
<1>4. PagesFit'
  BY <1>1, <1>2, LogRests, PagesKept
<1>5. Told' => Told
  BY DEF Told
<1>6. Told' => \A i : Coming(open, i) => Coming(open, i)'
  <2> SUFFICES ASSUME Told', NEW i, Coming(open, i) PROVE Coming(open, i)'
    OBVIOUS
  <2>1. CASE Announced(open)
    BY <2>1 DEF Coming, Announced
  <2>2. CASE \E m \in LoadPlaces : Brings(fetches[m], open, i)
    BY <1>2, <2>2 DEF Coming, Brings
  <2>3. QED BY <2>1, <2>2 DEF Coming
<1>7. Told' /\ FullComing(open) => FullComing(open)'
  BY <1>2 DEF FullComing, IsFull
<1>8. \A c : SendOwes(c)' = SendOwes(c)
  BY DEF SendOwes
<1>9. ThreadInv'
  BY <1>1, <1>3, <1>5, <1>6, <1>7, <1>8, ThreadStays
<1>10. DraftsFit' /\ BarInv'
  BY <1>3, BarSide
<1>11. LogFits'
  BY LogFitsRests
<1>12. QED BY <1>3, <1>4, <1>9, <1>10, <1>11, ClInvOf

LEMMA LoadFailsKeeps ==
  ASSUME ClInv, NEW n \in LoadPlaces, LoadFails(n), hybrid' = hybrid
  PROVE  ClInv'
<1>1. ApiTyped /\ InboxTyped
  BY ClInvIs
<1> HIDE DEF ClInv
<1>2. /\ fetches[n] # Nothing /\ fetches' = [fetches EXCEPT ![n] = Nothing]
      /\ stream' = IF fetches[n].kind # "older" THEN [stream EXCEPT !.untold = @ \union {fetches[n].of}] ELSE stream
      /\ UNCHANGED <<log, draft, open, thread, bar, asks, calls>>
  BY DEF LoadFails
<1>3. fetches[n] \in ClLoad /\ fetches[n].of \in Convs
  BY <1>1, <1>2, LoadIs DEF InboxTyped
<1>4. CASE fetches[n].kind # "older"
  <2>1. stream' = [stream EXCEPT !.untold = @ \union {fetches[n].of}]
    BY <1>2, <1>4
  <2>2. stream' \in ClStream /\ stream'.untold = stream.untold \union {fetches[n].of} /\ stream'.queue = stream.queue
    BY <1>1, <1>3, <2>1, UntoldIs DEF ApiTyped
  <2>3. ApiTyped'
    BY <1>1, <1>2, <2>2 DEF ApiTyped
  <2>4. Told' => fetches[n].of # open
    BY <1>2, <2>2 DEF Told
  <2>5. QED BY <1>2, <2>2, <2>3, <2>4, LoadGoneKeeps
<1>5. CASE fetches[n].kind = "older"
  <2>1. ApiTyped'
    BY <1>1, <1>2, <1>5 DEF ApiTyped
  <2>2. QED BY <1>2, <1>5, <2>1, LoadGoneKeeps
<1>6. QED BY <1>4, <1>5

LEMMA HighestIs ==
  ASSUME NEW a \in Nat, NEW b \in Nat
  PROVE  HighestOf(a, b) \in {a, b} /\ HighestOf(a, b) \in Nat /\ a <= HighestOf(a, b) /\ b <= HighestOf(a, b)
  BY DEF HighestOf

\* The page that a quiet load brings joins what is shown, when nothing is missing between them.
LEMMA JoinedWhole ==
  ASSUME ApiTyped, NEW ids \in SUBSET (1..Len(log)), NEW upto \in Nat, NEW new \in SUBSET (1..Len(log)), NEW till \in Nat,
         NEW c, Whole(c, ids, upto), Whole(c, new, till),
         \A i \in Held(c) : upto < i /\ i <= till => \E j \in new : j <= i,
         new # {} => \A i \in Held(c) : till < i /\ i <= upto => \E j \in ids : j <= i
  PROVE  Whole(c, ids \union new, HighestOf(upto, till))
<1> DEFINE m == HighestOf(upto, till)
<1>1. m \in Nat /\ upto <= m /\ till <= m /\ m \in {upto, till}
  BY HighestIs
<1> HIDE DEF m
<1>2. Len(log) \in Nat /\ Held(c) \subseteq 1..Len(log)
  BY HeldIs
<1>3. \A i \in ids \union new : log[i].of = c /\ i <= m
  <2>1. \A i \in ids : log[i].of = c /\ i <= upto
    BY DEF Whole
  <2>2. \A i \in new : log[i].of = c /\ i <= till
    BY DEF Whole
  <2>3. QED BY <1>1, <1>2, <2>1, <2>2
<1>4. \A i \in Held(c) : i <= upto => ids # {} /\ \A j \in ids : j <= i => i \in ids
  BY DEF Whole
<1>5. \A i \in Held(c) : i <= till => new # {} /\ \A j \in new : j <= i => i \in new
  BY DEF Whole
<1>6. \A i \in Held(c) : i <= m => ids \union new # {} /\ \A j \in ids \union new : j <= i => i \in ids \union new
  <2> SUFFICES ASSUME NEW i \in Held(c), i <= m
               PROVE  ids \union new # {} /\ \A j \in ids \union new : j <= i => i \in ids \union new
    OBVIOUS
  <2>1. i \in Nat /\ (i <= upto \/ i <= till) /\ (i <= upto \/ upto < i) /\ (i <= till \/ till < i)
    BY <1>1, <1>2
  <2>2. ids \union new # {}
    BY <1>4, <1>5, <2>1
  <2>3. \A j \in ids \union new : j <= i => i \in ids \union new
    <3> SUFFICES ASSUME NEW j \in ids \union new, j <= i PROVE i \in ids \union new
      OBVIOUS
    <3>1. CASE i <= till /\ upto < i
      <4>1. \E k \in new : k <= i
        BY <3>1
      <4>2. QED BY <1>5, <3>1, <4>1
    <3>2. CASE i <= upto /\ i <= till
      BY <1>4, <1>5, <3>2
    <3>3. CASE i <= upto /\ till < i
      <4>1. CASE j \in ids
        BY <1>4, <3>3, <4>1
      <4>2. CASE j \in new
        <5>1. \E k \in ids : k <= i
          BY <3>3, <4>2
        <5>2. QED BY <1>4, <3>3, <5>1
      <4>3. QED BY <4>1, <4>2
    <3>4. QED BY <2>1, <3>1, <3>2, <3>3
  <2>4. QED BY <2>2, <2>3
<1>7. QED BY <1>3, <1>6 DEF Whole, m

\* An older page goes before the oldest message of what is shown.
LEMMA OlderWhole ==
  ASSUME ApiTyped, NEW ids \in SUBSET (1..Len(log)), NEW upto \in Nat, NEW l \in ClLoad, l.ids \subseteq 1..Len(log),
         Whole(l.of, ids, upto), Before(l), l.before \in ids
  PROVE  Whole(l.of, ids \union l.ids, upto)
<1>1. Len(log) \in Nat /\ Held(l.of) \subseteq 1..Len(log) /\ l.before \in Nat
  BY HeldIs DEF ClLoad
<1>2. \A i \in ids : log[i].of = l.of /\ i <= upto
  BY DEF Whole
<1>3. \A i \in l.ids : log[i].of = l.of /\ i <= upto
  <2> SUFFICES ASSUME NEW i \in l.ids PROVE log[i].of = l.of /\ i <= upto
    OBVIOUS
  <2>1. log[i].of = l.of /\ i < l.before
    BY DEF Before
  <2>2. i \in Nat /\ l.before <= upto
    BY <1>1, <1>2
  <2>3. QED BY <1>1, <2>1, <2>2
<1>4. \A i \in Held(l.of) : i <= upto => ids \union l.ids # {} /\ \A j \in ids \union l.ids : j <= i => i \in ids \union l.ids
  <2> SUFFICES ASSUME NEW i \in Held(l.of), i <= upto, NEW j \in ids \union l.ids, j <= i PROVE i \in ids \union l.ids
    OBVIOUS
  <2>1. \A k \in ids : k <= i => i \in ids
    BY DEF Whole
  <2>2. i < l.before => \A k \in l.ids : k <= i => i \in l.ids
    BY DEF Before
  <2>3. i \in Nat
    BY <1>1
  <2>4. CASE i < l.before
    BY <2>1, <2>2, <2>4
  <2>5. CASE l.before <= i
    BY <2>1, <2>5
  <2>6. QED BY <1>1, <2>3, <2>4, <2>5
<1>5. QED BY <1>2, <1>3, <1>4 DEF Whole

\* Each reply that came with a quiet load has taken the place of an optimistic message.
LEMMA JoinedReplies ==
  ASSUME ApiTyped, NEW ids \in SUBSET (1..Len(log)), NEW upto \in Nat, NEW new \in SUBSET (1..Len(log)), NEW till \in Nat,
         NEW c, Whole(c, ids, upto), Whole(c, new, till),
         \A i \in Held(c) : upto < i /\ i <= till => \E j \in new : j <= i
  PROVE  /\ Cardinality({i \in new \ ids : log[i].out}) \in Nat
         /\ Cardinality(Replies(c, upto))
              <= Cardinality({i \in new \ ids : log[i].out}) + Cardinality(Replies(c, HighestOf(upto, till)))
<1> DEFINE m == HighestOf(upto, till)
           N == {i \in new \ ids : log[i].out}
<1>1. m \in Nat /\ upto <= m /\ till <= m /\ m \in {upto, till}
  BY HighestIs
<1> HIDE DEF m
<1>2. Len(log) \in Nat /\ Held(c) \subseteq 1..Len(log)
  BY HeldIs
<1>3. IsFiniteSet(N) /\ Cardinality(N) \in Nat
  <2>1. IsFiniteSet(1..Len(log))
    BY <1>2, FS_Interval
  <2>2. N \subseteq new
    OBVIOUS
  <2> HIDE DEF N
  <2>3. N \in SUBSET (1..Len(log))
    BY <2>2
  <2>4. QED BY <2>1, <2>3, FS_Subset, FS_CardinalityType
<1>4. IsFiniteSet(Replies(c, m)) /\ Cardinality(Replies(c, m)) \in Nat
  BY RepliesAre
<1>5. Replies(c, upto) \in SUBSET (N \union Replies(c, m))
  <2> SUFFICES ASSUME NEW i \in Replies(c, upto), i \notin Replies(c, m) PROVE i \in N
    OBVIOUS
  <2>1. i \in Held(c) /\ log[i].out /\ upto < i /\ i \in Nat
    BY <1>2 DEF Replies
  <2>2. ~(i > m)
    BY <2>1 DEF Replies
  <2>3. i <= till
    BY <1>1, <2>1, <2>2
  <2>4. \E j \in new : j <= i
    BY <2>1, <2>3
  <2>5. i \in new
    BY <2>1, <2>3, <2>4 DEF Whole
  <2>6. i \notin ids
    <3>1. i \in ids => i <= upto
      BY DEF Whole
    <3>2. QED BY <2>1, <3>1
  <2>7. QED BY <2>1, <2>5, <2>6
<1> HIDE DEF N
<1>6. /\ IsFiniteSet(N \union Replies(c, m))
      /\ Cardinality(N \union Replies(c, m)) = Cardinality(N) + Cardinality(Replies(c, m)) - Cardinality(N \intersect Replies(c, m))
  BY <1>3, <1>4, FS_Union
<1>7. IsFiniteSet(N \intersect Replies(c, m)) /\ Cardinality(N \intersect Replies(c, m)) \in Nat
  BY <1>3, FS_Intersection, FS_CardinalityType
<1>8. Cardinality(Replies(c, upto)) <= Cardinality(N \union Replies(c, m))
  BY <1>5, <1>6, FS_Subset
<1>9. Cardinality(Replies(c, upto)) \in Nat
  BY RepliesAre
<1>10. Cardinality(Replies(c, upto)) <= Cardinality(N) + Cardinality(Replies(c, m))
  BY <1>3, <1>4, <1>6, <1>7, <1>8, <1>9
<1>11. QED BY <1>3, <1>10 DEF N, m

-----------------------------------------------------------------------------

LEMMA MisledNot ==
  ASSUME ApiTyped, NEW seen \in Nat, NEW upto, NEW ids \in SUBSET (1..Len(log)), ~Misses(seen, upto, ids)
  PROVE  \A i \in Held(open) : seen < i /\ i <= upto => \E j \in ids : j <= i
<1> SUFFICES ASSUME NEW i \in Held(open), seen < i, i <= upto PROVE \E j \in ids : j <= i
  OBVIOUS
<1>1. \E j \in ids : ~(i < j)
  BY DEF Misses
<1>2. i \in Nat /\ \A j \in ids : j \in Nat
  BY HeldIs
<1>3. QED BY <1>1, <1>2

\* What the thread holds after an answer: the same things are true of it.
LEMMA MergedFits ==
  ASSUME ApiTyped, InboxTyped, LogFits, ThreadFits(open), open \in Convs,
         NEW l \in ClLoad, l.of = open, PageFits(l), ~Overtaken(l)
  PROVE  LET t == Merged(l) IN
         /\ t \in ClThread /\ t.ids \subseteq 1..Len(log) /\ t.upto <= Len(log)
         /\ thread.upto <= t.upto
         /\ l.kind # "older" => l.upto <= t.upto
         /\ t.stale => thread.stale /\ l.kind # "full"
         /\ ~t.stale => Whole(open, t.ids, t.upto) /\ t.bubbles <= t.ghosts + Owing(open) + Cardinality(Replies(open, t.upto))
<1> DEFINE t == Merged(l)
           ids == thread.ids
           upto == thread.upto
           m == HighestOf(upto, l.upto)
<1>1. /\ thread \in ClThread /\ ids \in SUBSET (1..Len(log)) /\ upto \in Nat /\ upto <= Len(log) /\ Len(log) \in Nat
      /\ thread.bubbles \in Nat /\ thread.ghosts \in Nat /\ thread.more \in BOOLEAN /\ thread.stale \in BOOLEAN
  BY HeldIs DEF InboxTyped, ClThread, LogFits
<1>2. /\ l.ids \in SUBSET (1..Len(log)) /\ l.upto \in Nat /\ l.upto <= Len(log) /\ l.more \in BOOLEAN
      /\ l.kind \in {"full", "quiet", "older"}
  BY DEF PageFits, ClLoad
<1>3. m \in Nat /\ upto <= m /\ l.upto <= m /\ m <= Len(log)
  BY <1>1, <1>2, HighestIs
<1>4. ~thread.stale => Whole(open, ids, upto) /\ thread.bubbles <= thread.ghosts + Owing(open) + Cardinality(Replies(open, upto))
  BY DEF ThreadFits
<1>5. Owing(open) \in Nat
  BY OwingIs DEF Owing
<1>6. ids \in SUBSET Nat /\ l.ids \in SUBSET Nat
  BY <1>1, <1>2
<1> HIDE DEF t, m, ids, upto
<1> SUFFICES /\ t \in ClThread /\ t.ids \subseteq 1..Len(log) /\ t.upto <= Len(log)
             /\ upto <= t.upto
             /\ l.kind # "older" => l.upto <= t.upto
             /\ t.stale => thread.stale /\ l.kind # "full"
             /\ ~t.stale => Whole(open, t.ids, t.upto) /\ t.bubbles <= t.ghosts + Owing(open) + Cardinality(Replies(open, t.upto))
  BY Zenon DEF t, upto
<1>7. CASE l.kind = "full"
  <2>1. t = [ids |-> l.ids, bubbles |-> 0, ghosts |-> 0, more |-> l.more, stale |-> FALSE, upto |-> l.upto]
    BY <1>7 DEF t, Merged
  <2>2. /\ t \in ClThread /\ t.ids = l.ids /\ t.bubbles = 0 /\ t.ghosts = 0 /\ t.stale = FALSE /\ t.upto = l.upto
    BY <1>2, <1>6, <2>1 DEF ClThread
  <2>3. ~(l.upto < upto)
    BY <1>7 DEF Overtaken, upto
  <2>4. Whole(open, l.ids, l.upto)
    BY <1>7 DEF PageFits
  <2>5. Cardinality(Replies(open, l.upto)) \in Nat
    BY RepliesAre
  <2>6. QED BY <1>1, <1>2, <1>5, <1>7, <2>2, <2>3, <2>4, <2>5
<1>8. CASE l.kind = "quiet"
  <2> DEFINE N == Cardinality(NewReplies(l))
             b == HighestOf(0, thread.bubbles - N)
  <2>1. t = [thread EXCEPT !.ids = ids \union l.ids, !.bubbles = b, !.more = l.more, !.upto = m]
    BY <1>8 DEF t, Merged, ids, upto, m
  <2>2. Whole(open, l.ids, l.upto)
    BY <1>8 DEF PageFits
  <2>3. N \in Nat
    <3>1. NewReplies(l) \subseteq l.ids
      BY DEF NewReplies
    <3>2. NewReplies(l) \in SUBSET (1..Len(log))
      BY <1>2, <3>1
    <3>3. IsFiniteSet(1..Len(log))
      BY <1>1, FS_Interval
    <3>4. QED BY <3>2, <3>3, FS_Subset, FS_CardinalityType
  <2>4. b \in Nat /\ (b = 0 \/ b = thread.bubbles - N)
    BY <1>1, <2>3 DEF HighestOf
  <2> HIDE DEF N, b
  <2>5. /\ t \in ClThread /\ t.ids = ids \union l.ids /\ t.bubbles = b /\ t.ghosts = thread.ghosts /\ t.stale = thread.stale
        /\ t.upto = m
    BY <1>1, <1>2, <1>3, <1>6, <2>1, <2>4 DEF ClThread
  <2>6. ~thread.stale => Whole(open, ids \union l.ids, m) /\ b <= thread.ghosts + Owing(open) + Cardinality(Replies(open, m))
    <3> SUFFICES ASSUME ~thread.stale
                 PROVE  Whole(open, ids \union l.ids, m) /\ b <= thread.ghosts + Owing(open) + Cardinality(Replies(open, m))
      OBVIOUS
    <3>1. ~Misses(upto, l.upto, l.ids) /\ (l.ids # {} => ~Misses(l.upto, upto, ids))
      BY <1>8 DEF Overtaken, ids, upto
    <3>2. \A i \in Held(open) : upto < i /\ i <= l.upto => \E j \in l.ids : j <= i
      BY <1>1, <1>2, <3>1, MisledNot
    <3>3. l.ids # {} => \A i \in Held(open) : l.upto < i /\ i <= upto => \E j \in ids : j <= i
      BY <1>1, <1>2, <3>1, MisledNot
    <3>4. Whole(open, ids, upto) /\ thread.bubbles <= thread.ghosts + Owing(open) + Cardinality(Replies(open, upto))
      BY <1>4
    <3>5. Whole(open, ids \union l.ids, m)
      BY <1>1, <1>2, <2>2, <3>2, <3>3, <3>4, JoinedWhole DEF m
    <3>6. Cardinality(Replies(open, upto)) <= N + Cardinality(Replies(open, m))
      <4>1. NewReplies(l) = {i \in l.ids \ ids : log[i].out}
        BY DEF NewReplies, ids
      <4>2. Cardinality(Replies(open, upto))
              <= Cardinality({i \in l.ids \ ids : log[i].out}) + Cardinality(Replies(open, m))
        BY <1>1, <1>2, <2>2, <3>2, <3>4, JoinedReplies DEF m
      <4>3. QED BY <4>1, <4>2 DEF N
    <3>7. Cardinality(Replies(open, upto)) \in Nat /\ Cardinality(Replies(open, m)) \in Nat
      BY RepliesAre
    <3>8. b <= thread.ghosts + Owing(open) + Cardinality(Replies(open, m))
      <4>1. PICK before \in Nat, after \in Nat :
              before = Cardinality(Replies(open, upto)) /\ after = Cardinality(Replies(open, m))
        BY <3>7
      <4>2. PICK owing \in Nat : owing = Owing(open)
        BY <1>5
      <4>3. PICK old \in Nat, ghosts \in Nat : old = thread.bubbles /\ ghosts = thread.ghosts
        BY <1>1 DEF ClThread
      <4>4. old <= ghosts + owing + before /\ before <= N + after /\ (b = 0 \/ b = old - N)
        BY <2>4, <3>4, <3>6, <4>1, <4>2, <4>3
      <4>5. b <= ghosts + owing + after
        BY <2>3, <2>4, <4>4
      <4>6. QED BY <4>1, <4>2, <4>3, <4>5
    <3>9. QED BY <3>5, <3>8
  <2>7. ids \union l.ids \subseteq 1..Len(log)
    BY <1>1, <1>2
  <2>8. QED BY <1>3, <1>8, <2>5, <2>6, <2>7
<1>9. CASE l.kind = "older"
  <2>1. t = [thread EXCEPT !.ids = ids \union l.ids, !.more = l.more]
    BY <1>9 DEF t, Merged, ids
  <2>2. /\ t \in ClThread /\ t.ids = ids \union l.ids /\ t.bubbles = thread.bubbles /\ t.ghosts = thread.ghosts
        /\ t.stale = thread.stale /\ t.upto = upto
    BY <1>1, <1>2, <1>6, <2>1 DEF ClThread, upto
  <2>3. ~thread.stale => Whole(open, ids \union l.ids, upto)
    <3> SUFFICES ASSUME ~thread.stale PROVE Whole(open, ids \union l.ids, upto)
      OBVIOUS
    <3>1. l.before \in ids
      BY <1>9 DEF Overtaken, ids
    <3>2. Before(l)
      BY <1>9 DEF PageFits
    <3>3. QED BY <1>1, <1>2, <1>4, <3>1, <3>2, OlderWhole
  <2>4. ids \union l.ids \subseteq 1..Len(log)
    BY <1>1, <1>2
  <2>5. QED BY <1>1, <1>4, <1>9, <2>2, <2>3, <2>4
<1>10. QED BY <1>2, <1>7, <1>8, <1>9

\* Overtaken or not, what the thread holds are messages.
LEMMA MergedTyped ==
  ASSUME ApiTyped, InboxTyped, LogFits, NEW l \in ClLoad, PageFits(l)
  PROVE  Merged(l) \in ClThread /\ Merged(l).ids \subseteq 1..Len(log) /\ Merged(l).upto <= Len(log)
<1> DEFINE t == Merged(l)
           ids == thread.ids
           m == HighestOf(thread.upto, l.upto)
<1>1. /\ thread \in ClThread /\ ids \in SUBSET (1..Len(log)) /\ thread.upto \in Nat /\ thread.upto <= Len(log) /\ Len(log) \in Nat
      /\ thread.bubbles \in Nat
  BY HeldIs DEF InboxTyped, ClThread, LogFits
<1>2. /\ l.ids \in SUBSET (1..Len(log)) /\ l.upto \in Nat /\ l.upto <= Len(log) /\ l.more \in BOOLEAN
      /\ l.kind \in {"full", "quiet", "older"}
  BY DEF PageFits, ClLoad
<1>3. m \in Nat /\ m <= Len(log)
  BY <1>1, <1>2, HighestIs
<1>4. ids \in SUBSET Nat /\ l.ids \in SUBSET Nat /\ ids \union l.ids \in SUBSET Nat /\ ids \union l.ids \subseteq 1..Len(log)
  BY <1>1, <1>2
<1> HIDE DEF t, m, ids
<1>5. CASE l.kind = "full"
  <2>1. t = [ids |-> l.ids, bubbles |-> 0, ghosts |-> 0, more |-> l.more, stale |-> FALSE, upto |-> l.upto]
    BY <1>5 DEF t, Merged
  <2>2. t \in ClThread /\ t.ids = l.ids /\ t.upto = l.upto
    BY <1>2, <1>4, <2>1 DEF ClThread
  <2>3. QED BY <1>2, <2>2 DEF t
<1>6. CASE l.kind = "quiet"
  <2> DEFINE b == HighestOf(0, thread.bubbles - Cardinality(NewReplies(l)))
  <2>1. t = [thread EXCEPT !.ids = ids \union l.ids, !.bubbles = b, !.more = l.more, !.upto = m]
    BY <1>6 DEF t, Merged, ids, m
  <2>2. b \in Nat
    <3>1. NewReplies(l) \subseteq l.ids
      BY DEF NewReplies
    <3>2. NewReplies(l) \in SUBSET (1..Len(log))
      BY <1>2, <3>1
    <3>3. IsFiniteSet(1..Len(log))
      BY <1>1, FS_Interval
    <3>4. Cardinality(NewReplies(l)) \in Nat
      BY <3>2, <3>3, FS_Subset, FS_CardinalityType
    <3>5. QED BY <1>1, <3>4 DEF HighestOf
  <2> HIDE DEF b
  <2>3. t \in ClThread /\ t.ids = ids \union l.ids /\ t.upto = m
    BY <1>1, <1>2, <1>3, <1>4, <2>1, <2>2 DEF ClThread
  <2>4. QED BY <1>3, <1>4, <2>3 DEF t
<1>7. CASE l.kind = "older"
  <2>1. t = [thread EXCEPT !.ids = ids \union l.ids, !.more = l.more]
    BY <1>7 DEF t, Merged, ids
  <2>2. t \in ClThread /\ t.ids = ids \union l.ids /\ t.upto = thread.upto
    BY <1>1, <1>2, <1>4, <2>1 DEF ClThread
  <2>3. QED BY <1>1, <1>4, <2>2 DEF t
<1>8. QED BY <1>2, <1>5, <1>6, <1>7

-----------------------------------------------------------------------------

\* A thread that is as it should be, said of its parts.
ThreadIsFit(c, t) ==
  /\ t.stale => FullComing(c)
  /\ ~t.stale => Whole(c, t.ids, t.upto) /\ t.bubbles <= t.ghosts + Owing(c) + Cardinality(Replies(c, t.upto))

LEMMA ThreadIsFitThen ==
  ASSUME NEW c, NEW t, open' = c, thread' = t, \A i \in Held(c)' : i > t.upto => Coming(c, i)', ThreadIsFit(c, t)'
  PROVE  ThreadInv'
<1>1. \A i \in Held(open)' : i > thread'.upto => Coming(open, i)'
  BY DEF Held, Coming, Announced, Brings
<1>2. thread'.stale => FullComing(open)'
  BY DEF ThreadIsFit, FullComing, IsFull
<1>3. ~thread'.stale => Whole(open, thread.ids, thread.upto)'
  BY DEF ThreadIsFit, Whole, Held
<1>4. ~thread'.stale => (thread.bubbles <= thread.ghosts + Owing(open) + Cardinality(Replies(open, thread.upto)))'
  BY DEF ThreadIsFit, Owing, SendOwes, Replies, Held
<1>5. ThreadFits(open)'
  BY <1>1, <1>2, <1>3, <1>4 DEF ThreadFits
<1>6. QED BY <1>5 DEF ThreadInv

\* An answer of the open conversation joins the thread.
LEMMA OwnPageLands ==
  ASSUME ClInv, NEW n \in LoadPlaces, NEW l, fetches[n] = l, l # Nothing, l.got = "page", l.of = open, LandPage(n), hybrid' = hybrid
  PROVE  ClInv'
<1>1. ApiTyped /\ InboxTyped /\ ComposerTyped /\ LogFits /\ DraftsFit /\ PagesFit /\ ThreadInv /\ BarInv
  BY ClInvIs
<1> HIDE DEF ClInv
<1>2. /\ fetches' = [fetches EXCEPT ![n] = Nothing] /\ thread' = Merged(l)
      /\ stream' = (IF Overtaken(l) THEN [stream EXCEPT !.untold = @ \union {open}] ELSE stream)
      /\ \/ bar' = [bar EXCEPT !.suppressed = FALSE] /\ AsksFor(open)
         \/ UNCHANGED <<bar, asks>>
      /\ UNCHANGED <<log, draft, open, calls>>
  BY DEF LandPage
<1>3. l \in ClLoad /\ open \in Convs
  BY <1>1, LoadIs DEF InboxTyped
<1>4. PageFits(l)
  BY <1>1 DEF PagesFit
<1>5. FetchTyped /\ FetchTyped' /\ fetches'[n] = Nothing /\ \A m \in LoadPlaces : m # n => fetches'[m] = fetches[m]
  BY <1>1, <1>2, FetchGone DEF InboxTyped, FetchTyped
<1>6. /\ stream' \in ClStream /\ stream'.queue = stream.queue /\ stream.untold \subseteq stream'.untold
      /\ Overtaken(l) => open \in stream'.untold
  <2>1. CASE Overtaken(l)
    <3>1. stream' = [stream EXCEPT !.untold = @ \union {open}]
      BY <1>2, <2>1
    <3>2. stream' \in ClStream /\ stream'.untold = stream.untold \union {open} /\ stream'.queue = stream.queue
      BY <1>1, <1>3, <3>1, UntoldIs DEF ApiTyped
    <3>3. QED BY <3>2
  <2>2. CASE ~Overtaken(l)
    BY <1>1, <1>2, <2>2 DEF ApiTyped
  <2>3. QED BY <2>1, <2>2
<1>7. /\ bar' \in ClBar /\ bar'.draft = bar.draft /\ bar'.astray = bar.astray /\ bar'.turned = bar.turned
      /\ bar'.suppressed = bar.suppressed \/ AsksFor(open)
      /\ AsksTyped' /\ AsksMore /\ (AsksFor(open) /\ hybrid => \E k \in AskPlaces : AskBrings(asks'[k], open))
  <2>1. bar \in ClBar /\ bar.last \in ClText /\ AsksTyped /\ hybrid \in BOOLEAN
    BY <1>1, ComposerIs DEF ApiTyped
  <2>2. CASE bar' = [bar EXCEPT !.suppressed = FALSE] /\ AsksFor(open)
    <3>1. bar' \in ClBar /\ bar'.draft = bar.draft /\ bar'.astray = bar.astray /\ bar'.turned = bar.turned
      BY <2>1, <2>2 DEF ClBar
    <3>2. AsksTyped' /\ AsksMore /\ (hybrid => \E k \in AskPlaces : AskBrings(asks'[k], open))
      BY <1>3, <2>1, <2>2, AskStarts
    <3>3. QED BY <2>2, <3>1, <3>2
  <2>3. CASE UNCHANGED <<bar, asks>>
    <3>1. AsksTyped' /\ AsksMore
      BY <2>1, <2>3 DEF AsksTyped, AsksMore
    <3>2. ASSUME AsksFor(open) PROVE hybrid => \E k \in AskPlaces : AskBrings(asks'[k], open)
      BY <1>3, <2>1, <3>2, AskStarts
    <3>3. QED BY <2>1, <2>3, <3>1, <3>2
  <2>4. QED BY <1>2, <2>2, <2>3
<1>8. ApiTyped' /\ ComposerTyped'
  BY <1>1, <1>2, <1>6, <1>7 DEF ApiTyped, ComposerTyped, AsksTyped
<1>9. Told' => Told /\ ~Overtaken(l)
  BY <1>2, <1>6 DEF Told
<1>10. DraftsFit'
  <2>1. \A d \in Convs : draft[d].n <= draft'[d].n
    BY <1>1, <1>2, DraftIs
  <2>2. \A k \in AskPlaces : asks'[k] = asks[k] \/ asks'[k] = Nothing \/ asks'[k].n = 0
    BY <1>7 DEF AsksMore
  <2>3. QED BY <1>1, <1>2, <1>7, <1>8, <2>1, <2>2, DraftsGoOn
<1>11. PagesFit'
  BY <1>1, <1>2, <1>5, <1>8, LogRests, PagesKept
<1>12. BarInv'
  <2> PICK o : o = open
    OBVIOUS
  <2>1. bar'.draft # Nothing /\ ~bar'.astray => bar'.draft.of = open'
    BY <1>1, <1>2, <1>7 DEF BarInv
  <2>2. DraftComing(open) => DraftComing(open)'
    <3>1. (\E k \in AskPlaces : AskBrings(asks[k], o)) => \E k \in AskPlaces : AskBrings(asks'[k], o)
      BY <1>7, AsksBring
    <3>2. QED BY <1>2, <1>6, <3>1 DEF DraftComing, DraftAnnounced, AskBrings
  <2>3. AsksFor(open) /\ hybrid => DraftComing(open)'
    BY <1>2, <1>7 DEF DraftComing, AskBrings
  <2>4. OnOffer(open)' => OnOffer(open)
    BY <1>2 DEF OnOffer, Held
  <2>5. QED BY <1>1, <1>7, <1>9, <2>1, <2>2, <2>3, <2>4 DEF BarInv
<1>13. ASSUME thread' \in ClThread, thread'.ids \subseteq 1..Len(log), thread'.upto <= Len(log)
       PROVE  InboxTyped' /\ LogFits'
  BY <1>1, <1>2, <1>5, <1>13 DEF InboxTyped, FetchTyped, LogFits
<1>14. thread' \in ClThread /\ thread'.ids \subseteq 1..Len(log) /\ thread'.upto <= Len(log)
  BY <1>1, <1>2, <1>3, <1>4, MergedTyped
<1>15. ThreadInv'
  <2> SUFFICES ASSUME Told' PROVE ThreadInv'
    BY DEF ThreadInv
  <2>1. ThreadFits(open) /\ ~Overtaken(l)
    BY <1>1, <1>9 DEF ThreadInv
  <2> PICK t, o : t = Merged(l) /\ o = open
    OBVIOUS
  <2>2. /\ t \in ClThread /\ thread.upto <= t.upto
        /\ l.kind # "older" => l.upto <= t.upto
        /\ t.stale => thread.stale /\ l.kind # "full"
        /\ ~t.stale => Whole(o, t.ids, t.upto) /\ t.bubbles <= t.ghosts + Owing(o) + Cardinality(Replies(o, t.upto))
    BY <1>1, <1>3, <1>4, <2>1, MergedFits
  <2>3. \A i \in Held(o)' : i > t.upto => Coming(o, i)'
    <3> SUFFICES ASSUME NEW i \in Held(o)', i > t.upto PROVE Coming(o, i)'
      OBVIOUS
    <3>1. i \in Held(open) /\ i \in Nat
      <4>1. i \in Held(open)
        BY <1>2 DEF Held
      <4>2. QED BY <1>1, <4>1, HeldIs
    <3>2. thread.upto \in Nat /\ t.upto \in Nat /\ l.upto \in Nat
      BY <1>1, <1>3, <2>2 DEF InboxTyped, ClThread, ClLoad
    <3>3. i > thread.upto /\ (l.kind # "older" => i > l.upto)
      BY <2>2, <3>1, <3>2
    <3>4. Coming(open, i)
      BY <2>1, <3>1, <3>3 DEF ThreadFits
    <3>5. ~Brings(l, open, i)
      BY <3>1, <3>2, <3>3 DEF Brings
    <3>6. CASE Announced(open)
      BY <1>6, <3>6 DEF Coming, Announced
    <3>7. CASE \E m \in LoadPlaces : Brings(fetches[m], open, i)
      <4>1. PICK m \in LoadPlaces : Brings(fetches[m], open, i)
        BY <3>7
      <4>2. fetches'[m] = fetches[m]
        BY <1>5, <3>5, <4>1
      <4>3. QED BY <4>1, <4>2 DEF Coming, Brings
    <3>8. QED BY <3>4, <3>6, <3>7 DEF Coming
  <2>4. t.stale => FullComing(o)'
    <3> SUFFICES ASSUME t.stale PROVE FullComing(o)'
      OBVIOUS
    <3>1. FullComing(open) /\ l.kind # "full"
      BY <2>1, <2>2 DEF ThreadFits
    <3>2. PICK m \in LoadPlaces : IsFull(fetches[m], open)
      BY <3>1 DEF FullComing
    <3>3. fetches'[m] = fetches[m]
      BY <1>5, <3>1, <3>2 DEF IsFull
    <3>4. QED BY <3>2, <3>3 DEF FullComing, IsFull
  <2>5. ~t.stale => Whole(o, t.ids, t.upto)'
    BY <1>2, <2>2 DEF Whole, Held
  <2>6. ~t.stale => (t.bubbles <= t.ghosts + Owing(o) + Cardinality(Replies(o, t.upto)))'
    BY <1>2, <2>2 DEF Owing, SendOwes, Replies, Held
  <2>7. ThreadIsFit(o, t)'
    BY <2>4, <2>5, <2>6 DEF ThreadIsFit
  <2>8. open' = o /\ thread' = t
    BY <1>2
  <2>9. QED BY <2>3, <2>7, <2>8, ThreadIsFitThen
<1>16. QED BY <1>8, <1>10, <1>11, <1>12, <1>13, <1>14, <1>15, ClInvOf

LEMMA LandPageKeeps ==
  ASSUME ClInv, NEW n \in LoadPlaces, LandPage(n), hybrid' = hybrid
  PROVE  ClInv'
<1>1. fetches[n] # Nothing /\ fetches[n].got = "page"
  BY DEF LandPage
<1>2. CASE fetches[n].of = open
  BY <1>1, <1>2, OwnPageLands
<1>3. CASE fetches[n].of # open
  <2>1. ApiTyped
    BY ClInvIs
  <2> HIDE DEF ClInv
  <2>2. /\ fetches' = [fetches EXCEPT ![n] = Nothing]
        /\ UNCHANGED <<log, draft, stream, open, thread, bar, asks, calls>>
    BY <1>3 DEF LandPage
  <2>3. ApiTyped'
    BY <2>1, <2>2 DEF ApiTyped
  <2>4. QED BY <1>3, <2>2, <2>3, LoadGoneKeeps
<1>4. QED BY <1>2, <1>3

-----------------------------------------------------------------------------

LEMMA CallGoes ==
  ASSUME calls \in [CallNames -> ClCall \union {Nothing}], NEW k \in CallNames, NEW x \in ClCall \union {Nothing},
         calls' = [calls EXCEPT ![k] = x]
  PROVE  /\ calls' \in [CallNames -> ClCall \union {Nothing}] /\ calls'[k] = x
         /\ \A j \in CallNames : j # k => calls'[j] = calls[j]
  OBVIOUS

LEMMA CallIs ==
  ASSUME ComposerTyped, NEW k \in CallNames, calls[k] # Nothing
  PROVE  /\ calls[k] \in ClCall /\ calls[k].of \in Convs /\ calls[k].draft \in ClMade \union {Nothing}
  BY DEF ComposerTyped, ClCall

LEMMA AskIs ==
  ASSUME ComposerTyped, NEW n \in AskPlaces, asks[n] # Nothing
  PROVE  asks[n] \in ClAsk /\ asks[n].of \in Convs /\ asks[n].n \in Nat /\ asks[n].last \in ClText
  BY DEF ComposerTyped, ClAsk

LEMMA MadeIs ==
  ASSUME NEW d \in ClMade
  PROVE  d # Nothing
  BY PageSizeIs DEF ClMade, Nothing

\* The text alone: nothing depends on it.
LEMMA WritesKeeps ==
  ASSUME ClInv, NEW text \in ClText, Writes(text), hybrid' = hybrid
  PROVE  ClInv'
<1>1. ApiTyped /\ ComposerTyped /\ InboxTyped /\ DraftsFit /\ BarInv
  BY ClInvIs
<1> HIDE DEF ClInv
<1>2. bar' = [bar EXCEPT !.text = text] /\ UNCHANGED <<log, draft, stream, open, thread, fetches, asks, calls>>
  BY DEF Writes
<1>3. /\ bar' \in ClBar /\ bar'.draft = bar.draft /\ bar'.astray = bar.astray /\ bar'.turned = bar.turned
      /\ bar'.suppressed = bar.suppressed
  BY <1>1, <1>2 DEF ComposerTyped, ClBar
<1>4. ApiTyped' /\ ComposerTyped'
  BY <1>1, <1>2, <1>3 DEF ApiTyped, ComposerTyped
<1>5. \A d : SendOwes(d)' = SendOwes(d)
  BY <1>2 DEF SendOwes
<1>6. InboxTyped' /\ PagesFit' /\ ThreadInv'
  BY <1>2, <1>4, <1>5, PageSide
<1>7. DraftsFit'
  BY <1>1, <1>2, <1>3, <1>4, DraftIs, DraftsGoOn
<1>8. BarInv'
  <2>1. OnOffer(open)' => OnOffer(open)
    BY <1>2 DEF OnOffer, Held
  <2>2. DraftComing(open) => DraftComing(open)'
    BY <1>2 DEF DraftComing, DraftAnnounced, AskBrings
  <2>3. Told' => Told
    BY <1>2 DEF Told
  <2>4. QED BY <1>1, <1>2, <1>3, <2>1, <2>2, <2>3, BarGoesOn
<1>9. LogFits'
  BY <1>2, LogFitsRests
<1>10. QED BY <1>4, <1>6, <1>7, <1>8, <1>9, ClInvOf

\* The draft on offer is what the answer says.
LEMMA ServeAskKeeps ==
  ASSUME ClInv, NEW n \in AskPlaces, ServeAsk(n), hybrid' = hybrid
  PROVE  ClInv'
<1>1. ApiTyped /\ ComposerTyped /\ InboxTyped /\ LogFits /\ DraftsFit /\ BarInv
  BY ClInvIs
<1> HIDE DEF ClInv
<1>2. asks[n] # Nothing /\ asks[n].got = "pending" /\ UNCHANGED <<log, draft, open, thread, fetches, bar, calls>>
  BY DEF ServeAsk
<1> PICK a, c : a = asks[n] /\ c = asks[n].of
  OBVIOUS
<1>3. a \in ClAsk /\ c \in Convs /\ a.of = c
  BY <1>1, <1>2, AskIs
<1>4. /\ draft[c].n \in Nat /\ (OnOffer(c) => draft[c].n > 0)
  <2>1. draft[c].n \in Nat /\ (draft[c].live => draft[c].n > 0)
    BY <1>1, <1>3, DraftIs DEF LogFits
  <2>2. QED BY <2>1 DEF OnOffer
<1>5. \A d : SendOwes(d)' = SendOwes(d)
  BY <1>2 DEF SendOwes
<1>6. LogFits'
  BY <1>2, LogFitsRests
<1>7. OnOffer(open)' => OnOffer(open)
  BY <1>2 DEF OnOffer, Held
<1>8. ASSUME asks' = [asks EXCEPT ![n].got = "answer", ![n].n = IF OnOffer(c) THEN draft[c].n ELSE 0], UNCHANGED stream
      PROVE  ClInv'
  <2> PICK k : k = (IF OnOffer(c) THEN draft[c].n ELSE 0)
    OBVIOUS
  <2>1. k \in Nat /\ k <= draft[c].n /\ (OnOffer(c) => k # 0)
    BY <1>4
  <2> DEFINE b == [a EXCEPT !.got = "answer", !.n = k]
  <2>2. b \in ClAsk /\ b.of = c /\ b.n = k /\ b.got = "answer"
    BY <1>3, <2>1 DEF ClAsk
  <2>3. asks' = [asks EXCEPT ![n] = b]
    <3>1. asks \in [AskPlaces -> ClAsk \union {Nothing}]
      BY <1>1 DEF ComposerTyped
    <3>2. QED BY <1>8, <3>1
  <2> HIDE DEF b
  <2>4. /\ asks' \in [AskPlaces -> ClAsk \union {Nothing}] /\ asks'[n] = b
        /\ \A j \in AskPlaces : j # n => asks'[j] = asks[j]
    BY <1>1, <2>2, <2>3 DEF ComposerTyped
  <2>5. b # Nothing
    BY <1>3, <2>2, PageSizeIs DEF Nothing
  <2>6. ApiTyped' /\ ComposerTyped'
    BY <1>1, <1>2, <1>8, <2>4 DEF ApiTyped, ComposerTyped
  <2>7. InboxTyped' /\ PagesFit' /\ ThreadInv'
    BY <1>2, <1>5, <1>8, <2>6, PageSide
  <2>8. DraftsFit'
    <3>1. bar'.draft # Nothing => RealDraft(bar.draft)'
      BY <1>1, <1>2 DEF DraftsFit, RealDraft
    <3>2. \A j \in AskPlaces : asks'[j] # Nothing => asks'[j].n <= draft'[asks'[j].of].n
      BY <1>1, <1>2, <2>1, <2>2, <2>4 DEF DraftsFit
    <3>3. QED BY <1>1, <1>2, <3>1, <3>2 DEF DraftsFit
  <2>9. Told' => Told
    BY <1>2, <1>8 DEF Told
  <2>10. OnOffer(open) /\ DraftComing(open) => DraftComing(open)'
    <3> SUFFICES ASSUME OnOffer(open), DraftComing(open) PROVE DraftComing(open)'
      OBVIOUS
    <3>1. CASE \E j \in AskPlaces : AskBrings(asks[j], open)
      <4>1. PICK j \in AskPlaces : AskBrings(asks[j], open)
        BY <3>1
      <4>2. AskBrings(asks[j], open)'
        <5>1. CASE j = n
          <6>1. c = open /\ k # 0
            BY <2>1, <4>1, <5>1 DEF AskBrings
          <6>2. QED BY <1>2, <2>2, <2>4, <2>5, <5>1, <6>1 DEF AskBrings
        <5>2. CASE j # n
          BY <1>2, <2>4, <4>1, <5>2 DEF AskBrings
        <5>3. QED BY <5>1, <5>2
      <4>3. QED BY <4>2 DEF DraftComing
    <3>2. CASE DraftAnnounced(open)
      BY <1>2, <1>8, <3>2 DEF DraftComing, DraftAnnounced
    <3>3. CASE calls["generate"] # Nothing /\ calls["generate"].of = open
      BY <1>2, <3>3 DEF DraftComing
    <3>4. QED BY <3>1, <3>2, <3>3 DEF DraftComing
  <2>11. BarInv'
    BY <1>1, <1>2, <1>7, <2>9, <2>10 DEF BarInv
  <2>12. QED BY <1>6, <2>6, <2>7, <2>8, <2>11, ClInvOf
<1>9. ASSUME asks' = [asks EXCEPT ![n] = Nothing], stream' = [stream EXCEPT !.untold = @ \union {c}]
      PROVE  ClInv'
  <2>1. /\ stream' \in ClStream /\ stream'.untold = stream.untold \union {c} /\ stream'.queue = stream.queue
    BY <1>1, <1>3, <1>9, UntoldIs DEF ApiTyped
  <2>2. /\ asks' \in [AskPlaces -> ClAsk \union {Nothing}] /\ asks'[n] = Nothing
        /\ \A j \in AskPlaces : j # n => asks'[j] = asks[j]
    BY <1>1, <1>9 DEF ComposerTyped
  <2>3. ApiTyped' /\ ComposerTyped'
    BY <1>1, <1>2, <2>1, <2>2 DEF ApiTyped, ComposerTyped
  <2>4. InboxTyped' /\ PagesFit' /\ ThreadInv'
    BY <1>2, <1>5, <2>1, <2>3, PageSide
  <2>5. DraftsFit'
    BY <1>1, <1>2, <2>2, <2>3, DraftIs, DraftsGoOn
  <2>6. Told' => Told /\ c # open
    BY <1>2, <2>1 DEF Told
  <2>7. Told' /\ DraftComing(open) => DraftComing(open)'
    BY <1>2, <2>1, <2>2, <2>6 DEF DraftComing, DraftAnnounced, AskBrings
  <2>8. BarInv'
    BY <1>1, <1>2, <1>7, <2>6, <2>7, BarGoesOn
  <2>9. QED BY <1>6, <2>3, <2>4, <2>5, <2>8, ClInvOf
<1>10. QED BY <1>8, <1>9 DEF ServeAsk

\* A draft is put into the composer.
LEMMA OfferedIs ==
  ASSUME bar \in ClBar, NEW c \in Convs, NEW k \in Nat, NEW o, o = Offered(c, k)
  PROVE  o \in ClBar /\ o.draft \in ClMade /\ o.draft # Nothing /\ o.draft.of = c /\ o.draft.n = k /\ (~o.astray => c = open)
<1> PICK wrong \in BOOLEAN : wrong = (bar.astray \/ c # open)
  OBVIOUS
<1> DEFINE t == Made(c, k)
           d == [of |-> c, n |-> k]
<1>1. t \in ClText /\ d \in ClMade /\ d.of = c /\ d.n = k
  BY DEF Made, ClText, ClMade
<1>2. o = [bar EXCEPT !.text = t, !.draft = d, !.last = t, !.astray = wrong]
  BY DEF Offered
<1> HIDE DEF t, d
<1>3. o \in ClBar /\ o.draft = d /\ o.astray = wrong
  BY <1>1, <1>2 DEF ClBar
<1>4. d # Nothing
  BY <1>1, MadeIs
<1>5. o.draft \in ClMade /\ o.draft # Nothing /\ o.draft.of = c /\ o.draft.n = k
  BY <1>1, <1>3, <1>4
<1>6. ~o.astray => c = open
  BY <1>3
<1>7. QED BY <1>3, <1>5, <1>6

LEMMA LandAskKeeps ==
  ASSUME ClInv, NEW n \in AskPlaces, LandAsk(n), hybrid' = hybrid
  PROVE  ClInv'
<1>1. ApiTyped /\ ComposerTyped /\ InboxTyped /\ LogFits /\ DraftsFit /\ BarInv
  BY ClInvIs
<1> HIDE DEF ClInv
<1> PICK a : a = asks[n]
  OBVIOUS
<1>2. /\ a # Nothing /\ a.got = "answer" /\ asks' = [asks EXCEPT ![n] = Nothing]
      /\ \/ a.n = 0 /\ bar' = bar
         \/ a.n # 0 /\ bar' = Offered(a.of, a.n)
         \/ a.n # 0 /\ bar' = [bar EXCEPT !.turned = TRUE]
      /\ UNCHANGED <<log, draft, stream, open, thread, fetches, calls>>
  BY DEF LandAsk
<1>3. a \in ClAsk /\ a.of \in Convs /\ a.n \in Nat /\ bar \in ClBar
  BY <1>1, <1>2, AskIs, ComposerIs
<1>4. /\ asks' \in [AskPlaces -> ClAsk \union {Nothing}] /\ asks'[n] = Nothing
      /\ \A j \in AskPlaces : j # n => asks'[j] = asks[j]
  BY <1>1, <1>2 DEF ComposerTyped
<1>5. \A d : SendOwes(d)' = SendOwes(d)
  BY <1>2 DEF SendOwes
<1>6. LogFits'
  BY <1>2, LogFitsRests
<1>7. (OnOffer(open)' => OnOffer(open)) /\ (Told' => Told)
  BY <1>2 DEF OnOffer, Held, Told
<1>8. a.n = 0 /\ DraftComing(open) => DraftComing(open)'
  BY <1>2, <1>4 DEF DraftComing, DraftAnnounced, AskBrings
<1>9. ApiTyped' /\ (bar' \in ClBar => ComposerTyped')
  BY <1>1, <1>2, <1>4 DEF ApiTyped, ComposerTyped
<1>10. ASSUME bar' \in ClBar PROVE InboxTyped' /\ PagesFit' /\ ThreadInv'
  BY <1>2, <1>5, <1>9, PageSide
<1>11. CASE a.n = 0 /\ bar' = bar
  <2>1. ComposerTyped'
    BY <1>3, <1>9, <1>11
  <2>2. DraftsFit'
    BY <1>1, <1>2, <1>4, <1>9, <1>11, <2>1, DraftIs, DraftsGoOn
  <2>3. BarInv'
    BY <1>1, <1>2, <1>7, <1>8, <1>11, BarGoesOn
  <2>4. QED BY <1>3, <1>6, <1>9, <1>10, <1>11, <2>1, <2>2, <2>3, ClInvOf
<1>12. CASE a.n # 0 /\ bar' = Offered(a.of, a.n)
  <2>1. /\ bar' \in ClBar /\ bar'.draft # Nothing /\ bar'.draft.of = a.of /\ bar'.draft.n = a.n
        /\ ~bar'.astray => a.of = open
    <3> PICK o : o = bar'
      OBVIOUS
    <3>1. o = Offered(a.of, a.n)
      BY <1>12
    <3>2. o \in ClBar /\ o.draft # Nothing /\ o.draft.of = a.of /\ o.draft.n = a.n /\ (~o.astray => a.of = open)
      BY <1>3, <3>1, OfferedIs
    <3>3. QED BY <3>2
  <2>2. a.n <= draft[a.of].n /\ draft[a.of].n \in Nat
    BY <1>1, <1>2, <1>3, DraftIs DEF DraftsFit
  <2>3. RealDraft(bar.draft)'
    BY <1>2, <1>3, <1>12, <2>1, <2>2 DEF RealDraft
  <2>4. \A j \in AskPlaces : asks'[j] # Nothing => asks'[j].n <= draft'[asks'[j].of].n
    BY <1>1, <1>2, <1>4 DEF DraftsFit
  <2>5. DraftsFit'
    BY <1>1, <1>2, <2>3, <2>4 DEF DraftsFit
  <2>6. BarInv'
    BY <1>2, <2>1 DEF BarInv
  <2>7. QED BY <1>6, <1>9, <1>10, <2>1, <2>5, <2>6, ClInvOf
<1>13. CASE a.n # 0 /\ bar' = [bar EXCEPT !.turned = TRUE]
  <2>1. bar' \in ClBar /\ bar'.draft = bar.draft /\ bar'.astray = bar.astray /\ bar'.turned = TRUE
    BY <1>3, <1>13 DEF ClBar
  <2>2. DraftsFit'
    BY <1>1, <1>2, <1>4, <1>9, <2>1, DraftIs, DraftsGoOn
  <2>3. BarInv'
    BY <1>1, <1>2, <2>1 DEF BarInv
  <2>4. QED BY <1>6, <1>9, <1>10, <2>1, <2>2, <2>3, ClInvOf
<1>14. QED BY <1>2, <1>11, <1>12, <1>13

\* A draft that is settled is not on offer any more; what is under way for others goes on.
LEMMA DraftSettles ==
  ASSUME ClInv, NEW c \in Convs, NEW live \in BOOLEAN, live => draft[c].live, draft' = [draft EXCEPT ![c].live = live],
         UNCHANGED <<hybrid, log, open, thread, fetches, bar, asks>>, stream' \in ClStream,
         stream.untold \subseteq stream'.untold, stream'.queue = stream.queue,
         calls' \in [CallNames -> ClCall \union {Nothing}], calls'["send"] = calls["send"],
         \/ calls'["generate"] = calls["generate"]
         \/ calls'["generate"] = Nothing /\ calls["generate"].of \in stream'.untold
  PROVE  ClInv'
<1>1. ApiTyped /\ ComposerTyped /\ InboxTyped /\ LogFits /\ DraftsFit /\ BarInv
  BY ClInvIs
<1> HIDE DEF ClInv
<1>2. /\ draft' \in [Convs -> ClDraft]
      /\ \A d \in Convs : d # c => draft'[d] = draft[d]
      /\ draft'[c] = [draft[c] EXCEPT !.live = live]
  BY <1>1 DEF ApiTyped, ClDraft
<1>3. \A d \in Convs : draft'[d].n = draft[d].n /\ draft'[d].since = draft[d].since /\ (draft'[d].live => draft[d].live)
  <2>1. draft[c] \in ClDraft
    BY <1>1, DraftIs
  <2>2. draft'[c].n = draft[c].n /\ draft'[c].since = draft[c].since /\ draft'[c].live = live
    BY <1>2, <2>1 DEF ClDraft
  <2>3. QED BY <1>2, <2>2
<1>4. ApiTyped' /\ ComposerTyped'
  BY <1>1, <1>2 DEF ApiTyped, ComposerTyped
<1>5. \A d : SendOwes(d)' = SendOwes(d)
  BY DEF SendOwes
<1>6. InboxTyped' /\ PagesFit' /\ ThreadInv'
  BY <1>4, <1>5, PageSide
<1>7. DraftsFit'
  <2>1. \A d \in Convs : draft[d].n <= draft'[d].n
    BY <1>1, <1>3, DraftIs
  <2>2. QED BY <1>1, <1>4, <2>1, DraftsGoOn
<1>8. LogFits'
  BY <1>1, <1>3 DEF LogFits
<1>9. Told' => Told /\ open \in Convs
  BY <1>1, ToldIs DEF Told
<1>10. Told' /\ OnOffer(open)' => OnOffer(open)
  BY <1>3, <1>9 DEF OnOffer, Held
<1>11. Told' /\ DraftComing(open) => DraftComing(open)'
  BY DEF DraftComing, DraftAnnounced, AskBrings, Told
<1>12. BarInv'
  BY <1>1, <1>9, <1>10, <1>11, BarGoesOn
<1>13. QED BY <1>4, <1>6, <1>7, <1>8, <1>12, ClInvOf

-----------------------------------------------------------------------------

\* The draft there is is rejected when another is asked for: that one is on its way.
LEMMA PressGenerateKeeps ==
  ASSUME ClInv, PressGenerate, hybrid' = hybrid
  PROVE  ClInv'
<1>1. ApiTyped /\ ComposerTyped /\ InboxTyped /\ LogFits /\ DraftsFit /\ BarInv
  BY ClInvIs
<1> HIDE DEF ClInv
<1> DEFINE made == Called(open, bar.draft)
<1>2. /\ open # NoConv /\ calls' = [calls EXCEPT !["generate"] = made]
      /\ bar' = [bar EXCEPT !.draft = Nothing, !.last = IF bar.draft = Nothing THEN @ ELSE NoText]
      /\ UNCHANGED <<log, draft, stream, open, thread, fetches, asks>>
  BY DEF PressGenerate
<1>3. open \in Convs /\ bar \in ClBar /\ bar.draft \in ClMade \union {Nothing} /\ bar.last \in ClText /\ NoText \in ClText
  BY <1>1, <1>2, ComposerIs DEF InboxTyped, ClText
<1>4. made \in ClCall /\ made.of = open /\ made.got = "pending"
  BY <1>3 DEF Called, ClCall
<1>5. made # Nothing
  BY <1>2, <1>4 DEF Nothing
<1> HIDE DEF made
<1>6. calls' \in [CallNames -> ClCall \union {Nothing}] /\ calls'["generate"] = made /\ calls'["send"] = calls["send"]
  BY <1>1, <1>2, <1>4, CallGoes DEF ComposerTyped, CallNames
<1>7. bar' \in ClBar /\ bar'.draft = Nothing
  BY <1>2, <1>3 DEF ClBar
<1>8. ApiTyped' /\ ComposerTyped'
  BY <1>1, <1>2, <1>6, <1>7 DEF ApiTyped, ComposerTyped
<1>9. \A d : SendOwes(d)' = SendOwes(d)
  BY <1>6 DEF SendOwes
<1>10. InboxTyped' /\ PagesFit' /\ ThreadInv'
  BY <1>2, <1>8, <1>9, PageSide
<1>11. DraftsFit'
  BY <1>1, <1>2, <1>4, <1>6, <1>7, <1>8, DraftIs, DraftsGoOn
<1>12. DraftComing(open)'
  BY <1>2, <1>4, <1>5, <1>6 DEF DraftComing
<1>13. BarInv'
  BY <1>7, <1>12 DEF BarInv
<1>14. LogFits'
  BY <1>2, LogFitsRests
<1>15. QED BY <1>8, <1>10, <1>11, <1>13, <1>14, ClInvOf

LEMMA ServeGenerateKeeps ==
  ASSUME ClInv, ServeGenerate, hybrid' = hybrid
  PROVE  ClInv'
<1>1. ApiTyped /\ ComposerTyped /\ InboxTyped /\ LogFits /\ DraftsFit /\ BarInv
  BY ClInvIs
<1> HIDE DEF ClInv
<1> PICK g, c : g = calls["generate"] /\ c = calls["generate"].of
  OBVIOUS
<1>2. g # Nothing /\ g.got = "pending" /\ UNCHANGED <<log, open, thread, fetches, bar, asks>>
  BY DEF ServeGenerate
<1>3. g \in ClCall /\ c \in Convs /\ g.of = c
  BY <1>1, <1>2, CallIs DEF CallNames
<1>4. draft \in [Convs -> ClDraft] /\ draft[c].n \in Nat /\ \A d \in Convs : draft[d].n \in Nat
  BY <1>1, <1>3, DraftIs DEF ApiTyped
<1>5. bar'.draft # Nothing /\ ~bar'.astray => bar'.draft.of = open'
  BY <1>1, <1>2 DEF BarInv
<1>6. ASSUME draft' = [draft EXCEPT ![c] = NewDraft(c)], UNCHANGED stream,
             calls' = [calls EXCEPT !["generate"].got = "draft", !["generate"].draft = [of |-> c, n |-> draft[c].n + 1]]
      PROVE  ClInv'
  <2> DEFINE d == [of |-> c, n |-> draft[c].n + 1]
             h == [g EXCEPT !.got = "draft", !.draft = d]
  <2>1. d \in ClMade /\ d.n = draft[c].n + 1
    BY <1>3, <1>4 DEF ClMade
  <2>2. h \in ClCall /\ h.of = c /\ h.got = "draft" /\ h.draft = d
    BY <1>3, <2>1 DEF ClCall
  <2>3. calls' = [calls EXCEPT !["generate"] = h]
    BY <1>1, <1>6 DEF ComposerTyped, CallNames
  <2> HIDE DEF h, d
  <2>4. h # Nothing /\ d # Nothing
    BY <1>3, <2>1, <2>2, MadeIs, PageSizeIs DEF Nothing
  <2>5. calls' \in [CallNames -> ClCall \union {Nothing}] /\ calls'["generate"] = h /\ calls'["send"] = calls["send"]
    BY <1>1, <2>2, <2>3, CallGoes DEF ComposerTyped, CallNames
  <2>6. /\ draft' \in [Convs -> ClDraft] /\ LogFits' /\ draft'[c].n = draft[c].n + 1
        /\ \A e \in Convs : (e # c => draft'[e] = draft[e]) /\ draft[e].n <= draft'[e].n
    BY <1>1, <1>2, <1>3, <1>6, NewDraftIs
  <2>7. ApiTyped' /\ ComposerTyped'
    BY <1>1, <1>2, <1>6, <2>5, <2>6 DEF ApiTyped, ComposerTyped
  <2>8. \A e : SendOwes(e)' = SendOwes(e)
    BY <2>5 DEF SendOwes
  <2>9. InboxTyped' /\ PagesFit' /\ ThreadInv'
    BY <1>2, <1>6, <2>7, <2>8, PageSide
  <2>10. DraftsFit'
    <3>1. \A e \in Convs : draft'[e].n \in Nat
      BY <2>6 DEF ClDraft
    <3>2. bar'.draft # Nothing => RealDraft(bar.draft)'
      <4> SUFFICES ASSUME bar'.draft # Nothing PROVE bar.draft.of \in Convs /\ bar.draft.n \in 1..draft'[bar.draft.of].n
        BY <1>2 DEF RealDraft
      <4>1. bar.draft.of \in Convs /\ bar.draft.n \in 1..draft[bar.draft.of].n
        BY <1>1, <1>2 DEF DraftsFit, RealDraft
      <4>2. QED BY <1>4, <2>6, <3>1, <4>1
    <3>3. \A j \in AskPlaces : asks'[j] # Nothing => asks'[j].n <= draft'[asks'[j].of].n
      <4> SUFFICES ASSUME NEW j \in AskPlaces, asks[j] # Nothing PROVE asks[j].n <= draft'[asks[j].of].n
        BY <1>2
      <4>1. asks[j].of \in Convs /\ asks[j].n \in Nat /\ asks[j].n <= draft[asks[j].of].n
        BY <1>1, AskIs DEF DraftsFit
      <4>2. QED BY <1>4, <2>6, <3>1, <4>1
    <3>4. calls'["generate"].draft # Nothing /\ calls'["generate"].draft.n \in 1..draft'[calls'["generate"].of].n
      BY <1>4, <2>1, <2>2, <2>4, <2>5, <2>6
    <3>5. QED BY <3>2, <3>3, <3>4 DEF DraftsFit
  <2>11. BarInv'
    <3> SUFFICES ASSUME Told', hybrid', OnOffer(open)', ~bar'.suppressed, ~bar'.turned, bar'.draft = Nothing
                 PROVE  DraftComing(open)'
      BY <1>5 DEF BarInv
    <3>1. CASE open = c
      BY <1>2, <2>2, <2>4, <2>5, <3>1 DEF DraftComing
    <3>2. CASE open # c
      <4>1. Told /\ open \in Convs
        BY <1>1, <1>2, <1>6, ToldIs DEF Told
      <4>2. draft'[open] = draft[open]
        BY <2>6, <3>2, <4>1
      <4>3. OnOffer(open)
        BY <1>2, <4>2 DEF OnOffer, Held
      <4>4. DraftComing(open)
        BY <1>1, <1>2, <4>1, <4>3 DEF BarInv
      <4>5. QED BY <1>2, <1>6, <3>2, <4>4 DEF DraftComing, DraftAnnounced, AskBrings
    <3>3. QED BY <3>1, <3>2
  <2>12. QED BY <2>6, <2>7, <2>9, <2>10, <2>11, ClInvOf
<1>7. ASSUME draft' = [draft EXCEPT ![c].live = @ /\ g.draft # [of |-> c, n |-> draft[c].n]],
             calls' = [calls EXCEPT !["generate"] = Nothing], stream' = [stream EXCEPT !.untold = @ \union {c}]
      PROVE  ClInv'
  <2> PICK live \in BOOLEAN : live = (draft[c].live /\ g.draft # [of |-> c, n |-> draft[c].n])
    OBVIOUS
  <2>1. draft' = [draft EXCEPT ![c].live = live]
    BY <1>7
  <2>2. live => draft[c].live
    OBVIOUS
  <2>3. /\ stream' \in ClStream /\ stream'.untold = stream.untold \union {c} /\ stream'.queue = stream.queue
    BY <1>1, <1>3, <1>7, UntoldIs DEF ApiTyped
  <2>4. calls' \in [CallNames -> ClCall \union {Nothing}] /\ calls'["generate"] = Nothing /\ calls'["send"] = calls["send"]
    BY <1>1, <1>7, CallGoes DEF ComposerTyped, CallNames
  <2>5. QED BY <1>2, <1>3, <2>1, <2>2, <2>3, <2>4, DraftSettles
<1>8. QED BY <1>6, <1>7 DEF ServeGenerate

LEMMA LandGenerateKeeps ==
  ASSUME ClInv, LandGenerate, hybrid' = hybrid
  PROVE  ClInv'
<1>1. ApiTyped /\ ComposerTyped /\ InboxTyped /\ LogFits /\ DraftsFit /\ BarInv
  BY ClInvIs
<1> HIDE DEF ClInv
<1> PICK g, c, k : g = calls["generate"] /\ c = calls["generate"].of /\ k = calls["generate"].draft.n
  OBVIOUS
<1>2. /\ g # Nothing /\ g.got = "draft" /\ bar' = Offered(c, k) /\ calls' = [calls EXCEPT !["generate"] = Nothing]
      /\ UNCHANGED <<log, draft, stream, open, thread, fetches, asks>>
  BY DEF LandGenerate
<1>3. c \in Convs /\ k \in 1..draft[c].n
  BY <1>1, <1>2, CallIs DEF CallNames, DraftsFit
<1>4. draft[c].n \in Nat /\ k \in Nat
  BY <1>1, <1>3, DraftIs
<1> PICK o : o = bar'
  OBVIOUS
<1>5. bar \in ClBar /\ o = Offered(c, k)
  BY <1>1, <1>2, ComposerIs
<1>6. o \in ClBar /\ o.draft # Nothing /\ o.draft.of = c /\ o.draft.n = k /\ (~o.astray => c = open)
  BY <1>3, <1>4, <1>5, OfferedIs
<1>7. calls' \in [CallNames -> ClCall \union {Nothing}] /\ calls'["generate"] = Nothing /\ calls'["send"] = calls["send"]
  BY <1>1, <1>2, CallGoes DEF ComposerTyped, CallNames
<1>8. ApiTyped' /\ ComposerTyped'
  BY <1>1, <1>2, <1>6, <1>7 DEF ApiTyped, ComposerTyped
<1>9. \A d : SendOwes(d)' = SendOwes(d)
  BY <1>7 DEF SendOwes
<1>10. InboxTyped' /\ PagesFit' /\ ThreadInv'
  BY <1>2, <1>8, <1>9, PageSide
<1>11. DraftsFit'
  <2>1. RealDraft(bar.draft)'
    BY <1>2, <1>3, <1>6 DEF RealDraft
  <2>2. \A j \in AskPlaces : asks'[j] # Nothing => asks'[j].n <= draft'[asks'[j].of].n
    BY <1>1, <1>2 DEF DraftsFit
  <2>3. QED BY <1>7, <2>1, <2>2 DEF DraftsFit
<1>12. BarInv'
  BY <1>2, <1>6 DEF BarInv
<1>13. LogFits'
  BY <1>2, LogFitsRests
<1>14. QED BY <1>8, <1>10, <1>11, <1>12, <1>13, ClInvOf

LEMMA PressDismissKeeps ==
  ASSUME ClInv, PressDismiss, hybrid' = hybrid
  PROVE  ClInv'
<1>1. ApiTyped /\ ComposerTyped /\ DraftsFit
  BY ClInvIs
<1> HIDE DEF ClInv
<1> DEFINE made == Called(bar.draft.of, bar.draft)
<1>2. /\ bar.draft # Nothing /\ calls' = [calls EXCEPT !["dismiss"] = made]
      /\ UNCHANGED <<log, draft, stream, open, thread, fetches, bar, asks>>
  BY DEF PressDismiss
<1>3. bar.draft \in ClMade /\ bar.draft.of \in Convs
  BY <1>1, <1>2, ComposerIs DEF ClMade
<1>4. made \in ClCall
  BY <1>3 DEF Called, ClCall
<1> HIDE DEF made
<1>5. /\ calls' \in [CallNames -> ClCall \union {Nothing}] /\ calls'["generate"] = calls["generate"]
      /\ calls'["send"] = calls["send"]
  BY <1>1, <1>2, <1>4, CallGoes DEF ComposerTyped, CallNames
<1>6. ApiTyped' /\ ComposerTyped'
  BY <1>1, <1>2, <1>5 DEF ApiTyped, ComposerTyped
<1>7. \A d : SendOwes(d)' = SendOwes(d)
  BY <1>5 DEF SendOwes
<1>8. InboxTyped' /\ PagesFit' /\ ThreadInv'
  BY <1>2, <1>6, <1>7, PageSide
<1>9. DraftsFit' /\ BarInv'
  BY <1>2, <1>5, <1>6, BarSide
<1>10. LogFits'
  BY <1>2, LogFitsRests
<1>11. QED BY <1>6, <1>8, <1>9, <1>10, ClInvOf

LEMMA ServeDismissKeeps ==
  ASSUME ClInv, ServeDismiss, hybrid' = hybrid
  PROVE  ClInv'
<1>1. ApiTyped /\ ComposerTyped
  BY ClInvIs
<1> HIDE DEF ClInv
<1> PICK g, c : g = calls["dismiss"] /\ c = calls["dismiss"].of
  OBVIOUS
<1>2. /\ g # Nothing /\ calls' = [calls EXCEPT !["dismiss"].got = "done"] /\ UNCHANGED <<log, open, thread, fetches, bar, asks>>
      /\ \/ draft' = [draft EXCEPT ![c].live = @ /\ draft[c].n # g.draft.n] /\ UNCHANGED stream
         \/ UNCHANGED draft /\ stream' = [stream EXCEPT !.untold = @ \union {c}]
  BY DEF ServeDismiss
<1>3. g \in ClCall /\ c \in Convs
  BY <1>1, <1>2, CallIs DEF CallNames
<1> DEFINE h == [g EXCEPT !.got = "done"]
<1>4. h \in ClCall
  BY <1>3 DEF ClCall
<1>5. calls' = [calls EXCEPT !["dismiss"] = h]
  BY <1>1, <1>2 DEF ComposerTyped, CallNames
<1> HIDE DEF h
<1>6. /\ calls' \in [CallNames -> ClCall \union {Nothing}] /\ calls'["generate"] = calls["generate"]
      /\ calls'["send"] = calls["send"]
  BY <1>1, <1>4, <1>5, CallGoes DEF ComposerTyped, CallNames
<1>7. CASE draft' = [draft EXCEPT ![c].live = @ /\ draft[c].n # g.draft.n] /\ UNCHANGED stream
  <2> PICK live \in BOOLEAN : live = (draft[c].live /\ draft[c].n # g.draft.n)
    OBVIOUS
  <2>1. draft' = [draft EXCEPT ![c].live = live]
    BY <1>7
  <2>2. live => draft[c].live
    OBVIOUS
  <2>3. stream' \in ClStream
    BY <1>1, <1>7 DEF ApiTyped
  <2>4. QED BY <1>2, <1>3, <1>6, <1>7, <2>1, <2>2, <2>3, DraftSettles
<1>8. CASE UNCHANGED draft /\ stream' = [stream EXCEPT !.untold = @ \union {c}]
  <2>1. /\ stream' \in ClStream /\ stream'.untold = stream.untold \union {c} /\ stream'.queue = stream.queue
    BY <1>1, <1>3, <1>8, UntoldIs DEF ApiTyped
  <2>2. ApiTyped' /\ ComposerTyped'
    BY <1>1, <1>2, <1>6, <1>8, <2>1 DEF ApiTyped, ComposerTyped
  <2>3. \A d : SendOwes(d)' = SendOwes(d)
    BY <1>6 DEF SendOwes
  <2>4. InboxTyped' /\ PagesFit' /\ ThreadInv'
    BY <1>2, <2>1, <2>2, <2>3, PageSide
  <2>5. DraftsFit' /\ BarInv'
    BY <1>2, <1>6, <1>8, <2>1, <2>2, BarSide
  <2>6. LogFits'
    BY <1>2, <1>8, LogFitsRests
  <2>7. QED BY <2>2, <2>4, <2>5, <2>6, ClInvOf
<1>9. QED BY <1>2, <1>7, <1>8

LEMMA LandDismissKeeps ==
  ASSUME ClInv, LandDismiss, hybrid' = hybrid
  PROVE  ClInv'
<1>1. ApiTyped /\ ComposerTyped /\ InboxTyped /\ LogFits /\ DraftsFit /\ BarInv
  BY ClInvIs
<1> HIDE DEF ClInv
<1>2. /\ bar' = [bar EXCEPT !.text = NoText, !.draft = Nothing, !.last = NoText, !.turned = TRUE]
      /\ calls' = [calls EXCEPT !["dismiss"] = Nothing]
      /\ UNCHANGED <<log, draft, stream, open, thread, fetches, asks>>
  BY DEF LandDismiss
<1>3. bar' \in ClBar /\ bar'.draft = Nothing /\ bar'.turned = TRUE
  <2>1. bar \in ClBar /\ NoText \in ClText
    BY <1>1, ComposerIs DEF ClText
  <2>2. QED BY <1>2, <2>1 DEF ClBar
<1>4. /\ calls' \in [CallNames -> ClCall \union {Nothing}] /\ calls'["generate"] = calls["generate"]
      /\ calls'["send"] = calls["send"]
  BY <1>1, <1>2, CallGoes DEF ComposerTyped, CallNames
<1>5. ApiTyped' /\ ComposerTyped'
  BY <1>1, <1>2, <1>3, <1>4 DEF ApiTyped, ComposerTyped
<1>6. \A d : SendOwes(d)' = SendOwes(d)
  BY <1>4 DEF SendOwes
<1>7. InboxTyped' /\ PagesFit' /\ ThreadInv'
  BY <1>2, <1>5, <1>6, PageSide
<1>8. DraftsFit'
  BY <1>1, <1>2, <1>3, <1>4, <1>5, DraftIs, DraftsGoOn
<1>9. BarInv'
  BY <1>3 DEF BarInv
<1>10. LogFits'
  BY <1>2, LogFitsRests
<1>11. QED BY <1>5, <1>7, <1>8, <1>9, <1>10, ClInvOf

-----------------------------------------------------------------------------

\* A bubble, with a ghost or without one, and otherwise the thread as it was.
LEMMA BubbleIs ==
  ASSUME InboxTyped, NEW c, NEW g \in {0, 1}, thread' = Bubble(c, g)
  PROVE  /\ thread' \in ClThread /\ thread'.ids = thread.ids /\ thread'.upto = thread.upto /\ thread'.stale = thread.stale
         /\ open = c => thread'.bubbles = thread.bubbles + 1 /\ thread'.ghosts = thread.ghosts + g
         /\ open # c => thread' = thread
<1>1. thread \in ClThread /\ thread.bubbles \in Nat /\ thread.ghosts \in Nat
  BY DEF InboxTyped, ClThread
<1>2. CASE open = c
  <2>1. thread' = [thread EXCEPT !.bubbles = thread.bubbles + 1, !.ghosts = thread.ghosts + g]
    BY <1>2 DEF Bubble
  <2>2. thread.bubbles + 1 \in Nat /\ thread.ghosts + g \in Nat
    BY <1>1
  <2>3. QED BY <1>1, <1>2, <2>1, <2>2 DEF ClThread
<1>3. CASE open # c
  BY <1>1, <1>3 DEF Bubble
<1>4. QED BY <1>2, <1>3

\* The thread changes by bubbles and ghosts alone, while loads may start.
LEMMA ThreadCounts ==
  ASSUME ClInv, ApiTyped', FetchTyped', LoadsMore, UNCHANGED <<log, stream, open>>,
         thread' \in ClThread, thread'.ids = thread.ids, thread'.upto = thread.upto, thread'.stale = thread.stale,
         open # NoConv => thread'.bubbles + thread.ghosts + Owing(open) <= thread.bubbles + thread'.ghosts + Owing(open)'
  PROVE  InboxTyped' /\ PagesFit' /\ ThreadInv'
<1>1. ApiTyped /\ InboxTyped /\ ComposerTyped /\ LogFits /\ PagesFit /\ ThreadInv
  BY ClInvIs
<1> HIDE DEF ClInv
<1>2. InboxTyped' /\ FetchTyped
  BY <1>1 DEF InboxTyped, FetchTyped
<1>3. /\ \A c, i : (\E n \in LoadPlaces : Brings(fetches[n], c, i)) => \E n \in LoadPlaces : Brings(fetches'[n], c, i)
      /\ \A c : FullComing(c) => FullComing(c)'
      /\ \A n \in LoadPlaces : fetches'[n] # Nothing /\ fetches'[n].got = "page" => fetches'[n] = fetches[n]
  BY LoadsBring
<1>4. PagesFit'
  BY <1>1, <1>2, <1>3, LogRests, PagesKept
<1>5. Told' => Told
  BY DEF Told
<1>6. FullComing(open) => FullComing(open)'
  <2> PICK o : o = open
    OBVIOUS
  <2>1. FullComing(o) => FullComing(o)'
    BY <1>3
  <2>2. QED BY <2>1 DEF FullComing, IsFull
<1>7. Told' => \A i \in Held(open)' : i > thread.upto => Coming(open, i)'
  <2> SUFFICES ASSUME Told', NEW i \in Held(open)', i > thread.upto PROVE Coming(open, i)'
    OBVIOUS
  <2>1. i \in Held(open)
    BY DEF Held
  <2>2. Coming(open, i)
    BY <1>1, <1>5, <2>1 DEF ThreadInv, ThreadFits
  <2>3. CASE Announced(open)
    BY <2>3 DEF Coming, Announced
  <2>4. CASE \E n \in LoadPlaces : Brings(fetches[n], open, i)
    <3>1. \E n \in LoadPlaces : Brings(fetches'[n], open, i)
      BY <1>3, <2>4
    <3>2. QED BY <3>1 DEF Coming, Brings
  <2>5. QED BY <2>2, <2>3, <2>4 DEF Coming
<1>8. ThreadInv'
  <2>1. CASE open = NoConv
    BY <2>1 DEF ThreadInv, Told
  <2>2. CASE open # NoConv
    <3>1. Replies(open, thread.upto)' = Replies(open, thread.upto)
      BY DEF Replies, Held
    <3>2. /\ thread.bubbles \in Nat /\ thread.ghosts \in Nat /\ thread'.bubbles \in Nat /\ thread'.ghosts \in Nat
          /\ Owing(open) \in Nat /\ Owing(open)' \in Nat
      BY <1>1 DEF InboxTyped, ClThread, Owing
    <3>3. Cardinality(Replies(open, thread.upto)) \in Nat
      BY <1>1, RepliesAre
    <3>4. thread'.bubbles + thread.ghosts + Owing(open) + Cardinality(Replies(open, thread.upto))
             <= thread.bubbles + thread'.ghosts + Owing(open)' + Cardinality(Replies(open, thread.upto))'
      BY <2>2, <3>1, <3>2, <3>3
    <3>5. QED BY <1>1, <1>2, <1>5, <1>6, <1>7, <3>4, LogRests, ThreadGoesOn
  <2>3. QED BY <2>1, <2>2
<1>9. QED BY <1>2, <1>4, <1>8

LEMMA LoadsRest == ASSUME FetchTyped, fetches' = fetches PROVE FetchTyped' /\ LoadsMore
  BY DEF FetchTyped, LoadsMore

\* The optimistic message is owed for until the reply is stored.
LEMMA PressSendKeeps ==
  ASSUME ClInv, PressSend, hybrid' = hybrid
  PROVE  ClInv'
<1>1. ApiTyped /\ InboxTyped /\ ComposerTyped /\ LogFits
  BY ClInvIs
<1> HIDE DEF ClInv
<1> DEFINE made == Called(open, Nothing)
<1>2. /\ open # NoConv /\ calls["send"] = Nothing /\ thread' = Bubble(open, 0) /\ calls' = [calls EXCEPT !["send"] = made]
      /\ UNCHANGED <<log, draft, stream, open, fetches, bar, asks>>
  BY DEF PressSend, Sending, ShownFirst
<1>3. open \in Convs
  BY <1>1, <1>2 DEF InboxTyped
<1>4. made \in ClCall /\ made.of = open /\ made.got = "pending"
  BY <1>3 DEF Called, ClCall
<1>5. made # Nothing
  BY <1>2, <1>4 DEF Nothing
<1> HIDE DEF made
<1>6. /\ calls' \in [CallNames -> ClCall \union {Nothing}] /\ calls'["send"] = made
      /\ calls'["generate"] = calls["generate"]
  BY <1>1, <1>2, <1>4, CallGoes DEF ComposerTyped, CallNames
<1>7. /\ thread' \in ClThread /\ thread'.ids = thread.ids /\ thread'.upto = thread.upto /\ thread'.stale = thread.stale
      /\ thread'.bubbles = thread.bubbles + 1 /\ thread'.ghosts = thread.ghosts + 0
  BY <1>1, <1>2, BubbleIs
<1>8. Owing(open) = 0 /\ Owing(open)' = 1
  BY <1>2, <1>4, <1>5, <1>6 DEF Owing, SendOwes
<1>9. ApiTyped' /\ ComposerTyped' /\ FetchTyped' /\ LoadsMore
  BY <1>1, <1>2, <1>6, LoadsRest DEF ApiTyped, ComposerTyped, InboxTyped, FetchTyped
<1>10. InboxTyped' /\ PagesFit' /\ ThreadInv'
  <2>1. thread.bubbles \in Nat /\ thread.ghosts \in Nat
    BY <1>1 DEF InboxTyped, ClThread
  <2>2. thread'.bubbles + thread.ghosts + Owing(open) <= thread.bubbles + thread'.ghosts + Owing(open)'
    BY <1>7, <1>8, <2>1
  <2>3. QED BY <1>2, <1>7, <1>9, <2>2, ThreadCounts
<1>11. DraftsFit' /\ BarInv'
  BY <1>2, <1>6, <1>9, BarSide
<1>12. LogFits'
  BY <1>2, <1>7, LogFitsRests
<1>13. QED BY <1>9, <1>10, <1>11, <1>12, ClInvOf

LEMMA PressQuickKeeps ==
  ASSUME ClInv, PressQuick, hybrid' = hybrid
  PROVE  ClInv'
<1>1. ApiTyped /\ InboxTyped /\ ComposerTyped /\ LogFits /\ DraftsFit /\ BarInv
  BY ClInvIs
<1> HIDE DEF ClInv
<1> DEFINE made == Called(open, Nothing)
<1>2. /\ open # NoConv
      /\ \/ calls' = [calls EXCEPT !["quick"] = made] /\ UNCHANGED bar
         \/ bar' = [bar EXCEPT !.text = Typed] /\ UNCHANGED calls
      /\ UNCHANGED <<log, draft, stream, open, thread, fetches, asks>>
  BY DEF PressQuick
<1>3. made \in ClCall
  <2>1. open \in Convs
    BY <1>1, <1>2 DEF InboxTyped
  <2>2. QED BY <2>1 DEF Called, ClCall
<1> HIDE DEF made
<1>4. /\ calls' \in [CallNames -> ClCall \union {Nothing}] /\ calls'["send"] = calls["send"]
      /\ calls'["generate"] = calls["generate"]
  <2>1. CASE calls' = [calls EXCEPT !["quick"] = made]
    BY <1>1, <1>3, <2>1, CallGoes DEF ComposerTyped, CallNames
  <2>2. CASE UNCHANGED calls
    BY <1>1, <2>2 DEF ComposerTyped
  <2>3. QED BY <1>2, <2>1, <2>2
<1>5. /\ bar' \in ClBar /\ bar'.draft = bar.draft /\ bar'.astray = bar.astray /\ bar'.turned = bar.turned
      /\ bar'.suppressed = bar.suppressed
  <2>1. bar \in ClBar /\ Typed \in ClText
    BY <1>1, ComposerIs DEF ClText
  <2>2. CASE UNCHANGED bar
    BY <2>1, <2>2
  <2>3. CASE bar' = [bar EXCEPT !.text = Typed]
    BY <2>1, <2>3 DEF ClBar
  <2>4. QED BY <1>2, <2>2, <2>3
<1>6. ApiTyped' /\ ComposerTyped'
  BY <1>1, <1>2, <1>4, <1>5 DEF ApiTyped, ComposerTyped
<1>7. \A d : SendOwes(d)' = SendOwes(d)
  BY <1>4 DEF SendOwes
<1>8. InboxTyped' /\ PagesFit' /\ ThreadInv'
  BY <1>2, <1>6, <1>7, PageSide
<1>9. DraftsFit'
  BY <1>1, <1>2, <1>4, <1>5, <1>6, DraftIs, DraftsGoOn
<1>10. BarInv'
  <2>1. OnOffer(open)' => OnOffer(open)
    BY <1>2 DEF OnOffer, Held
  <2>2. DraftComing(open) => DraftComing(open)'
    BY <1>2, <1>4 DEF DraftComing, DraftAnnounced, AskBrings
  <2>3. Told' => Told
    BY <1>2 DEF Told
  <2>4. QED BY <1>1, <1>2, <1>5, <2>1, <2>2, <2>3, BarGoesOn
<1>11. LogFits'
  BY <1>2, LogFitsRests
<1>12. QED BY <1>6, <1>8, <1>9, <1>10, <1>11, ClInvOf

LEMMA ServeReplyKeeps ==
  ASSUME ClInv, NEW k \in {"send", "quick"}, ServeReply(k), hybrid' = hybrid
  PROVE  ClInv'
<1>1. ApiTyped /\ InboxTyped /\ ComposerTyped
  BY ClInvIs
<1> HIDE DEF ClInv
<1> PICK g, c : g = calls[k] /\ c = calls[k].of
  OBVIOUS
<1>2. /\ g # Nothing /\ g.got = "pending" /\ UNCHANGED <<open, thread, fetches, bar, asks>>
      /\ \/ Stored(c, "agent") /\ calls' = [calls EXCEPT ![k].got = "done"]
         \/ Stored(c, "agent") /\ calls' = [calls EXCEPT ![k].got = "failed"]
         \/ UNCHANGED <<log, draft, stream>> /\ calls' = [calls EXCEPT ![k].got = "failed"]
  BY DEF ServeReply
<1>3. g \in ClCall /\ c \in Convs /\ g.of = c /\ k \in CallNames
  BY <1>1, <1>2, CallIs DEF CallNames
<1>4. PICK got \in {"done", "failed"} : calls' = [calls EXCEPT ![k].got = got] /\ (got = "done" => Stored(c, "agent"))
  BY <1>2
<1> DEFINE h == [g EXCEPT !.got = got]
<1>5. h \in ClCall /\ h.of = c /\ h.got = got
  BY <1>3 DEF ClCall
<1>6. calls' = [calls EXCEPT ![k] = h]
  BY <1>1, <1>3, <1>4 DEF ComposerTyped
<1> HIDE DEF h
<1>7. /\ calls' \in [CallNames -> ClCall \union {Nothing}] /\ calls'[k] = h
      /\ \A j \in CallNames : j # k => calls'[j] = calls[j]
  BY <1>1, <1>3, <1>5, <1>6, CallGoes DEF ComposerTyped
<1>8. calls'["generate"] = calls["generate"]
  BY <1>7 DEF CallNames
<1>9. \A d : d # c \/ got = "failed" => SendOwes(d)' = SendOwes(d)
  <2> SUFFICES ASSUME NEW d, d # c \/ got = "failed" PROVE SendOwes(d)' = SendOwes(d)
    OBVIOUS
  <2>1. CASE k = "quick"
    <3>1. calls'["send"] = calls["send"]
      BY <1>7, <2>1 DEF CallNames
    <3>2. QED BY <3>1 DEF SendOwes
  <2>2. CASE k = "send"
    <3>1. h # Nothing
      BY <1>3, <1>5, PageSizeIs DEF Nothing
    <3>2. calls'["send"] = h /\ calls["send"] = g
      BY <1>7, <2>2
    <3>3. QED BY <1>2, <1>3, <1>5, <3>1, <3>2 DEF SendOwes
  <2>3. QED BY <2>1, <2>2
<1>10. InboxTyped' /\ ComposerTyped'
  BY <1>1, <1>2, <1>7 DEF InboxTyped, ComposerTyped
<1>11. CASE Stored(c, "agent")
  <2>1. Owing(open) \in {0, 1} /\ Owing(open)' \in {0, 1}
    BY DEF Owing
  <2>2. open # c => Owing(open)' = Owing(open)
    <3> SUFFICES ASSUME open # c PROVE Owing(open)' = Owing(open)
      OBVIOUS
    <3> PICK o : o = open
      OBVIOUS
    <3>1. SendOwes(o)' = SendOwes(o)
      BY <1>9
    <3>2. QED BY <1>2, <3>1 DEF Owing, SendOwes
  <2>3. Owing(open) + (IF "agent" = "customer" \/ open # c THEN 0 ELSE -1) <= Owing(open)'
    BY <2>1, <2>2
  <2>4. QED BY <1>2, <1>3, <1>8, <1>10, <1>11, <2>3, StoredKeeps
<1>12. CASE ~Stored(c, "agent")
  <2>1. UNCHANGED <<log, draft, stream>> /\ got = "failed"
    BY <1>2, <1>4, <1>12
  <2>2. ApiTyped'
    BY <1>1, <2>1 DEF ApiTyped
  <2>3. \A d : SendOwes(d)' = SendOwes(d)
    BY <1>9, <2>1
  <2>4. PagesFit' /\ ThreadInv'
    BY <1>2, <2>1, <2>2, <2>3, PageSide
  <2>5. DraftsFit' /\ BarInv'
    BY <1>2, <1>8, <1>10, <2>1, <2>2, BarSide
  <2>6. LogFits'
    BY <1>2, <2>1, LogFitsRests
  <2>7. QED BY <1>10, <2>2, <2>4, <2>5, <2>6, ClInvOf
<1>13. QED BY <1>11, <1>12

-----------------------------------------------------------------------------

\* The composer is emptied, and no draft is looked for until a message comes.
LEMMA LandSendKeeps ==
  ASSUME ClInv, LandSend, hybrid' = hybrid
  PROVE  ClInv'
<1>1. ApiTyped /\ InboxTyped /\ ComposerTyped /\ LogFits /\ DraftsFit /\ BarInv
  BY ClInvIs
<1> HIDE DEF ClInv
<1> PICK c : c = calls["send"].of
  OBVIOUS
<1>2. /\ c # NoConv /\ calls["send"].got = "done" /\ bar' = [EmptyBar EXCEPT !.suppressed = TRUE] /\ Refreshes(c)
      /\ calls' = [calls EXCEPT !["send"] = Nothing] /\ UNCHANGED <<log, draft, stream, open, thread, asks>>
  BY DEF LandSend
<1>3. c \in Convs
  <2>1. calls["send"] # Nothing
    BY <1>2 DEF Nothing
  <2>2. QED BY <1>1, <2>1, CallIs DEF CallNames
<1>4. FetchTyped' /\ LoadsMore
  BY <1>1, <1>2, <1>3, RefreshStarts DEF InboxTyped, FetchTyped
<1>5. /\ calls' \in [CallNames -> ClCall \union {Nothing}] /\ calls'["send"] = Nothing
      /\ calls'["generate"] = calls["generate"]
  BY <1>1, <1>2, CallGoes DEF ComposerTyped, CallNames
<1>6. bar' \in ClBar /\ bar'.draft = Nothing /\ bar'.suppressed = TRUE
  <2>1. EmptyBar \in ClBar /\ EmptyBar.draft = Nothing
    BY EmptyTyped DEF EmptyBar
  <2>2. QED BY <1>2, <2>1 DEF ClBar
<1>7. ApiTyped' /\ ComposerTyped'
  BY <1>1, <1>2, <1>5, <1>6 DEF ApiTyped, ComposerTyped
<1>8. \A d : SendOwes(d)' = SendOwes(d)
  BY <1>2, <1>5 DEF SendOwes
<1>9. InboxTyped' /\ PagesFit' /\ ThreadInv'
  <2>1. Announced(open) => Announced(open)'
    BY <1>2 DEF Announced
  <2>2. QED BY <1>2, <1>4, <1>7, <1>8, <2>1, PageLoads
<1>10. DraftsFit'
  BY <1>1, <1>2, <1>5, <1>6, <1>7, DraftIs, DraftsGoOn
<1>11. BarInv'
  BY <1>6 DEF BarInv
<1>12. LogFits'
  BY <1>2, LogFitsRests
<1>13. QED BY <1>7, <1>9, <1>10, <1>11, <1>12, ClInvOf

\* The bubble of a quick reply may stay for good: it is a ghost from the first.
LEMMA LandQuickKeeps ==
  ASSUME ClInv, LandQuick, hybrid' = hybrid
  PROVE  ClInv'
<1>1. ApiTyped /\ InboxTyped /\ ComposerTyped
  BY ClInvIs
<1> HIDE DEF ClInv
<1> PICK c : c = calls["quick"].of
  OBVIOUS
<1>2. /\ c # NoConv /\ thread' = Bubble(c, 1) /\ Refreshes(c)
      /\ calls' = [calls EXCEPT !["quick"] = Nothing] /\ UNCHANGED <<log, draft, stream, open, bar, asks>>
  BY DEF LandQuick
<1>3. c \in Convs
  <2>1. calls["quick"] # Nothing
    BY <1>2 DEF Nothing
  <2>2. QED BY <1>1, <2>1, CallIs DEF CallNames
<1>4. FetchTyped' /\ LoadsMore
  BY <1>1, <1>2, <1>3, RefreshStarts DEF InboxTyped, FetchTyped
<1>5. /\ calls' \in [CallNames -> ClCall \union {Nothing}] /\ calls'["send"] = calls["send"]
      /\ calls'["generate"] = calls["generate"]
  BY <1>1, <1>2, CallGoes DEF ComposerTyped, CallNames
<1>6. /\ thread' \in ClThread /\ thread'.ids = thread.ids /\ thread'.upto = thread.upto /\ thread'.stale = thread.stale
      /\ open = c => thread'.bubbles = thread.bubbles + 1 /\ thread'.ghosts = thread.ghosts + 1
      /\ open # c => thread' = thread
  BY <1>1, <1>2, BubbleIs
<1>7. ApiTyped' /\ ComposerTyped'
  BY <1>1, <1>2, <1>5 DEF ApiTyped, ComposerTyped
<1>8. InboxTyped' /\ PagesFit' /\ ThreadInv'
  <2>1. thread.bubbles \in Nat /\ thread.ghosts \in Nat /\ Owing(open) \in Nat
    BY <1>1 DEF InboxTyped, ClThread, Owing
  <2>2. Owing(open)' = Owing(open)
    BY <1>2, <1>5 DEF Owing, SendOwes
  <2>3. thread'.bubbles + thread.ghosts + Owing(open) <= thread.bubbles + thread'.ghosts + Owing(open)'
    BY <1>6, <2>1, <2>2
  <2>4. QED BY <1>2, <1>4, <1>6, <1>7, <2>3, ThreadCounts
<1>9. DraftsFit' /\ BarInv'
  BY <1>2, <1>5, <1>7, BarSide
<1>10. LogFits'
  BY <1>2, <1>6, LogFitsRests
<1>11. QED BY <1>7, <1>8, <1>9, <1>10, ClInvOf

\* The bubble of a reply that failed is a ghost.
LEMMA ReplyFailsKeeps ==
  ASSUME ClInv, NEW k \in {"send", "quick"}, ReplyFails(k), hybrid' = hybrid
  PROVE  ClInv'
<1>1. ApiTyped /\ InboxTyped /\ ComposerTyped
  BY ClInvIs
<1> HIDE DEF ClInv
<1> PICK c : c = calls[k].of
  OBVIOUS
<1>2. /\ c # NoConv /\ calls[k].got = "failed"
      /\ thread' = (IF k = "send" /\ open = c THEN [thread EXCEPT !.ghosts = @ + 1] ELSE thread)
      /\ calls' = [calls EXCEPT ![k] = Nothing] /\ UNCHANGED <<log, draft, stream, open, fetches, bar, asks>>
  BY DEF ReplyFails
<1>3. calls[k] # Nothing /\ k \in CallNames
  BY <1>2 DEF Nothing, CallNames
<1>4. /\ calls' \in [CallNames -> ClCall \union {Nothing}] /\ calls'[k] = Nothing
      /\ \A j \in CallNames : j # k => calls'[j] = calls[j]
  BY <1>1, <1>2, <1>3, CallGoes DEF ComposerTyped
<1>5. calls'["generate"] = calls["generate"]
  BY <1>4 DEF CallNames
<1>6. /\ thread \in ClThread /\ thread.bubbles \in Nat /\ thread.ghosts \in Nat
  BY <1>1 DEF InboxTyped, ClThread
<1>7. /\ thread' \in ClThread /\ thread'.ids = thread.ids /\ thread'.upto = thread.upto /\ thread'.stale = thread.stale
      /\ thread'.bubbles = thread.bubbles
      /\ k = "send" /\ open = c => thread'.ghosts = thread.ghosts + 1
      /\ ~(k = "send" /\ open = c) => thread'.ghosts = thread.ghosts
  BY <1>2, <1>6 DEF ClThread
<1>8. ApiTyped' /\ ComposerTyped' /\ FetchTyped' /\ LoadsMore
  BY <1>1, <1>2, <1>4, LoadsRest DEF ApiTyped, ComposerTyped, InboxTyped, FetchTyped
<1>9. Owing(open) \in {0, 1} /\ Owing(open)' \in {0, 1}
  BY DEF Owing
<1>10. ~(k = "send" /\ open = c) => Owing(open)' = Owing(open)
  <2>1. CASE k = "quick"
    <3>1. calls'["send"] = calls["send"]
      BY <1>4, <2>1 DEF CallNames
    <3>2. QED BY <1>2, <3>1 DEF Owing, SendOwes
  <2>2. CASE k = "send" /\ open # c
    BY <1>2, <1>4, <2>2 DEF Owing, SendOwes
  <2>3. QED BY <2>1, <2>2
<1>11. InboxTyped' /\ PagesFit' /\ ThreadInv'
  <2>1. thread'.bubbles + thread.ghosts + Owing(open) <= thread.bubbles + thread'.ghosts + Owing(open)'
    BY <1>6, <1>7, <1>9, <1>10
  <2>2. QED BY <1>2, <1>7, <1>8, <2>1, ThreadCounts
<1>12. DraftsFit' /\ BarInv'
  BY <1>2, <1>5, <1>8, BarSide
<1>13. LogFits'
  BY <1>2, <1>7, LogFitsRests
<1>14. QED BY <1>8, <1>11, <1>12, <1>13, ClInvOf

LEMMA MessageKeeps ==
  ASSUME ClInv, NEW c \in Convs, CustomerWrites(c) \/ OtherReplies(c), hybrid' = hybrid
  PROVE  ClInv'
<1>1. InboxTyped /\ ComposerTyped
  BY ClInvIs
<1> HIDE DEF ClInv
<1>2. UNCHANGED <<open, thread, fetches, bar, asks, calls>> /\ \E by \in {"customer", "agent", "automation"} : Stored(c, by)
  BY DEF CustomerWrites, OtherReplies
<1>3. PICK by \in {"customer", "agent", "automation"} : Stored(c, by)
  BY <1>2
<1>4. InboxTyped' /\ ComposerTyped'
  BY <1>1, <1>2 DEF InboxTyped, ComposerTyped
<1>5. Owing(open)' = Owing(open) /\ Owing(open) \in {0, 1}
  BY <1>2 DEF Owing, SendOwes
<1>6. Owing(open) + (IF by = "customer" \/ open # c THEN 0 ELSE -1) <= Owing(open)'
  BY <1>5
<1>7. QED BY <1>2, <1>3, <1>4, <1>6, StoredKeeps

-----------------------------------------------------------------------------

LEMMA ClInitially == ASSUME ClInit PROVE ClInv
<1> USE ClInit DEF ClInit
<1>1. log \in Seq(ClMessage)
  <2>1. Earlier \in Seq(Convs)
    BY ClientAssumption
  <2>2. \A i \in DOMAIN Earlier : [of |-> Earlier[i], out |-> FALSE, alive |-> TRUE] \in ClMessage
    BY <2>1 DEF ClMessage
  <2>3. DOMAIN Earlier = 1..Len(Earlier) /\ Len(Earlier) \in Nat
    BY <2>1
  <2>4. log = [i \in 1..Len(Earlier) |-> [of |-> Earlier[i], out |-> FALSE, alive |-> TRUE]]
    BY <2>3
  <2>5. log \in [1..Len(Earlier) -> ClMessage]
    BY <2>2, <2>3, <2>4
  <2>6. QED BY <2>3, <2>5
<1>2. draft \in [Convs -> ClDraft] /\ \A c \in Convs : draft[c].n = 0 /\ draft[c].live = FALSE /\ draft[c].since = 0
  BY DEF ClDraft
<1>3. stream \in ClStream /\ stream.queue = <<>>
  <2>1. <<>> \in Seq(ClEvent)
    OBVIOUS
  <2>2. QED BY <2>1 DEF ClStream
<1>4. ApiTyped
  BY <1>1, <1>2, <1>3 DEF ApiTyped
<1>5. InboxTyped
  BY EmptyTyped DEF InboxTyped
<1>6. ComposerTyped
  BY EmptyTyped DEF ComposerTyped
<1>7. thread.ids = {} /\ thread.upto = 0 /\ bar.draft = Nothing
  BY DEF EmptyThread, EmptyBar
<1>8. LogFits
  <2>1. Len(log) \in Nat
    BY <1>1
  <2>2. QED BY <1>2, <1>7, <2>1 DEF LogFits
<1>9. DraftsFit
  BY <1>7 DEF DraftsFit, CallNames
<1>10. PagesFit
  BY DEF PagesFit
<1>11. ThreadInv /\ BarInv
  BY <1>7 DEF ThreadInv, BarInv, Told
<1>12. QED BY <1>4, <1>5, <1>6, <1>8, <1>9, <1>10, <1>11 DEF ClInv, ClTyped

LEMMA ClStepKeeps == ASSUME ClInv, [ClNext]_clVars PROVE ClInv'
<1> HIDE DEF ClInv
<1>1. CASE UNCHANGED clVars
  <2>1. UNCHANGED <<hybrid, log, draft, stream, open, thread, fetches, bar, asks, calls>>
    BY <1>1 DEF clVars
  <2>2. FetchTyped
    BY ClInvIs DEF InboxTyped, FetchTyped
  <2>3. FetchTyped' /\ LoadsMore
    BY <2>1, <2>2, LoadsRest
  <2>4. QED BY <2>1, <2>3, LoadKeeps
<1>2. ASSUME ClMoves, hybrid' = hybrid PROVE ClInv'
  <2>1. ASSUME NEW c \in Convs, CustomerWrites(c) \/ OtherReplies(c) \/ DraftIsMade(c) \/ Select(c) PROVE ClInv'
    BY <1>2, <2>1, MessageKeeps, DraftIsMadeKeeps, SelectKeeps
  <2>2. ASSUME NEW i \in DOMAIN log, CustomerUnsends(i) PROVE ClInv'
    BY <1>2, <2>2, UnsendsKeeps
  <2>3. ASSUME Close \/ TakeEvent \/ StreamBreaks \/ StreamOpens \/ PollThread \/ LoadOlder PROVE ClInv'
    BY <1>2, <2>3, CloseKeeps, TakeEventKeeps, StreamBreaksKeeps, StreamOpensKeeps, PollThreadKeeps, LoadOlderKeeps
  <2>4. ASSUME NEW n \in LoadPlaces, ServePage(n) \/ LandPage(n) \/ LoadFails(n) PROVE ClInv'
    BY <1>2, <2>4, ServePageKeeps, LandPageKeeps, LoadFailsKeeps
  <2>5. ASSUME NEW n \in AskPlaces, ServeAsk(n) \/ LandAsk(n) PROVE ClInv'
    BY <1>2, <2>5, ServeAskKeeps, LandAskKeeps
  <2>6. ASSUME TypeText \/ Wipe PROVE ClInv'
    <3>1. Typed \in ClText /\ NoText \in ClText
      BY DEF ClText
    <3>2. Writes(Typed) \/ Writes(NoText)
      BY <2>6 DEF TypeText, Wipe
    <3>3. QED BY <1>2, <3>1, <3>2, WritesKeeps
  <2>7. ASSUME PressGenerate \/ ServeGenerate \/ LandGenerate \/ PressDismiss \/ ServeDismiss \/ LandDismiss PROVE ClInv'
    BY <1>2, <2>7, PressGenerateKeeps, ServeGenerateKeeps, LandGenerateKeeps, PressDismissKeeps, ServeDismissKeeps, LandDismissKeeps
  <2>8. ASSUME PressSend \/ PressQuick \/ LandSend \/ LandQuick PROVE ClInv'
    BY <1>2, <2>8, PressSendKeeps, PressQuickKeeps, LandSendKeeps, LandQuickKeeps
  <2>9. ASSUME NEW k \in {"send", "quick"}, ServeReply(k) \/ ReplyFails(k) PROVE ClInv'
    BY <1>2, <2>9, ServeReplyKeeps, ReplyFailsKeeps
  <2>10. QED BY <1>2, <2>1, <2>2, <2>3, <2>4, <2>5, <2>6, <2>7, <2>8, <2>9 DEF ClMoves
<1>3. QED BY <1>1, <1>2 DEF ClNext

LEMMA ClTypesHold == ASSUME ClInv PROVE ClTypeOK
<1>1. ApiTyped /\ InboxTyped /\ ComposerTyped /\ LogFits /\ DraftsFit
  BY ClInvIs
<1> HIDE DEF ClInv
<1>2. Len(log) \in Nat /\ DOMAIN log = 1..Len(log)
  BY <1>1, HeldIs
<1>3. draft \in [Convs -> [n : Nat, live : BOOLEAN, since : 0..Len(log)]]
  <2>1. \A c \in Convs : draft[c] \in [n : Nat, live : BOOLEAN, since : 0..Len(log)]
    <3> SUFFICES ASSUME NEW c \in Convs PROVE draft[c] \in [n : Nat, live : BOOLEAN, since : 0..Len(log)]
      OBVIOUS
    <3>1. draft[c] \in ClDraft /\ draft[c].since \in 0..Len(log)
      BY <1>1, <1>2, DraftIs DEF LogFits
    <3>2. QED BY <3>1 DEF ClDraft
  <2>2. QED BY <1>1, <2>1 DEF ApiTyped
<1>4. log \in Seq([of : Convs, out : BOOLEAN, alive : BOOLEAN]) /\ hybrid \in BOOLEAN
  BY <1>1 DEF ApiTyped, ClMessage
<1>5. stream.queue \in Seq([type : {"message", "deleted", "draft"}, of : Convs]) /\ stream.untold \subseteq Convs
  BY <1>1 DEF ApiTyped, ClStream, ClEvent
<1>6. open \in Convs \union {NoConv} /\ thread.ids \subseteq DOMAIN log /\ thread.bubbles \in Nat /\ thread.ghosts \in Nat
  BY <1>1, <1>2 DEF InboxTyped, ClThread, LogFits
<1>7. \A n \in LoadPlaces : fetches[n] # Nothing => fetches[n].of \in Convs /\ fetches[n].kind \in {"full", "quiet", "older"}
  BY <1>1 DEF InboxTyped, ClLoad
<1>8. \A n \in AskPlaces : asks[n] # Nothing => asks[n].of \in Convs
  BY <1>1, AskIs
<1>9. \A k \in CallNames : calls[k].of \in Convs \union {NoConv}
  BY <1>1, CallIs DEF Nothing
<1>10. bar.draft # Nothing => bar.draft.of \in Convs /\ bar.draft.n \in 1..draft[bar.draft.of].n
  BY <1>1 DEF DraftsFit, RealDraft
<1>11. QED BY <1>3, <1>4, <1>5, <1>6, <1>7, <1>8, <1>9, <1>10 DEF ClTypeOK

LEMMA ClHolds == ASSUME ClInv PROVE PageHolds
<1>1. ApiTyped /\ InboxTyped /\ ComposerTyped /\ LogFits /\ ThreadInv /\ BarInv
  BY ClInvIs
<1> HIDE DEF ClInv
<1>2. ASSUME Still
      PROVE  Told /\ (\A i : ~Coming(open, i)) /\ ~FullComing(open) /\ Owing(open) = 0 /\ ~DraftComing(open)
  <2>1. open # NoConv /\ stream.queue = <<>> /\ open \notin stream.untold
    BY <1>2 DEF Still
  <2>2. (\A n \in LoadPlaces : fetches[n] = Nothing) /\ (\A n \in AskPlaces : asks[n] = Nothing)
        /\ calls["send"] = Nothing /\ calls["generate"] = Nothing
    BY <1>2 DEF Still, CallNames
  <2>3. DOMAIN stream.queue = {}
    BY <2>1
  <2>4. ~Announced(open) /\ ~DraftAnnounced(open)
    BY <2>3 DEF Announced, DraftAnnounced
  <2>5. (\A i : ~Coming(open, i)) /\ ~FullComing(open)
    BY <2>2, <2>4 DEF Coming, Brings, FullComing, IsFull
  <2>6. Owing(open) = 0
    BY <2>2 DEF Owing, SendOwes
  <2>7. ~DraftComing(open)
    BY <2>2, <2>4 DEF DraftComing, AskBrings
  <2>8. QED BY <2>1, <2>5, <2>6, <2>7 DEF Told
<1>3. ASSUME Still
      PROVE  /\ Whole(open, thread.ids, thread.upto) /\ \A i \in Held(open) : i <= thread.upto
             /\ thread.bubbles <= thread.ghosts + Cardinality(Replies(open, thread.upto))
  <2>1. ThreadFits(open) /\ (\A i : ~Coming(open, i)) /\ ~FullComing(open) /\ Owing(open) = 0
    BY <1>1, <1>2, <1>3 DEF ThreadInv
  <2>2. /\ Whole(open, thread.ids, thread.upto)
        /\ thread.bubbles <= thread.ghosts + Owing(open) + Cardinality(Replies(open, thread.upto))
    BY <2>1 DEF ThreadFits
  <2>3. \A i \in Held(open) : ~(i > thread.upto)
    BY <2>1 DEF ThreadFits
  <2>4. \A i \in Held(open) : i \in Nat
    BY <1>1, HeldIs
  <2>5. thread.upto \in Nat /\ thread.ghosts \in Nat
    BY <1>1 DEF InboxTyped, ClThread
  <2>6. QED BY <2>1, <2>2, <2>3, <2>4, <2>5
<1>4. ThreadIsWhole
  BY <1>3 DEF ThreadIsWhole, Whole
<1>5. NoGhosts
  <2> SUFFICES ASSUME Still PROVE thread.bubbles <= thread.ghosts
    BY DEF NoGhosts
  <2>1. \A i \in Held(open) : i <= thread.upto /\ i \in Nat
    BY <1>1, <1>3, HeldIs
  <2>2. thread.upto \in Nat /\ thread.ghosts \in Nat /\ thread.bubbles \in Nat
    BY <1>1 DEF InboxTyped, ClThread
  <2>3. Replies(open, thread.upto) = {}
    BY <2>1, <2>2 DEF Replies
  <2>4. Cardinality(Replies(open, thread.upto)) = 0
    BY <2>3, FS_EmptySet
  <2>5. QED BY <1>3, <2>2, <2>4
<1>6. DraftsComeThrough
  <2>1. bar.draft # Nothing /\ ~bar.astray => bar.draft.of = open
    BY <1>1 DEF BarInv
  <2>2. ASSUME Still, hybrid, OnOffer(open), ~bar.suppressed, ~bar.turned PROVE bar.draft # Nothing
    BY <1>1, <1>2, <2>2 DEF BarInv
  <2>3. QED BY <2>1, <2>2 DEF DraftsComeThrough
<1>7. QED BY <1>4, <1>5, <1>6 DEF PageHolds


-----------------------------------------------------------------------------
(* Once nothing is under way, no event was lost, no answer overtaken, and no more    *)
(* than a page came at once, the thread shows every message of the open conversation *)
(* since the oldest it shows, and no optimistic one whose reply has come; a draft in *)
(* the composer is of the open conversation unless its answer came late, and one on  *)
(* offer is there unless somebody turned to the composer: for any number of          *)
(* conversations, messages, drafts and loads, in any order.                          *)
THEOREM InboxStaysRight == PlatformSpec => []InboxIsRight
<1> DEFINE I == part = "client" => ClInv
<1>1. PlatformInit => I
  BY ClInitially DEF PlatformInit
<1>2. I /\ [PlatformNext]_plVars => I'
  <2> SUFFICES ASSUME I, [PlatformNext]_plVars, part' = "client"
               PROVE  ClInv'
    OBVIOUS
  <2>1. part = "client" /\ [ClNext]_clVars
    BY DEF PlatformNext, plVars
  <2>2. QED BY <2>1, ClStepKeeps
<1>3. I => InboxIsRight
  BY ClHolds DEF InboxIsRight
<1>4. QED BY <1>1, <1>2, <1>3, PTL DEF PlatformSpec

-----------------------------------------------------------------------------
(* Every state of the five components is well formed: a counter is never negative,   *)
(* and a draft, a message or a conversation that a page names exists, for any number *)
(* of conversations, documents, workspaces and calls.                                *)
THEOREM PlatformIsWellTyped == PlatformSpec => []TypesOK
<1> DEFINE I == /\ Inv
                /\ part = "knowledge" => KnInv
                /\ part = "quality" => QaInv
                /\ part = "client" => ClInv
                /\ part = "workbench" => BenchInv
<1>1. PlatformInit => I
  BY Initially, KnowledgeInitially, QualityInitially, ClInitially, BenchInitially DEF PlatformInit
<1>2. I /\ [PlatformNext]_plVars => I'
  <2> SUFFICES ASSUME I, [PlatformNext]_plVars
               PROVE  I'
    OBVIOUS
  <2>1. Inv'
    <3>1. [Next]_vars
      BY DEF PlatformNext, plVars
    <3>2. QED BY <3>1, EveryStep
  <2>2. ASSUME part' = "knowledge" PROVE KnInv'
    <3>1. part = "knowledge" /\ [KnNext]_knVars
      BY <2>2 DEF PlatformNext, plVars
    <3>2. QED BY <3>1, KnowledgeStepKeeps
  <2>3. ASSUME part' = "quality" PROVE QaInv'
    <3>1. part = "quality" /\ [QaNext]_qaVars
      BY <2>3 DEF PlatformNext, plVars
    <3>2. QED BY <3>1, QualityStepKeeps
  <2>4. ASSUME part' = "client" PROVE ClInv'
    <3>1. part = "client" /\ [ClNext]_clVars
      BY <2>4 DEF PlatformNext, plVars
    <3>2. QED BY <3>1, ClStepKeeps
  <2>5. ASSUME part' = "workbench" PROVE BenchInv'
    <3>1. part = "workbench" /\ [WbNext]_wbVars
      BY <2>5 DEF PlatformNext, plVars
    <3>2. QED BY <3>1, BenchStepKeeps
  <2>6. QED BY <2>1, <2>2, <2>3, <2>4, <2>5
<1>3. I => TypesOK
  BY KnTypesHold, QaTypesHold, ClTypesHold, BenchTypesHold DEF Inv, TypesOK
<1>4. QED BY <1>1, <1>2, <1>3, PTL DEF PlatformSpec
=============================================================================
