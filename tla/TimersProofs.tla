---------------------------- MODULE TimersProofs ----------------------------
(***************************************************************************)
(* What holds of an instance of the timer driver for any number of calls,  *)
(* whatever the width of its registers, and of the outputs on its counter. *)
(***************************************************************************)
EXTENDS Pulses, SequenceTheorems, TLAPS

LEMMA PrescaleNames ==
  Prescale = {"VALUE_1", "VALUE_2", "VALUE_4", "VALUE_8", "VALUE_16",
              "VALUE_32", "VALUE_64", "VALUE_256"}
BY DEF Prescale, Divisor

LEMMA DivisorInjective ==
  ASSUME NEW p \in Prescale, NEW q \in Prescale, Divisor[p] = Divisor[q]
  PROVE  p = q
BY PrescaleNames DEF Divisor

(***************************************************************************)
(* The calls as lists of accesses.                                         *)
(***************************************************************************)
LEMMA OneAccess ==
  ASSUME NEW a \in Access, NEW q \in Seq(Access)
  PROVE  /\ <<a>> \o q \in Seq(Access) /\ <<a>> \o q # <<>>
         /\ Head(<<a>> \o q) = a /\ Tail(<<a>> \o q) = q
OBVIOUS

LEMMA TwoAccesses ==
  ASSUME NEW a \in Access, NEW b \in Access, NEW q \in Seq(Access)
  PROVE  /\ <<a, b>> \o q \in Seq(Access) /\ <<a, b>> \o q # <<>>
         /\ Head(<<a, b>> \o q) = a /\ Tail(<<a, b>> \o q) = <<b>> \o q
OBVIOUS

Suspend == <<"disable source", "stop">>
Resume == <<"clear flag", "enable source", "start">>
End == <<"clear flag", "ready">>

\* A call that suspends a timer that runs goes on with what follows it; else it is
\* only what follows.
Suspended(q) == IF Running THEN Suspend \o q ELSE q

Clock(s, p) == <<s>> \o (<<p>> \o Resume)

LEMMA AccessNames ==
  /\ Suspend \in Seq(Access) /\ Resume \in Seq(Access) /\ End \in Seq(Access)
  /\ ClockSource \subseteq Access /\ Prescale \subseteq Access
  /\ _Suspend \in Seq(Access)
<1>1. /\ Suspend \in Seq(Access) /\ Resume \in Seq(Access)
      /\ End \in Seq(Access) /\ <<>> \in Seq(Access)
  BY DEF Access, Suspend, Resume, End
<1>2. ClockSource \subseteq Access /\ Prescale \subseteq Access
  BY DEF Access
<1> QED
  BY <1>1, <1>2 DEF _Suspend, Suspend

LEMMA StartAccesses == StartCall = Resume \o <<"running">>
BY DEF StartCall, _Resume, Resume

LEMMA SuspendFirst ==
  ASSUME NEW q \in Seq(Access)
  PROVE  _Suspend \o q = Suspended(q)
<1>1. CASE Running
  BY <1>1 DEF _Suspend, Suspended, Suspend
<1>2. CASE ~Running
  BY <1>2, ConcatEmptySeq DEF _Suspend, Suspended
<1> QED
  BY <1>1, <1>2

LEMMA StopAccesses == StopCall = Suspended(End)
BY SuspendFirst, AccessNames DEF StopCall, End

LEMMA ClockAccess ==
  ASSUME NEW s \in ClockSource, NEW p \in Prescale
  PROVE  \/ ClockAccesses(s, p) = <<>>
         \/ ClockAccesses(s, p) = <<s>> \o <<p>>
<1>1. CASE _ClockSourceSet(s) = <<>>
  BY <1>1 DEF ClockAccesses
<1>2. CASE _ClockSourceSet(s) # <<>>
  BY <1>2 DEF ClockAccesses, _ClockSourceSet
<1> QED
  BY <1>1, <1>2

LEMMA ClockSetAccesses ==
  ASSUME NEW s \in ClockSource, NEW p \in Prescale
  PROVE  IF Running
         THEN ClockSetCall(s, p) \in {Suspend \o Resume, Suspend \o Clock(s, p)}
         ELSE ClockSetCall(s, p) \in {<<>>, <<s>> \o <<p>>}
<1> USE AccessNames
<1> s \in Access /\ p \in Access
  OBVIOUS
<1>1. <<s>> \in Seq(Access) /\ <<p>> \in Seq(Access)
      /\ <<s>> \o <<p>> \in Seq(Access)
  OBVIOUS
<1>2. CASE Running
  <2>1. ClockSetCall(s, p) = (Suspend \o ClockAccesses(s, p)) \o Resume
    BY <1>2 DEF ClockSetCall, _Suspend, _Resume, Suspend, Resume
  <2>2. ASSUME ClockAccesses(s, p) = <<>>
        PROVE  ClockSetCall(s, p) = Suspend \o Resume
    BY <2>1, <2>2
  <2>3. ASSUME ClockAccesses(s, p) = <<s>> \o <<p>>
        PROVE  ClockSetCall(s, p) = Suspend \o Clock(s, p)
    <3>1. ClockSetCall(s, p) = Suspend \o ((<<s>> \o <<p>>) \o Resume)
      BY <1>1, <2>1, <2>3, ConcatAssociative
    <3>2. (<<s>> \o <<p>>) \o Resume = <<s>> \o (<<p>> \o Resume)
      BY <1>1, ConcatAssociative
    <3> QED
      BY <3>1, <3>2 DEF Clock
  <2> QED
    BY <1>2, <2>2, <2>3, ClockAccess
<1>3. CASE ~Running
  <2>1. ClockSetCall(s, p) = (<<>> \o ClockAccesses(s, p)) \o <<>>
    BY <1>3 DEF ClockSetCall, _Suspend, _Resume
  <2>2. ClockSetCall(s, p) = ClockAccesses(s, p)
    BY <1>1, <2>1, ClockAccess
  <2> QED
    BY <1>3, <2>2, ClockAccess
<1> QED
  BY <1>2, <1>3
-----------------------------------------------------------------------------
(***************************************************************************)
(* Types.                                                                  *)
(***************************************************************************)
\* A client's step is one of four, on the instance of the behaviour.
Calls(accesses) == Call(instance, accesses)

Accesses ==
  \/ Calls(StartCall)
  \/ Calls(StopCall)
  \/ \E s \in ClockSource, p \in Prescale : Calls(ClockSetCall(s, p))

Sets ==
  \/ \E v \in Values \union {0} : CounterSet(instance, v)
  \/ \E v \in Values : PeriodSet(instance, v)

Initialised == \E p \in Prescale : Initialize(instance, p)

Steps ==
  \/ Initialised \/ Accesses \/ Sets
  \/ AccessRegister \/ CountClock \/ EnterHandler \/ LeaveHandler

LEMMA NextSteps ==
  ASSUME TimersNext
  PROVE  Steps
<1>1. ASSUME NEW i, NEW accesses, Call(i, accesses)
      PROVE  Calls(accesses)
  BY <1>1 DEF Call, Calls
<1>2. ASSUME NEW handle, DRV_TMR_Start(handle)
      PROVE  Accesses
  BY <1>1, <1>2 DEF DRV_TMR_Start, DRV_TMR0_Start, DRV_TMR1_Start,
                    DRV_TMR2_Start, Accesses
<1>3. ASSUME NEW handle, DRV_TMR_Stop(handle)
      PROVE  Accesses
  BY <1>1, <1>3 DEF DRV_TMR_Stop, DRV_TMR0_Stop, DRV_TMR1_Stop, DRV_TMR2_Stop,
                    Accesses
<1>4. ASSUME NEW handle, DRV_TMR_ClockSet(handle)
      PROVE  Accesses
  BY <1>1, <1>4, TimersAssumption
  DEF DRV_TMR_ClockSet, DRV_TMR0_ClockSet, DRV_TMR1_ClockSet,
      DRV_TMR2_ClockSet, Accesses
<1>5. ASSUME NEW i, NEW v, CounterSet(i, v)
      PROVE  CounterSet(instance, v)
  BY <1>5 DEF CounterSet
<1>6. ASSUME NEW handle,
             DRV_TMR_CounterValueSet(handle) \/ DRV_TMR_CounterClear(handle)
      PROVE  Sets
  BY <1>5, <1>6
  DEF DRV_TMR_CounterValueSet, DRV_TMR0_CounterValueSet,
      DRV_TMR1_CounterValueSet, DRV_TMR2_CounterValueSet,
      DRV_TMR_CounterClear, DRV_TMR0_CounterClear, DRV_TMR1_CounterClear,
      DRV_TMR2_CounterClear, Sets
<1>7. ASSUME DRV_TMRx_PeriodValueSet
      PROVE  Sets
  <2>1. ASSUME NEW i, NEW v, PeriodSet(i, v)
        PROVE  PeriodSet(instance, v)
    BY <2>1 DEF PeriodSet
  <2> QED
    BY <1>7, <2>1
    DEF DRV_TMRx_PeriodValueSet, DRV_TMR0_PeriodValueSet,
        DRV_TMR1_PeriodValueSet, DRV_TMR2_PeriodValueSet, Sets
<1>8. ASSUME NEW index, DRV_TMR_Initialize(index)
      PROVE  Initialised
  <2>1. ASSUME NEW i, NEW p, Initialize(i, p)
        PROVE  Initialize(instance, p)
    BY <2>1 DEF Initialize
  <2>2. {"VALUE_8", "VALUE_2", "VALUE_4"} \subseteq Prescale
    BY PrescaleNames
  <2> QED
    BY <1>8, <2>1, <2>2
    DEF DRV_TMR_Initialize, DRV_TMR0_Initialize, DRV_TMR1_Initialize,
        DRV_TMR2_Initialize, Initialised
<1> QED
  BY <1>2, <1>3, <1>4, <1>6, <1>7, <1>8
  DEF TimersNext, Client, DRV_TMR_Close, DRV_TMR_Deinitialize, Steps

LEMMA AccessesAreTyped ==
  ASSUME NEW s \in ClockSource, NEW p \in Prescale
  PROVE  /\ StartCall \in Seq(Access) /\ StopCall \in Seq(Access)
         /\ ClockSetCall(s, p) \in Seq(Access)
<1>1. s \in Access /\ p \in Access
  BY AccessNames
<1>2. StartCall \in Seq(Access)
  <2> "running" \in Access
    BY DEF Access
  <2>1. Resume \in Seq(Access) /\ <<"running">> \in Seq(Access)
    BY AccessNames
  <2> QED
    BY <2>1, StartAccesses
<1>3. Suspend \o End \in Seq(Access) /\ Suspend \o Resume \in Seq(Access)
  BY AccessNames
<1>4. Clock(s, p) \in Seq(Access) /\ <<s>> \o <<p>> \in Seq(Access)
  BY <1>1, AccessNames DEF Clock
<1>5. Suspend \o Clock(s, p) \in Seq(Access) /\ <<>> \in Seq(Access)
  BY <1>4, AccessNames
<1> QED
  BY <1>2, <1>3, <1>4, <1>5, StopAccesses, ClockSetAccesses, AccessNames
  DEF Suspended

LEMMA TypeStep ==
  ASSUME TimersTypeOK, Steps
  PROVE  TimersTypeOK'
<1>1. CASE Initialised
  <2>1. 0 \in 0..(Modulus - 1) /\ ResetPeriod \in 1..(Modulus - 1)
    BY TimersAssumption
  <2>2. "internal" \in ClockSource
    BY DEF ClockSource
  <2> QED
    BY <1>1, <2>1, <2>2, Zenon DEF TimersTypeOK, Initialised, Initialize
<1>2. CASE Accesses
  <2>1. todo' \in Seq(Access)
    <3>1. "internal" \in ClockSource /\ "VALUE_1" \in Prescale
      BY PrescaleNames DEF ClockSource
    <3> QED
      BY <1>2, <3>1, AccessesAreTyped DEF Accesses, Calls, Call
  <2>2. calls' \in 0..MaxCalls
    BY <1>2, TimersAssumption DEF TimersTypeOK, Accesses, Calls, Call
  <2>3. UNCHANGED <<instance, timer, flag, enabled, Running, handling, ready>>
    BY <1>2 DEF Accesses, Calls, Call
  <2> QED
    BY <2>1, <2>2, <2>3, Zenon DEF TimersTypeOK, timer
<1>3. CASE Sets
  <2>1. \A v \in Values : v % Modulus \in 1..(Modulus - 1)
    BY TimersAssumption
  <2>2. 0 % Modulus = 0
    BY TimersAssumption
  <2> QED
    BY <1>3, <2>1, <2>2, TimersAssumption
    DEF TimersTypeOK, Sets, CounterSet, PeriodSet
<1>4. CASE AccessRegister
  <2>1. /\ flag' \in BOOLEAN /\ enabled' \in BOOLEAN
        /\ on' \in BOOLEAN /\ Running' \in BOOLEAN
    <3>1. /\ flag' = (flag /\ Head(todo) # "clear flag")
          /\ enabled' = ((enabled \/ Head(todo) = "enable source")
                         /\ Head(todo) # "disable source")
          /\ on' = ((on \/ Head(todo) = "start") /\ Head(todo) # "stop")
          /\ Running' = ((Running \/ Head(todo) = "running")
                         /\ Head(todo) # "ready")
      BY <1>4, Zenon DEF AccessRegister
    <3> QED
      BY <3>1, Zenon
  <2>2. source' \in ClockSource /\ prescale' \in Prescale
    BY <1>4 DEF TimersTypeOK, AccessRegister
  <2>3. todo' \in Seq(Access)
    <3>1. todo \in Seq(Access) /\ todo # <<>> /\ todo' = Tail(todo)
      BY <1>4 DEF TimersTypeOK, AccessRegister
    <3> QED
      BY <3>1, HeadTailProperties
  <2>4. UNCHANGED <<instance, counter, pr, handling, calls, ready>>
    BY <1>4 DEF AccessRegister
  <2> QED
    BY <2>1, <2>2, <2>3, <2>4, Zenon DEF TimersTypeOK
<1>5. CASE CountClock
  <2>1. counter' \in 0..(Modulus - 1)
    BY <1>5, TimersAssumption DEF TimersTypeOK, CountClock
  <2>2. flag' \in BOOLEAN
    BY <1>5, Zenon DEF TimersTypeOK, CountClock
  <2> QED
    BY <1>5, <2>1, <2>2, Zenon DEF TimersTypeOK, CountClock
<1>6. CASE EnterHandler \/ LeaveHandler
  BY <1>6, Zenon DEF TimersTypeOK, EnterHandler, LeaveHandler, timer
<1> QED
  BY <1>1, <1>2, <1>3, <1>4, <1>5, <1>6 DEF Steps

\* The types of an instance: the period never is 0, which no divider is.
THEOREM TimersTypeCorrect == TimersSpec => []TimersTypeOK
<1>1. TimersInit => TimersTypeOK
  <2>1. /\ 0 \in 0..(Modulus - 1) /\ ResetPeriod \in 1..(Modulus - 1)
        /\ 0 \in 0..MaxCalls /\ <<>> \in Seq(Access)
    BY TimersAssumption
  <2>2. "internal" \in ClockSource /\ "VALUE_1" \in Prescale
    BY PrescaleNames DEF ClockSource
  <2> QED
    BY <2>1, <2>2, Zenon DEF TimersInit, TimersTypeOK
<1>2. TimersTypeOK /\ [TimersNext]_timersVars => TimersTypeOK'
  <2>1. TimersTypeOK /\ UNCHANGED timersVars => TimersTypeOK'
    BY DEF TimersTypeOK, timersVars, timer
  <2> QED
    BY <2>1, NextSteps, TypeStep
<1> QED
  BY <1>1, <1>2, PTL DEF TimersSpec
-----------------------------------------------------------------------------
(***************************************************************************)
(* Between calls a timer is quiet or going.  Within one, what holds is     *)
(* told by the accesses that are left: a call that suspends the timer      *)
(* knows that it ran, and every call ends with the accesses that bring     *)
(* the flag, the interrupt and the timer together again.                   *)
(***************************************************************************)
Quiet == ~Running /\ ~on /\ ~enabled /\ ~flag
Going == Running /\ on /\ enabled

InStart ==
  \/ todo = Resume \o <<"running">> /\ (Quiet \/ Going)
  \/ todo = <<"enable source", "start">> \o <<"running">> /\ (Quiet \/ Going)
  \/ todo = <<"start">> \o <<"running">> /\ enabled
  \/ todo = <<"running">> /\ enabled /\ on

InStop ==
  \/ todo = Suspend \o End /\ Going
  \/ todo = <<"stop">> \o End /\ ~enabled
  \/ todo = End /\ ~enabled /\ ~on
  \/ todo = <<"ready">> /\ ~enabled /\ ~on /\ ~flag

ClockOf(s, p) == {Resume, Clock(s, p)}

InClockSet ==
  \/ \E s \in ClockSource, p \in Prescale :
       \/ \E q \in ClockOf(s, p) : todo = Suspend \o q /\ Going
       \/ \E q \in ClockOf(s, p) : todo = <<"stop">> \o q /\ Running
       \/ todo = Clock(s, p) /\ Running
       \/ todo = <<p>> \o Resume /\ Running
       \/ todo = <<s>> \o <<p>> /\ Quiet
       \/ todo = <<p>> /\ Quiet
  \/ todo = Resume /\ Running
  \/ todo = <<"enable source", "start">> /\ Running
  \/ todo = <<"start">> /\ Running /\ enabled

CallInv ==
  /\ \/ todo = <<>> /\ (Quiet \/ Going)
     \/ InStart
     \/ InStop
     \/ InClockSet
  /\ handling => enabled

\* Lists written out and their first access.
LEMMA ListOfThree ==
  ASSUME NEW a \in Access, NEW b \in Access, NEW c \in Access
  PROVE  Head(<<a, b, c>>) = a /\ Tail(<<a, b, c>>) = <<b, c>>
OBVIOUS

LEMMA ListOfTwo ==
  ASSUME NEW a \in Access, NEW b \in Access
  PROVE  Head(<<a, b>>) = a /\ Tail(<<a, b>>) = <<b>>
OBVIOUS

LEMMA ListOfOne ==
  ASSUME NEW a \in Access
  PROVE  <<a>> \in Seq(Access)
OBVIOUS

LEMMA Lists ==
  /\ Head(Resume) = "clear flag" /\ Tail(Resume) = <<"enable source", "start">>
  /\ Head(<<"enable source", "start">>) = "enable source"
  /\ Tail(<<"enable source", "start">>) = <<"start">>
  /\ Head(End) = "clear flag" /\ Tail(End) = <<"ready">>
<1>1. "clear flag" \in Access /\ "enable source" \in Access /\ "start" \in Access
  BY DEF Access
<1>2. "ready" \in Access
  BY DEF Access
<1>3. Head(Resume) = "clear flag" /\ Tail(Resume) = <<"enable source", "start">>
  BY <1>1, ListOfThree, Zenon DEF Resume
<1>4. /\ Head(<<"enable source", "start">>) = "enable source"
      /\ Tail(<<"enable source", "start">>) = <<"start">>
  BY <1>1, ListOfTwo, Zenon
<1>5. Head(End) = "clear flag" /\ Tail(End) = <<"ready">>
  BY <1>1, <1>2, ListOfTwo, Zenon DEF End
<1> QED
  BY <1>3, <1>4, <1>5, Zenon

\* One access and what it leaves.
LEMMA Accessed ==
  ASSUME NEW a, NEW q, Head(todo) = a, Tail(todo) = q, AccessRegister
  PROVE  /\ todo' = q /\ ~handling /\ ~handling'
         /\ flag' <=> flag /\ a # "clear flag"
         /\ enabled' <=> (enabled \/ a = "enable source") /\ a # "disable source"
         /\ on' <=> (on \/ a = "start") /\ a # "stop"
         /\ Running' <=> (Running \/ a = "running") /\ a # "ready"
BY Zenon DEF AccessRegister

Restart == <<"enable source", "start">>

LEMMA FirstOfThree ==
  ASSUME NEW a \in Access, NEW b \in Access, NEW c \in Access
  PROVE  /\ <<a>> \in Seq(Access) /\ <<b, c>> \in Seq(Access)
         /\ <<a, b, c>> = <<a>> \o <<b, c>>
OBVIOUS

LEMMA ResumeThen ==
  ASSUME NEW q \in Seq(Access)
  PROVE  /\ Head(Resume \o q) = "clear flag"
         /\ Tail(Resume \o q) = <<"enable source", "start">> \o q
         /\ Resume \o q # <<>>
<1>1. "clear flag" \in Access /\ "enable source" \in Access /\ "start" \in Access
  BY DEF Access
<1>2. <<"clear flag">> \in Seq(Access) /\ Restart \in Seq(Access)
  BY <1>1, FirstOfThree, Zenon DEF Restart
<1>3. Resume = <<"clear flag">> \o Restart
  BY <1>1, FirstOfThree, Zenon DEF Resume, Restart
<1>4. Restart \o q \in Seq(Access)
  BY <1>2, ConcatProperties
<1>5. Resume \o q = <<"clear flag">> \o (Restart \o q)
  <2>1. ASSUME NEW a \in Seq(Access), NEW b \in Seq(Access), Resume = a \o b
        PROVE  Resume \o q = a \o (b \o q)
    BY <2>1, ConcatAssociative
  <2> QED
    BY <1>2, <1>3, <2>1, Zenon
<1>6. Head(Resume \o q) = "clear flag" /\ Tail(Resume \o q) = Restart \o q
      /\ Resume \o q # <<>>
  <2>1. ASSUME NEW a \in Access, NEW b \in Seq(Access), Resume \o q = <<a>> \o b
        PROVE  /\ Head(Resume \o q) = a /\ Tail(Resume \o q) = b
               /\ Resume \o q # <<>>
    BY <2>1, OneAccess
  <2> QED
    BY <1>1, <1>4, <1>5, <2>1, Zenon
<1> QED
  BY <1>6 DEF Restart

LEMMA StartStep ==
  ASSUME InStart, AccessRegister
  PROVE  CallInv'
<1> USE DEF Quiet, Going
<1>1. <<"running">> \in Seq(Access)
  BY DEF Access
<1>2. CASE todo = Resume \o <<"running">> /\ (Quiet \/ Going)
  <2>1. /\ Head(todo) = "clear flag"
        /\ Tail(todo) = <<"enable source", "start">> \o <<"running">>
    BY <1>1, <1>2, ResumeThen, Zenon
  <2>2. /\ todo' = <<"enable source", "start">> \o <<"running">>
        /\ (Quiet \/ Going)' /\ ~handling'
    BY Accessed, <1>2, <2>1
  <2> QED
    BY <2>2 DEF CallInv, InStart
<1>3. CASE todo = <<"enable source", "start">> \o <<"running">>
             /\ (Quiet \/ Going)
  <2>1. /\ Head(todo) = "enable source"
        /\ Tail(todo) = <<"start">> \o <<"running">>
    <3>1. {"enable source", "start"} \subseteq Access
      BY DEF Access
    <3> QED
      BY <1>1, <1>3, <3>1, TwoAccesses
  <2>2. todo' = <<"start">> \o <<"running">> /\ enabled' /\ ~handling'
    BY Accessed, <1>3, <2>1
  <2> QED
    BY <2>2 DEF CallInv, InStart
<1>4. CASE todo = <<"start">> \o <<"running">> /\ enabled
  <2>1. Head(todo) = "start" /\ Tail(todo) = <<"running">>
    <3>1. "start" \in Access
      BY DEF Access
    <3> QED
      BY <1>1, <1>4, <3>1, OneAccess
  <2>2. todo' = <<"running">> /\ enabled' /\ on' /\ ~handling'
    BY Accessed, <1>4, <2>1
  <2> QED
    BY <2>2 DEF CallInv, InStart
<1>5. CASE todo = <<"running">> /\ enabled /\ on
  <2>1. Head(todo) = "running" /\ Tail(todo) = <<>>
    BY <1>5
  <2> QED
    BY Accessed, <1>5, <2>1 DEF CallInv
<1> QED
  BY <1>2, <1>3, <1>4, <1>5 DEF InStart

LEMMA StopStep ==
  ASSUME InStop, AccessRegister
  PROVE  CallInv'
<1> USE DEF Quiet, Going
<1>0. End \in Seq(Access) /\ {"disable source", "stop"} \subseteq Access
  BY AccessNames DEF Access
<1>1. CASE todo = Suspend \o End /\ Going
  <2>1. Head(todo) = "disable source" /\ Tail(todo) = <<"stop">> \o End
    BY <1>0, <1>1, TwoAccesses DEF Suspend
  <2> QED
    BY Accessed, <1>1, <2>1 DEF CallInv, InStop
<1>2. CASE todo = <<"stop">> \o End /\ ~enabled
  <2>1. Head(todo) = "stop" /\ Tail(todo) = End
    BY <1>0, <1>2, OneAccess
  <2> QED
    BY Accessed, <1>2, <2>1 DEF CallInv, InStop
<1>3. CASE todo = End /\ ~enabled /\ ~on
  <2>1. Head(todo) = "clear flag" /\ Tail(todo) = <<"ready">>
    BY <1>3, Lists, Zenon
  <2> QED
    BY Accessed, <1>3, <2>1 DEF CallInv, InStop
<1>4. CASE todo = <<"ready">> /\ ~enabled /\ ~on /\ ~flag
  <2>1. Head(todo) = "ready" /\ Tail(todo) = <<>>
    BY <1>4
  <2> QED
    BY Accessed, <1>4, <2>1 DEF CallInv
<1> QED
  BY <1>1, <1>2, <1>3, <1>4 DEF InStop

LEMMA ClockSetStep ==
  ASSUME InClockSet, AccessRegister
  PROVE  CallInv'
<1> USE DEF Quiet, Going
<1>0. Resume \in Seq(Access) /\ {"disable source", "stop"} \subseteq Access
  BY AccessNames DEF Access
<1>1. ASSUME NEW s \in ClockSource, NEW p \in Prescale
      PROVE  /\ s \in Access /\ p \in Access
             /\ <<p>> \o Resume \in Seq(Access)
             /\ Clock(s, p) \in Seq(Access)
             /\ s \notin {"clear flag", "enable source", "disable source",
                          "start", "stop", "running", "ready"}
             /\ p \notin {"clear flag", "enable source", "disable source",
                          "start", "stop", "running", "ready"}
  <2>1. s \in Access /\ p \in Access
    BY AccessNames
  <2>2. <<p>> \o Resume \in Seq(Access) /\ Clock(s, p) \in Seq(Access)
    BY <1>0, <2>1, OneAccess DEF Clock
  <2> QED
    BY <2>1, <2>2, PrescaleNames DEF ClockSource
<1>2. ASSUME NEW s \in ClockSource, NEW p \in Prescale, NEW q \in ClockOf(s, p),
             todo = Suspend \o q, Going
      PROVE  CallInv'
  <2>1. q \in Seq(Access)
    BY <1>0, <1>1 DEF ClockOf
  <2>2. Head(todo) = "disable source" /\ Tail(todo) = <<"stop">> \o q
    BY <1>0, <1>2, <2>1, TwoAccesses DEF Suspend
  <2>3. todo' = <<"stop">> \o q /\ Running' /\ ~handling'
    BY Accessed, <1>2, <2>2
  <2> QED
    BY <2>3 DEF CallInv, InClockSet
<1>3. ASSUME NEW s \in ClockSource, NEW p \in Prescale, NEW q \in ClockOf(s, p),
             todo = <<"stop">> \o q, Running
      PROVE  CallInv'
  <2>1. q \in Seq(Access)
    BY <1>0, <1>1 DEF ClockOf
  <2>2. Head(todo) = "stop" /\ Tail(todo) = q
    BY <1>0, <1>3, <2>1, OneAccess
  <2>3. todo' = q /\ Running' /\ ~handling'
    BY Accessed, <1>3, <2>2
  <2> QED
    BY <2>3 DEF CallInv, InClockSet, ClockOf
<1>4. ASSUME NEW s \in ClockSource, NEW p \in Prescale,
             todo = Clock(s, p), Running
      PROVE  CallInv'
  <2>1. Head(todo) = s /\ Tail(todo) = <<p>> \o Resume
    BY <1>0, <1>1, <1>4, OneAccess DEF Clock
  <2>2. todo' = <<p>> \o Resume /\ Running' /\ ~handling'
    BY Accessed, <1>1, <1>4, <2>1
  <2> QED
    BY <2>2 DEF CallInv, InClockSet
<1>5. ASSUME NEW s \in ClockSource, NEW p \in Prescale,
             todo = <<p>> \o Resume, Running
      PROVE  CallInv'
  <2>1. Head(todo) = p /\ Tail(todo) = Resume
    BY <1>0, <1>1, <1>5, OneAccess
  <2>2. todo' = Resume /\ Running' /\ ~handling'
    BY Accessed, <1>1, <1>5, <2>1
  <2> QED
    BY <2>2 DEF CallInv, InClockSet
<1>6. ASSUME NEW s \in ClockSource, NEW p \in Prescale,
             todo = <<s>> \o <<p>>, Quiet
      PROVE  CallInv'
  <2>1. <<p>> \in Seq(Access)
    BY <1>1, ListOfOne, Zenon
  <2>2. Head(todo) = s /\ Tail(todo) = <<p>>
    BY <1>1, <1>6, <2>1, OneAccess
  <2>3. todo' = <<p>> /\ Quiet' /\ ~handling'
    BY Accessed, <1>1, <1>6, <2>2
  <2> QED
    BY <2>3 DEF CallInv, InClockSet
<1>7. ASSUME NEW p \in Prescale, todo = <<p>>, Quiet
      PROVE  CallInv'
  <2>1. Head(todo) = p /\ Tail(todo) = <<>>
    BY <1>7
  <2>2. p \notin {"clear flag", "enable source", "disable source", "start",
                  "stop", "running", "ready"}
    BY PrescaleNames
  <2> QED
    BY Accessed, <1>7, <2>1, <2>2 DEF CallInv
<1>8. CASE todo = Resume /\ Running
  <2>1. Head(todo) = "clear flag" /\ Tail(todo) = <<"enable source", "start">>
    BY <1>8, Lists, Zenon
  <2> QED
    BY Accessed, <1>8, <2>1 DEF CallInv, InClockSet
<1>9. CASE todo = <<"enable source", "start">> /\ Running
  <2>1. Head(todo) = "enable source" /\ Tail(todo) = <<"start">>
    BY <1>9, Lists, Zenon
  <2> QED
    BY Accessed, <1>9, <2>1 DEF CallInv, InClockSet
<1>10. CASE todo = <<"start">> /\ Running /\ enabled
  <2>1. Head(todo) = "start" /\ Tail(todo) = <<>>
    BY <1>10
  <2> QED
    BY Accessed, <1>10, <2>1 DEF CallInv
<1> QED
  BY <1>2, <1>3, <1>4, <1>5, <1>6, <1>7, <1>8, <1>9, <1>10 DEF InClockSet
-----------------------------------------------------------------------------
\* A call that is under way has accesses left.
LEMMA CallHasAccesses ==
  ASSUME InStart \/ InStop \/ InClockSet
  PROVE  todo # <<>>
<1>0. /\ "running" \in Access /\ "clear flag" \in Access /\ "stop" \in Access
      /\ "enable source" \in Access /\ "start" \in Access
      /\ "disable source" \in Access /\ "ready" \in Access
  BY DEF Access
<1>1. End \in Seq(Access) /\ Resume \in Seq(Access) /\ <<"running">> \in Seq(Access)
  <2>1. <<"running">> \in Seq(Access)
    BY DEF Access
  <2> QED
    BY <2>1, AccessNames, Zenon
<1>2. CASE InStart
  <2>1. Resume \o <<"running">> # <<>>
    BY <1>1, ResumeThen, Zenon
  <2>2. <<"enable source", "start">> \o <<"running">> # <<>>
    BY <1>0, <1>1, TwoAccesses, Zenon
  <2>3. <<"start">> \o <<"running">> # <<>> /\ <<"running">> # <<>>
    BY <1>0, <1>1, OneAccess
  <2> QED
    BY <1>2, <2>1, <2>2, <2>3, Zenon DEF InStart
<1>3. CASE InStop
  <2>1. Suspend \o End # <<>>
    BY <1>0, <1>1, TwoAccesses, Zenon DEF Suspend
  <2>2. <<"stop">> \o End # <<>>
    BY <1>0, <1>1, OneAccess, Zenon
  <2>3. End # <<>> /\ <<"ready">> # <<>>
    BY DEF End
  <2> QED
    BY <1>3, <2>1, <2>2, <2>3, Zenon DEF InStop
<1>4. CASE InClockSet
  <2>1. ASSUME NEW s \in ClockSource, NEW p \in Prescale
        PROVE  /\ s \in Access /\ p \in Access /\ <<p>> \in Seq(Access)
               /\ <<p>> \o Resume \in Seq(Access)
               /\ Clock(s, p) \in Seq(Access)
    <3>1. s \in Access /\ p \in Access
      BY AccessNames
    <3> QED
      BY <1>1, <3>1, OneAccess DEF Clock
  <2>2. ASSUME NEW s \in ClockSource, NEW p \in Prescale
        PROVE  /\ \A q \in ClockOf(s, p) :
                     Suspend \o q # <<>> /\ <<"stop">> \o q # <<>>
               /\ Clock(s, p) # <<>> /\ <<p>> \o Resume # <<>>
               /\ <<s>> \o <<p>> # <<>> /\ <<p>> # <<>>
    <3>1. ASSUME NEW q \in ClockOf(s, p)
          PROVE  Suspend \o q # <<>> /\ <<"stop">> \o q # <<>>
      <4>1. q \in Seq(Access)
        BY <1>1, <2>1 DEF ClockOf
      <4>2. Suspend \o q # <<>>
        BY <1>0, <4>1, TwoAccesses, Zenon DEF Suspend
      <4>3. <<"stop">> \o q # <<>>
        BY <1>0, <4>1, OneAccess, Zenon
      <4> QED
        BY <4>2, <4>3
    <3>2. Clock(s, p) # <<>> /\ <<p>> \o Resume # <<>>
      BY <1>1, <2>1, OneAccess, Zenon DEF Clock
    <3>3. <<s>> \o <<p>> # <<>> /\ <<p>> # <<>>
      BY <2>1, OneAccess
    <3> QED
      BY <3>1, <3>2, <3>3
  <2>3. /\ Resume # <<>> /\ <<"enable source", "start">> # <<>>
        /\ <<"start">> # <<>>
    BY DEF Resume
  <2> QED
    BY <1>4, <2>2, <2>3, Zenon DEF InClockSet
<1> QED
  BY <1>2, <1>3, <1>4

LEMMA CallEnds ==
  ASSUME CallInv, todo = <<>>
  PROVE  Quiet \/ Going
BY CallHasAccesses, Zenon DEF CallInv

\* What the counter and the handler change, no call depends on.
LEMMA SameCall ==
  ASSUME CallInv, todo' = todo, Running' = Running, on' = on,
         enabled' = enabled, flag' => flag \/ on, handling' => enabled
  PROVE  CallInv'
<1>1. (Quiet => Quiet') /\ (Going => Going')
  BY Zenon DEF Quiet, Going
<1>2. InStart => InStart'
  BY <1>1, Zenon DEF InStart
<1>3. InStop => InStop'
  BY <1>1, Zenon DEF InStop
<1>4. InClockSet => InClockSet'
  BY <1>1, Zenon DEF InClockSet
<1>5. (handling => enabled)'
  BY Zenon
<1> QED
  BY <1>1, <1>2, <1>3, <1>4, <1>5, Zenon DEF CallInv

\* Nothing happens before the initialisation.
Before == ~ready => todo = <<>> /\ Quiet /\ ~handling

LEMMA CallBegins ==
  ASSUME CallInv, Accesses
  PROVE  CallInv'
<1>1. /\ Idle /\ handling' = handling /\ Running' = Running /\ on' = on
      /\ enabled' = enabled /\ flag' = flag
  BY DEF Accesses, Calls, Call, timer
<1>2. Quiet \/ Going
  BY <1>1, CallEnds DEF Idle
<1>3. Quiet' = Quiet /\ Going' = Going /\ ~handling'
  BY <1>1 DEF Quiet, Going, Idle
<1>4. CASE Calls(StartCall)
  <2>1. todo' = Resume \o <<"running">>
    BY <1>4, StartAccesses DEF Calls, Call
  <2> QED
    BY <1>2, <1>3, <2>1 DEF CallInv, InStart
<1>5. CASE Calls(StopCall)
  <2>1. todo' = Suspended(End)
    BY <1>5, StopAccesses DEF Calls, Call
  <2>2. CASE Going
    BY <1>3, <2>1, <2>2 DEF CallInv, InStop, Suspended, Going
  <2>3. CASE Quiet
    BY <1>1, <1>3, <2>1, <2>3 DEF CallInv, InStop, Suspended, Quiet
  <2> QED
    BY <1>2, <2>2, <2>3
<1>6. ASSUME NEW s \in ClockSource, NEW p \in Prescale,
             Calls(ClockSetCall(s, p))
      PROVE  CallInv'
  <2>1. todo' = ClockSetCall(s, p)
    BY <1>6 DEF Calls, Call
  <2>2. CASE Going
    <3>1. \E q \in ClockOf(s, p) : todo' = Suspend \o q
      BY <2>1, <2>2, ClockSetAccesses DEF ClockOf, Going
    <3> QED
      BY <1>3, <2>2, <3>1 DEF CallInv, InClockSet
  <2>3. CASE Quiet
    <3>1. todo' = <<>> \/ todo' = <<s>> \o <<p>>
      BY <2>1, <2>3, ClockSetAccesses DEF Quiet
    <3> QED
      BY <1>3, <2>3, <3>1 DEF CallInv, InClockSet
  <2> QED
    BY <1>2, <2>2, <2>3
<1> QED
  BY <1>4, <1>5, <1>6 DEF Accesses

LEMMA CallStep ==
  ASSUME CallInv, Before, Steps
  PROVE  CallInv' /\ Before'
<1>1. CASE Initialised
  <2>1. /\ ready' /\ todo' = <<>> /\ Quiet' /\ ~handling'
    <3>1. ~ready
      BY <1>1 DEF Initialised, Initialize
    <3> QED
      BY <1>1, <3>1 DEF Before, Initialised, Initialize, Quiet
  <2> QED
    BY <2>1 DEF CallInv, Before
<1>2. CASE Accesses
  <2>1. ready'
    BY <1>2 DEF Accesses, Calls, Call, Idle
  <2> QED
    BY <1>2, <2>1, CallBegins DEF Before
<1>3. CASE Sets
  <2>1. /\ todo' = todo /\ Running' = Running /\ on' = on
        /\ enabled' = enabled /\ flag' = flag /\ handling' = handling /\ ready'
    BY <1>3 DEF Sets, CounterSet, PeriodSet, Idle
  <2>2. handling => enabled
    BY DEF CallInv
  <2> QED
    BY <2>1, <2>2, SameCall, Zenon DEF Before
<1>4. CASE AccessRegister
  <2>1. todo # <<>> /\ ready' = ready
    BY <1>4 DEF AccessRegister
  <2>2. ready
    BY <2>1 DEF Before
  <2>3. CallInv'
    BY <1>4, <2>1, StartStep, StopStep, ClockSetStep, Zenon DEF CallInv
  <2> QED
    BY <2>1, <2>2, <2>3, Zenon DEF Before
<1>5. CASE CountClock
  <2>1. /\ todo' = todo /\ Running' = Running /\ on' = on /\ on
        /\ enabled' = enabled /\ handling' = handling /\ ready' = ready
    BY <1>5 DEF CountClock
  <2>2. ready /\ (handling => enabled)
    BY <2>1 DEF Before, CallInv, Quiet
  <2> QED
    BY <2>1, <2>2, SameCall, Zenon DEF Before
<1>6. CASE EnterHandler
  <2>1. /\ todo' = todo /\ Running' = Running /\ on' = on /\ enabled
        /\ enabled' = enabled /\ ~flag' /\ ready' = ready
    BY <1>6, Zenon DEF EnterHandler, timer
  <2>2. ready
    BY <2>1, Zenon DEF Before, Quiet
  <2> QED
    BY <2>1, <2>2, SameCall, Zenon DEF Before
<1>7. CASE LeaveHandler
  <2>1. /\ todo' = todo /\ Running' = Running /\ on' = on /\ handling
        /\ enabled' = enabled /\ flag' = flag /\ ready' = ready /\ ~handling'
    BY <1>7, Zenon DEF LeaveHandler, timer
  <2>2. ready
    BY <2>1, Zenon DEF Before
  <2> QED
    BY <2>1, <2>2, SameCall, Zenon DEF Before
<1> QED
  BY <1>1, <1>2, <1>3, <1>4, <1>5, <1>6, <1>7, Zenon DEF Steps

LEMMA CallsInvariant == TimersSpec => [](CallInv /\ Before)
<1>1. TimersInit => CallInv /\ Before
  BY Zenon DEF TimersInit, CallInv, Before, Quiet
<1>2. CallInv /\ Before /\ [TimersNext]_timersVars => CallInv' /\ Before'
  <2>1. ASSUME CallInv, Before, UNCHANGED timersVars
        PROVE  CallInv' /\ Before'
    <3>1. /\ todo' = todo /\ Running' = Running /\ on' = on
          /\ enabled' = enabled /\ flag' = flag /\ handling' = handling
          /\ ready' = ready
      BY <2>1 DEF timersVars, timer
    <3>2. handling => enabled
      BY <2>1 DEF CallInv
    <3>3. CallInv'
      BY <2>1, <3>1, <3>2, SameCall, Zenon
    <3> QED
      BY <2>1, <3>1, <3>3, Zenon DEF Before, Quiet
  <2> QED
    BY <2>1, NextSteps, CallStep
<1> QED
  BY <1>1, <1>2, PTL DEF TimersSpec

LEMMA StopIsQuiet ==
  ASSUME CallInv
  PROVE  StoppedIsQuiet
BY CallEnds, Zenon DEF StoppedIsQuiet, CallInv, Quiet, Going

\* Stop leaves a timer that no longer ticks and no tick kept for later, wherever
\* within the call the period ends and the interrupt runs.
THEOREM TimersStoppedIsQuiet == TimersSpec => []StoppedIsQuiet
<1>1. CallInv => StoppedIsQuiet
  BY StopIsQuiet
<1> QED
  BY <1>1, CallsInvariant, PTL

LEMMA AnswersAreTrue ==
  ASSUME TimersTypeOK, CallInv
  PROVE  StatusTellsTruth
<1>1. ASSUME TimersTypeOK, CallInv, Idle
      PROVE  /\ DRV_TMR_ClientStatus(instance) = "RUNNING" <=> on
             /\ on <=> enabled
             /\ DRV_TMR_PrescalerGet(instance) = prescale
             /\ DRV_TMR_CounterFrequencyGet(instance) =
                  PeripheralFrequency \div Divisor[prescale]
             /\ DRV_TMR_CounterValueGet(instance) = counter
             /\ DRV_TMR_DividerRangeGet(instance) =
                  [dividerMin |-> 2, dividerMax |-> Modulus]
  <2>0. instance = 0 \/ instance = 1 \/ instance = 2
    BY <1>1 DEF TimersTypeOK, Instance
  <2>1. Quiet \/ Going
    BY <1>1, CallEnds DEF Idle
  <2>2. DRV_TMR_ClientStatus(instance) = ClientStatus
    BY <2>0 DEF DRV_TMR_ClientStatus, DRV_TMR0_ClientStatus,
                DRV_TMR1_ClientStatus, DRV_TMR2_ClientStatus
  <2>3. (ClientStatus = "RUNNING" <=> on) /\ (on <=> enabled)
    BY <2>1 DEF ClientStatus, Quiet, Going
  <2>4. DRV_TMR_PrescalerGet(instance) = PrescalerGet
    BY <2>0 DEF DRV_TMR_PrescalerGet, DRV_TMR0_PrescalerGet,
                DRV_TMR1_PrescalerGet, DRV_TMR2_PrescalerGet
  <2>5. PrescalerGet = prescale
    <3>1. prescale \in Prescale
      BY <1>1 DEF TimersTypeOK
    <3> QED
      BY <3>1, DivisorInjective DEF PrescalerGet
  <2>6. DRV_TMR_CounterFrequencyGet(instance) = CounterFrequencyGet
    BY <2>0 DEF DRV_TMR_CounterFrequencyGet, DRV_TMR0_CounterFrequencyGet,
                DRV_TMR1_CounterFrequencyGet, DRV_TMR2_CounterFrequencyGet
  <2>7. DRV_TMR_CounterValueGet(instance) = CounterValueGet
    BY <2>0 DEF DRV_TMR_CounterValueGet, DRV_TMR0_CounterValueGet,
                DRV_TMR1_CounterValueGet, DRV_TMR2_CounterValueGet
  <2>8. DRV_TMR_DividerRangeGet(instance) = DividerRangeGet
    BY <2>0 DEF DRV_TMR_DividerRangeGet, DRV_TMR0_DividerRangeGet,
                DRV_TMR1_DividerRangeGet, DRV_TMR2_DividerRangeGet
  <2> QED
    BY <2>2, <2>3, <2>4, <2>5, <2>6, <2>7, <2>8
    DEF CounterFrequencyGet, CounterValueGet, DividerRangeGet
<1>2. TimersTypeOK => pr + 1 \in 2..Modulus /\ counter < Modulus
  BY TimersAssumption DEF TimersTypeOK
<1>3. CASE Idle
  <2>1. /\ DRV_TMR_PrescalerGet(instance) = prescale
        /\ DRV_TMR_CounterFrequencyGet(instance) =
             PeripheralFrequency \div Divisor[DRV_TMR_PrescalerGet(instance)]
    BY <1>1, <1>3, Zenon
  <2>2. LET range == DRV_TMR_DividerRangeGet(instance) IN
        /\ pr + 1 \in range.dividerMin..range.dividerMax
        /\ DRV_TMR_CounterValueGet(instance) < range.dividerMax
    BY <1>1, <1>2, <1>3
  <2>3. /\ DRV_TMR_ClientStatus(instance) = "RUNNING" <=> on
        /\ on <=> enabled
    BY <1>1, <1>3, Zenon
  <2> QED
    BY <2>1, <2>2, <2>3, Zenon DEF StatusTellsTruth
<1> QED
  BY <1>3, Zenon DEF StatusTellsTruth

\* Between calls what the driver answers is the truth.
THEOREM TimersStatusTellsTruth == TimersSpec => []StatusTellsTruth
<1>1. TimersTypeOK /\ CallInv => StatusTellsTruth
  BY AnswersAreTrue
<1> QED
  BY <1>1, TimersTypeCorrect, CallsInvariant, PTL
-----------------------------------------------------------------------------
(***************************************************************************)
(* The outputs on timer 2's counter.  To the timer a call on an output is  *)
(* only one more call.                                                     *)
(***************************************************************************)
Outputs ==
  \/ \E i \in Output, level \in {"off", Enabled(pin)} : ByClient(i, level)
  \/ \E i \in Output, v \in Values : CompareSet(i, v)

LEMMA EnabledLevel ==
  ASSUME NEW p \in {"off", "high", "low"}
  PROVE  /\ Enabled(p) \in {"high", "low"}
         /\ Enabled(p) = "high" => p \in {"off", "high"}
BY DEF Enabled

LEMMA PulsesSteps ==
  ASSUME PulsesTypeOK, PulsesNext
  PROVE  Timer \/ Outputs \/ Stepper_StartOC
<1>1. ASSUME NEW i, DRV_OC_Start(i) \/ DRV_OC_Stop(i)
      PROVE  Outputs
  BY <1>1
  DEF DRV_OC_Start, DRV_OC0_Start, DRV_OC1_Start, DRV_OC_Stop, DRV_OC0_Stop,
      DRV_OC1_Stop, Outputs, Output
<1>2. ASSUME NEW i, DRV_OC_CompareValuesSingleSet(i)
      PROVE  Outputs
  BY <1>2
  DEF DRV_OC_CompareValuesSingleSet, DRV_OC0_CompareValuesSingleSet,
      DRV_OC1_CompareValuesSingleSet, Outputs, Output
<1> QED
  BY <1>1, <1>2 DEF PulsesNext

\* What a call on an output leaves of the timer, and a step of the motor.
LEMMA TimerKept ==
  ASSUME Outputs \/ Stepper_StartOC \/ UNCHANGED <<timersVars, pulses>>
  PROVE  /\ UNCHANGED <<instance, counter, pr, on, source, prescale, flag,
                        enabled, Running, todo, handling, ready>>
         /\ calls' \in {calls, calls + 1} /\ (calls' # calls => calls < MaxCalls)
BY DEF Outputs, ByClient, CompareSet, OnCounter, Stepper_StartOC, timersVars, timer

LEMMA TypeKept ==
  ASSUME TimersTypeOK, Outputs \/ Stepper_StartOC \/ UNCHANGED <<timersVars, pulses>>
  PROVE  TimersTypeOK'
<1>1. calls' \in 0..MaxCalls
  BY TimerKept, TimersAssumption DEF TimersTypeOK
<1> QED
  BY <1>1, TimerKept DEF TimersTypeOK

LEMMA PulsesTypeStep ==
  ASSUME PulsesTypeOK, PulsesNext \/ UNCHANGED <<timersVars, pulses>>
  PROVE  PulsesTypeOK'
<1>1. CASE Timer
  <2>1. TimersTypeOK'
    BY <1>1, NextSteps, TypeStep DEF PulsesTypeOK, Timer
  <2>2. /\ pin' \in {"off", "high", "low"} /\ output' = output
        /\ compare' = compare /\ changed' = changed /\ clean' = clean
    BY <1>1 DEF PulsesTypeOK, Timer, PinAfter
  <2>3. due' \in BOOLEAN
    BY <1>1, Zenon DEF Timer
  <2> QED
    BY <2>1, <2>2, <2>3, Zenon DEF PulsesTypeOK
<1>2. CASE Outputs
  <2>1. TimersTypeOK'
    BY <1>2, TypeKept DEF PulsesTypeOK
  <2>2. \A v \in Values : v % Modulus \in 0..(Modulus - 1)
    BY TimersAssumption
  <2>3. output' = output /\ due' = due /\ pin' \in {"off", "high", "low"}
    BY <1>2, EnabledLevel DEF Outputs, ByClient, CompareSet, PulsesTypeOK
  <2>4. compare' \in 0..(Modulus - 1) /\ changed' \in BOOLEAN
    BY <1>2, <2>2 DEF Outputs, ByClient, CompareSet, PulsesTypeOK
  <2>5. clean' \in BOOLEAN
    BY <1>2 DEF Outputs, ByClient, CompareSet, PulsesTypeOK, TimersTypeOK
  <2> QED
    BY <2>1, <2>3, <2>4, <2>5, Zenon DEF PulsesTypeOK
<1>3. CASE Stepper_StartOC
  <2>1. TimersTypeOK'
    BY <1>3, TypeKept DEF PulsesTypeOK
  <2>2. pin' = "high"
    BY <1>3 DEF Stepper_StartOC, Enabled
  <2> QED
    BY <1>3, <2>1, <2>2 DEF PulsesTypeOK, Stepper_StartOC
<1>4. CASE UNCHANGED <<timersVars, pulses>>
  <2>1. TimersTypeOK'
    BY <1>4, TypeKept DEF PulsesTypeOK
  <2> QED
    BY <1>4, <2>1 DEF PulsesTypeOK, pulses, oc
<1> QED
  BY <1>1, <1>2, <1>3, <1>4, PulsesSteps

LEMMA PulsesInitial == PulsesInit => PulsesTypeOK /\ compare = 0 /\ pin = "off"
<1> SUFFICES ASSUME PulsesInit
             PROVE  PulsesTypeOK /\ compare = 0 /\ pin = "off"
  OBVIOUS
<1>1. /\ 0 \in 0..(Modulus - 1) /\ ResetPeriod \in 1..(Modulus - 1)
      /\ 0 \in 0..MaxCalls /\ <<>> \in Seq(Access)
      /\ "internal" \in ClockSource /\ "VALUE_1" \in Prescale
  BY TimersAssumption, PrescaleNames DEF ClockSource
<1>2. TimersTypeOK
  BY <1>1, Zenon DEF PulsesInit, TimersInit, TimersTypeOK
<1>3. output \in Output /\ pin = "off" /\ compare = 0
  BY DEF PulsesInit, DRV_OC_Initialize, DRV_OC0_Initialize, DRV_OC1_Initialize,
         InitializeOC, Output
<1>4. due \in BOOLEAN /\ changed \in BOOLEAN /\ clean \in BOOLEAN
  BY DEF PulsesInit
<1> QED
  BY <1>1, <1>2, <1>3, <1>4 DEF PulsesTypeOK

\* The types of an output and of the timer it is on.
THEOREM PulsesTypeCorrect == PulsesSpec => []PulsesTypeOK
BY PulsesInitial, PulsesTypeStep, PTL DEF PulsesSpec

\* What the driver promises holds with the outputs on its counter.
THEOREM PulsesTimer == PulsesSpec => [](StatusTellsTruth /\ StoppedIsQuiet)
<1>1. PulsesInit => CallInv /\ Before
  BY Zenon DEF PulsesInit, TimersInit, CallInv, Before, Quiet
<1>2. PulsesTypeOK /\ CallInv /\ Before /\ [PulsesNext]_<<timersVars, pulses>>
        => CallInv' /\ Before'
  <2>1. ASSUME CallInv, Before,
               Outputs \/ Stepper_StartOC \/ UNCHANGED <<timersVars, pulses>>
        PROVE  CallInv' /\ Before'
    <3>1. /\ todo' = todo /\ Running' = Running /\ on' = on
          /\ enabled' = enabled /\ flag' = flag /\ handling' = handling
          /\ ready' = ready
      BY <2>1, TimerKept
    <3>2. handling => enabled
      BY <2>1 DEF CallInv
    <3>3. CallInv'
      BY <2>1, <3>1, <3>2, SameCall, Zenon
    <3> QED
      BY <2>1, <3>1, <3>3, Zenon DEF Before, Quiet
  <2>2. ASSUME CallInv, Before, Timer
        PROVE  CallInv' /\ Before'
    BY <2>2, NextSteps, CallStep DEF Timer
  <2> QED
    BY <2>1, <2>2, PulsesSteps
<1>3. TimersTypeOK /\ CallInv => StatusTellsTruth /\ StoppedIsQuiet
  BY AnswersAreTrue, StopIsQuiet
<1>4. PulsesTypeOK => TimersTypeOK
  BY DEF PulsesTypeOK
<1> QED
  BY <1>1, <1>2, <1>3, <1>4, PulsesTypeCorrect, PTL DEF PulsesSpec

\* A pulse that is up has seen no end of a period, at which it would have fallen.
PulseInv ==
  /\ due => handling
  /\ ~changed => compare = 0
  /\ ~changed /\ clean /\ pin = "high" => ~due /\ ~flag

LEMMA PulseStep ==
  ASSUME PulsesTypeOK, PulseInv, PulsesNext \/ UNCHANGED <<timersVars, pulses>>
  PROVE  PulseInv'
<1>1. CASE Timer
  <2>1. /\ pin' = PinAfter /\ compare' = compare /\ changed' = changed
        /\ clean' = clean /\ due' = (handling' /\ (due \/ ~handling))
    BY <1>1, Zenon DEF Timer
  <2>2. ASSUME ~changed, clean, pin' = "high"
        PROVE  ~due' /\ ~flag'
    <3>1. /\ pin = "high" /\ compare = 0 /\ ~due /\ ~flag
          /\ ~(counter' # counter /\ counter' = 0)
      BY <2>1, <2>2 DEF PulseInv, PinAfter
    <3>2. CASE Initialised \/ Accesses \/ Sets
      <4>1. flag' = flag /\ handling' = handling
        BY <3>2
        DEF Initialised, Initialize, Accesses, Calls, Call, Sets, CounterSet,
            PeriodSet
      <4> QED
        BY <2>1, <3>1, <4>1, Zenon
    <3>3. CASE AccessRegister
      BY <2>1, <3>1, <3>3, Zenon DEF AccessRegister
    <3>4. CASE CountClock
      <4>1. handling' = handling /\ (flag' <=> flag \/ counter = pr)
        BY <3>4, Zenon DEF CountClock
      <4>2. counter # pr
        BY <3>1, <3>4 DEF CountClock, PulsesTypeOK, TimersTypeOK
      <4> QED
        BY <2>1, <3>1, <4>1, <4>2, Zenon
    <3>5. CASE EnterHandler
      BY <3>1, <3>5 DEF EnterHandler
    <3>6. CASE LeaveHandler
      BY <2>1, <3>1, <3>6, Zenon DEF LeaveHandler
    <3> QED
      BY <1>1, <3>2, <3>3, <3>4, <3>5, <3>6, NextSteps DEF Timer, Steps
  <2> QED
    BY <2>1, <2>2, Zenon DEF PulseInv
<1>2. ASSUME NEW i \in Output, NEW level \in {"off", Enabled(pin)},
             ByClient(i, level)
      PROVE  PulseInv'
  <2>1. /\ flag' = flag /\ handling' = handling /\ due' = due
        /\ compare' = compare /\ changed' = changed /\ ~handling /\ pin' = level
        /\ clean' = IF pin = "off" /\ level = "high" THEN ~flag ELSE clean
    BY <1>2, Zenon DEF ByClient, OnCounter, Idle
  <2>2. level = "high" => pin \in {"off", "high"}
    BY EnabledLevel DEF PulsesTypeOK
  <2>3. ~changed => compare = 0
    BY DEF PulseInv
  <2>4. ~due
    BY <2>1, Zenon DEF PulseInv
  <2>5. ASSUME ~changed, clean', pin' = "high"
        PROVE  ~flag
    <3>1. CASE pin = "off"
      BY <2>1, <2>5, <3>1
    <3>2. CASE pin = "high"
      BY <2>1, <2>5, <3>2 DEF PulseInv
    <3> QED
      BY <2>1, <2>2, <2>5, <3>1, <3>2
  <2> QED
    BY <2>1, <2>3, <2>4, <2>5, Zenon DEF PulseInv
<1>3. ASSUME NEW i, NEW v, CompareSet(i, v)
      PROVE  PulseInv'
  <2>1. changed' /\ due' = due /\ handling' = handling
    BY <1>3, Zenon DEF CompareSet
  <2> QED
    BY <2>1, Zenon DEF PulseInv
<1>4. CASE Stepper_StartOC
  <2>1. /\ due' = FALSE /\ clean' = ~flag /\ flag' = flag
        /\ compare' = compare /\ changed' = changed
    BY <1>4 DEF Stepper_StartOC, timersVars
  <2> QED
    BY <2>1, Zenon DEF PulseInv
<1>5. CASE UNCHANGED <<timersVars, pulses>>
  BY <1>5 DEF PulseInv, timersVars, pulses, oc
<1> QED
  BY <1>1, <1>2, <1>3, <1>4, <1>5, PulsesSteps DEF Outputs

\* Every step of a motor is a pulse of its own, for every period, pulse width and
\* sequence of calls, but where the handler was late or a client set the compare
\* value.
THEOREM PulsesStepsArePulses == PulsesSpec => []StepsArePulses
<1>1. PulsesInit => PulseInv
  BY PulsesInitial DEF PulsesInit, PulseInv
<1>2. PulsesTypeOK /\ PulseInv /\ [PulsesNext]_<<timersVars, pulses>> => PulseInv'
  BY PulseStep
<1>3. PulseInv => StepsArePulses
  BY Zenon DEF PulseInv, StepsArePulses
<1> QED
  BY <1>1, <1>2, <1>3, PulsesTypeCorrect, PTL DEF PulsesSpec
=============================================================================
