------------------------------ MODULE TimerProofs ------------------------------
(***************************************************************************)
(* Type correctness of Timer, that no delay is cut short and no wait lasts   *)
(* too long, and where a sleep ends, unless a carry of the low word fell     *)
(* between two loads.                                                      *)
(***************************************************************************)
EXTENDS Timer, TLAPS

(* What the words loaded so far are worth, as long as no carry tore them: they *)
(* are those of one tick t since the call, the one at hand or, if a tick has  *)
(* come while they were loaded, the one before; and the carry that would      *)
(* spoil the word still to come has not happened.                            *)
LoadedAt(t) ==
  /\ load.lo # -1 => load.lo = Lo(t)
  /\ load.hi # -1 => load.hi = Hi(t)
  /\ Loading => Hi(t) = Hi(ticks)
  /\ t >= ticks - 1
  /\ polled # "no" => t = ticks
LoadsFresh ==
  load # NoLoad /\ ~torn => \E t \in began..ticks : LoadedAt(t)

(* The target of a delay lies its argument after the call; so does that of a   *)
(* sleep, in whole seconds, if the counter showed one when it was called.     *)
TargetAhead ==
  pc = "poll" /\ ~torn =>
    IF wait.kind = "delay" THEN target >= began + wait.n
    ELSE target >= wait.n /\ (target > wait.n => Second * (target - wait.n) >= began)

IdleRests == pc = "idle" => load = NoLoad
WaitIsKnown == pc # "idle" => wait.n \in (IF wait.kind = "delay" THEN Delays ELSE Sleeps)

Counted == TypeOK /\ IdleRests /\ WaitIsKnown /\ LoadsFresh /\ TargetAhead

(* The read a target is set from begins in the tick of the call or the next.   *)
ReadsAtOnce ==
  pc = "start" => ticks <= began + 1 /\ (polled = "done" => ticks = began)

(* No tick since that read would have ended the wait, among those that have had *)
(* their own read: all before the tick at hand, and this one if it is done.    *)
Below(v) == \A t \in v..ticks : (t = ticks => polled = "done") => Measure(t) < target
NoneMissed ==
  pc = "poll" /\ ~torn =>
    \E v \in {began, began + 1} :
      v <= ticks /\ target = Measure(v) + wait.n /\ Below(v)

IInv == Counted /\ ReadsAtOnce /\ NoneMissed

------------------------------------------------------------------------------
(* A word of the counter is a digit of it in base W. *)
LEMMA Digits ==
  ASSUME NEW t \in 0..MaxTicks
  PROVE  /\ Lo(t) \in 0..W-1 /\ Hi(t) \in 0..W-1
         /\ Hi(t) * W + Lo(t) = t
<1>1. W \in Nat /\ W > 0 /\ t \in Nat /\ t < W * W
  BY TimerAssumption
<1>2. Lo(t) \in 0..W-1 /\ Hi(t) \in Nat /\ t = W * Hi(t) + Lo(t)
  BY <1>1 DEF Lo, Hi
<1>3. Hi(t) < W
  <2> SUFFICES ASSUME Hi(t) >= W PROVE FALSE
    BY <1>1, <1>2
  <2>1. W * Hi(t) >= W * W
    BY <1>1, <1>2
  <2> QED BY <1>1, <1>2, <2>1
<1> QED BY <1>1, <1>2, <1>3

(* A second shows only when it is complete. *)
LEMMA ShownSecond ==
  ASSUME NEW t \in Nat
  PROVE  /\ Seconds(t) \in Nat
         /\ Seconds(t) > 0 => t % Second = 0 /\ t = Second * Seconds(t)
<1>1. Second \in Nat /\ Second > 0
  BY TimerAssumption
<1>2. t \div Second \in Nat /\ t = Second * (t \div Second) + (t % Second)
  BY <1>1
<1> QED BY <1>1, <1>2 DEF Seconds

(* A whole read that no carry tore is the value of one tick since the call, of *)
(* the tick at hand or of the one before; and of the tick at hand if a read has *)
(* begun since it came.                                                    *)
LEMMA ReadIsOfATick ==
  ASSUME TypeOK, LoadsFresh, ~torn, Loaded
  PROVE  /\ Value \in began..ticks /\ Value \in {ticks, ticks - 1}
         /\ polled # "no" => Value = ticks
<1>1. PICK t \in began..ticks : LoadedAt(t)
  BY DEF LoadsFresh, Loaded, NoLoad
<1>2. load.lo = Lo(t) /\ load.hi = Hi(t) /\ t >= ticks - 1 /\ (polled # "no" => t = ticks)
  BY <1>1 DEF LoadedAt, Loaded
<1>3. t \in 0..MaxTicks /\ ticks \in Nat /\ began \in Nat
  BY <1>1, TimerAssumption DEF TypeOK
<1>4. Value = t
  BY <1>2, <1>3, Digits DEF Value
<1> QED BY <1>1, <1>2, <1>3, <1>4

(* What a wait measures is a number. *)
LEMMA MeasureType ==
  ASSUME NEW t \in Nat
  PROVE  Measure(t) \in Nat
BY ShownSecond DEF Measure

(* A whole read is a number, torn or not. *)
LEMMA ValueType ==
  ASSUME TypeOK, Loaded
  PROVE  Value \in Nat
<1>1. load.lo \in Nat /\ load.hi \in Nat /\ W \in Nat
  BY TimerAssumption DEF TypeOK, Loaded
<1> QED BY <1>1 DEF Value

(* The counters of a state are numbers. *)
LEMMA CountersType ==
  ASSUME TypeOK
  PROVE  /\ ticks \in Nat /\ began \in Nat /\ target \in Nat
         /\ wait.n \in Nat /\ Second \in Nat
<1>1. wait.n \in Delays \cup Sleeps \cup {0}
  BY DEF TypeOK
<1>2. wait.n \in Nat
  <2>1. Delays \subseteq Nat /\ Sleeps \subseteq Nat
    BY TimerAssumption
  <2>2. 0 \in Nat
    OBVIOUS
  <2> QED BY <1>1, <2>1, <2>2, Zenon
<1>3. ticks \in 0..MaxTicks /\ began \in 0..ticks /\ target \in Nat
  BY DEF TypeOK
<1> QED BY <1>2, <1>3, TimerAssumption

------------------------------------------------------------------------------
LEMMA InitCounted == Init => Counted
<1> SUFFICES ASSUME Init PROVE Counted
  OBVIOUS
<1>1. load \in [lo : -1..W-1, hi : -1..W-1]
  BY TimerAssumption DEF Init, NoLoad
<1>2. wait \in [kind : {"delay", "sleep"}, n : Delays \cup Sleeps \cup {0}]
  BY DEF Init, Idle
<1>3. TypeOK
  <2>1. ticks \in 0..MaxTicks /\ began \in 0..ticks /\ target \in Nat
    BY TimerAssumption DEF Init
  <2>2. pc \in {"idle", "start", "poll"} /\ polled \in {"no", "begun", "done"} /\ torn \in BOOLEAN
    BY DEF Init
  <2> QED BY <1>1, <1>2, <2>1, <2>2 DEF TypeOK
<1> QED BY <1>3 DEF Init, Counted, IdleRests, WaitIsKnown, LoadsFresh, TargetAhead

(* One tick: what has been loaded is now of the tick before, and a carry that  *)
(* parts it from the word to come is a tear.                                *)
LEMMA TickKeeps == Counted /\ Tick => Counted'
<1> SUFFICES ASSUME Counted, Tick PROVE Counted'
  OBVIOUS
<1>0. ticks \in Nat /\ began \in Nat /\ ticks' = ticks + 1 /\ began' = began /\ MaxTicks \in Nat
  BY TimerAssumption DEF Counted, TypeOK, Tick
<1>1. TypeOK'
  BY <1>0 DEF Counted, TypeOK, Tick
<1>2. LoadsFresh'
  <2> SUFFICES ASSUME load' # NoLoad, ~torn' PROVE \E t \in began'..ticks' : LoadedAt(t)'
    BY DEF LoadsFresh
  <2>1. load # NoLoad /\ ~torn /\ pc # "idle" /\ load' = load
    BY DEF Tick, Counted, IdleRests
  <2>2. PICK t \in began..ticks : LoadedAt(t)
    BY <2>1 DEF Counted, LoadsFresh
  <2>3. t = ticks /\ polled' = "no"
    BY <2>1, <2>2 DEF Tick, LoadedAt
  <2>4. Loading' => Hi(t) = Hi(ticks')
    BY <2>1, <2>3, <1>0 DEF Tick, Loading, Loaded
  <2>5. LoadedAt(t)'
    BY <2>1, <2>2, <2>3, <2>4, <1>0 DEF LoadedAt
  <2> QED BY <2>2, <2>5, <1>0
<1>3. IdleRests' /\ WaitIsKnown' /\ TargetAhead'
  BY DEF Tick, Counted, IdleRests, WaitIsKnown, TargetAhead
<1> QED BY <1>1, <1>2, <1>3 DEF Counted

(* A call begins with no word loaded. *)
LEMMA CallKeeps ==
  ASSUME Counted, NEW kind \in {"delay", "sleep"},
         NEW n \in (IF kind = "delay" THEN Delays ELSE Sleeps), Call(kind, n)
  PROVE  Counted'
<1>1. TypeOK'
  BY TimerAssumption DEF Call, Counted, TypeOK, NoLoad
<1> QED BY <1>1 DEF Call, Counted, IdleRests, WaitIsKnown, LoadsFresh, TargetAhead

(* The first word is of the tick at hand; the second belongs to the first if no *)
(* carry came between them.                                                *)
LEMMA LoadKeeps == Counted /\ LoadWord => Counted'
<1> SUFFICES ASSUME Counted, LoadWord PROVE Counted'
  OBVIOUS
<1>0. ticks \in 0..MaxTicks /\ began \in 0..ticks /\ MaxTicks \in Nat /\ ticks \in Nat /\ began \in Nat
  BY TimerAssumption DEF Counted, TypeOK
<1>1. TypeOK'
  <2>1. Lo(ticks) \in 0..W-1 /\ Hi(ticks) \in 0..W-1 /\ W \in Nat
    BY <1>0, Digits, TimerAssumption
  <2>2. load \in [lo : -1..W-1, hi : -1..W-1]
    BY DEF Counted, TypeOK
  <2>3. load' \in [lo : -1..W-1, hi : -1..W-1]
    BY <2>1, <2>2 DEF LoadWord
  <2> QED BY <2>3 DEF LoadWord, Counted, TypeOK
<1>2. LoadsFresh'
  <2> SUFFICES ASSUME ~torn PROVE \E t \in began..ticks : LoadedAt(t)'
    BY DEF LoadsFresh, LoadWord
  <2> PICK now \in began..ticks : now = ticks
    BY <1>0
  <2>1. load \in [lo : -1..W-1, hi : -1..W-1] /\ ticks' = ticks
    BY DEF Counted, TypeOK, LoadWord
  <2>2. CASE load = NoLoad
    <3>1. LoadedAt(now)'
      BY <2>1, <2>2, <1>0 DEF LoadedAt, LoadWord, NoLoad
    <3> QED BY <3>1
  <2>3. CASE load # NoLoad
    <3>1. PICK t \in began..ticks : LoadedAt(t)
      BY <2>3 DEF Counted, LoadsFresh
    <3>2. Hi(t) = Hi(ticks) /\ polled' = polled /\ ticks' = ticks
      BY <2>3, <3>1 DEF LoadedAt, Loading, LoadWord
    <3>3. CASE load.lo = -1 /\ load' = [load EXCEPT !.lo = Lo(ticks)]
      <4>1. LoadedAt(now)'
        BY <2>1, <3>1, <3>2, <3>3, <1>0 DEF LoadedAt, Loading
      <4> QED BY <4>1
    <3>4. CASE load.hi = -1 /\ load' = [load EXCEPT !.hi = Hi(ticks)]
      <4>1. LoadedAt(t)'
        BY <2>1, <3>1, <3>2, <3>4 DEF LoadedAt, Loading
      <4> QED BY <4>1
    <3> QED BY <3>3, <3>4 DEF LoadWord
  <2> QED BY <2>2, <2>3
<1>3. IdleRests' /\ WaitIsKnown' /\ TargetAhead'
  BY DEF LoadWord, Counted, IdleRests, WaitIsKnown, TargetAhead
<1> QED BY <1>1, <1>2, <1>3 DEF Counted

(* The target is set from a whole read: of a tick since the call, if no carry  *)
(* tore it, and then it lies far enough ahead.                              *)
LEMMA SetKeeps == Counted /\ SetTarget => Counted'
<1> SUFFICES ASSUME Counted, SetTarget PROVE Counted'
  OBVIOUS
<1>1. Value \in Nat /\ wait.n \in Nat /\ target' = Measure(Value) + wait.n
  <2>1. TypeOK /\ Loaded
    BY DEF Counted, SetTarget
  <2> QED BY <2>1, ValueType, CountersType DEF SetTarget, Deadline
<1>2. TypeOK'
  <2>1. target' \in Nat
    BY <1>1, MeasureType
  <2>2. load' \in [lo : -1..W-1, hi : -1..W-1]
    BY TimerAssumption DEF SetTarget, NoLoad
  <2>3. polled' \in {"no", "begun", "done"}
    BY DEF SetTarget, ReadDone, Counted, TypeOK
  <2> QED BY <2>1, <2>2, <2>3 DEF SetTarget, Counted, TypeOK
<1>3. TargetAhead'
  <2> SUFFICES ASSUME ~torn
               PROVE IF wait.kind = "delay" THEN target' >= began + wait.n
                     ELSE /\ target' >= wait.n
                          /\ target' > wait.n => Second * (target' - wait.n) >= began
    BY DEF TargetAhead, SetTarget
  <2>1. began \in Nat /\ Value >= began
    <3>1. Value \in began..ticks /\ ticks \in Nat /\ began \in Nat
      BY ReadIsOfATick, TimerAssumption DEF Counted, SetTarget, TypeOK
    <3> QED BY <3>1
  <2>2. CASE wait.kind = "delay"
    BY <1>1, <2>1, <2>2 DEF Measure
  <2>3. CASE wait.kind # "delay"
    <3>1. target' = Seconds(Value) + wait.n
      BY <1>1, <2>3 DEF Measure
    <3>2. Seconds(Value) \in Nat /\ (Seconds(Value) > 0 => Value = Second * Seconds(Value))
      BY <1>1, ShownSecond
    <3>3. target' - wait.n = Seconds(Value)
      BY <1>1, <3>1, <3>2
    <3> QED BY <1>1, <2>1, <2>3, <3>1, <3>2, <3>3
  <2> QED BY <2>2, <2>3
<1>4. IdleRests' /\ WaitIsKnown' /\ LoadsFresh'
  BY DEF SetTarget, Counted, IdleRests, WaitIsKnown, LoadsFresh
<1> QED BY <1>2, <1>3, <1>4 DEF Counted

(* Polling again and returning forget what was loaded. *)
LEMMA PollKeeps == Counted /\ (PollAgain \/ Return) => Counted'
<1> SUFFICES ASSUME Counted, PollAgain \/ Return PROVE Counted'
  OBVIOUS
<1>1. load' = NoLoad /\ load' \in [lo : -1..W-1, hi : -1..W-1]
  BY TimerAssumption DEF PollAgain, Return, NoLoad
<1>2. CASE PollAgain
  <2>1. TypeOK'
    BY <1>1, <1>2 DEF PollAgain, ReadDone, Counted, TypeOK
  <2> QED BY <1>1, <1>2, <2>1 DEF PollAgain, Counted, IdleRests, WaitIsKnown, LoadsFresh, TargetAhead
<1>3. CASE Return
  <2>1. ticks' \in 0..MaxTicks /\ began' \in 0..ticks' /\ target' \in Nat
    BY <1>3, TimerAssumption DEF Return, Counted, TypeOK
  <2>2. wait' \in [kind : {"delay", "sleep"}, n : Delays \cup Sleeps \cup {0}]
    BY <1>3 DEF Return, Idle
  <2>3. TypeOK'
    BY <1>1, <1>3, <2>1, <2>2 DEF Return, TypeOK
  <2> QED BY <1>1, <1>3, <2>3 DEF Return, Counted, IdleRests, WaitIsKnown, LoadsFresh, TargetAhead
<1> QED BY <1>2, <1>3

(* What has been read and what is waited for stays known.                   *)
LEMMA CountedStep == Counted /\ [Next]_vars => Counted'
<1> SUFFICES ASSUME Counted, [Next]_vars PROVE Counted'
  OBVIOUS
<1>1. CASE Tick
  BY <1>1, TickKeeps
<1>2. CASE LoadWord
  BY <1>2, LoadKeeps
<1>3. CASE SetTarget
  BY <1>3, SetKeeps
<1>4. CASE PollAgain \/ Return
  BY <1>4, PollKeeps
<1>5. CASE \E n \in Delays : Call("delay", n)
  BY <1>5, CallKeeps
<1>6. CASE \E n \in Sleeps : Call("sleep", n)
  BY <1>6, CallKeeps
<1>7. CASE UNCHANGED vars
  BY <1>7 DEF vars, Counted, TypeOK, IdleRests, WaitIsKnown, LoadsFresh, LoadedAt, Loading,
              Loaded, TargetAhead
<1> QED BY <1>1, <1>2, <1>3, <1>4, <1>5, <1>6, <1>7 DEF Next, Wait

------------------------------------------------------------------------------
(* The arguments of the waits are positive, as is the length of a second.     *)
LEMMA WaitPositive ==
  ASSUME Counted, pc # "idle"
  PROVE  wait.n \in Nat /\ wait.n > 0 /\ Second \in Nat /\ Second > 0
<1>1. Delays \subseteq Nat \ {0} /\ Sleeps \subseteq Nat \ {0} /\ Second \in Nat \ {0}
  BY TimerAssumption
<1>2. wait.n \in Nat \ {0}
  BY <1>1, Zenon DEF Counted, WaitIsKnown
<1> QED BY <1>1, <1>2

(* A tick in a wait ends one whose read has been done, and its own is due.    *)
LEMMA TickMissesNone == IInv /\ Tick => ReadsAtOnce' /\ NoneMissed'
<1> SUFFICES ASSUME IInv, Tick PROVE ReadsAtOnce' /\ NoneMissed'
  OBVIOUS
<1>1. /\ ticks' = ticks + 1 /\ polled' = "no" /\ ticks \in Nat /\ began \in Nat
      /\ pc' = pc /\ began' = began /\ target' = target /\ wait' = wait
      /\ pc # "idle" => polled = "done"
  BY CountersType DEF IInv, Counted, Tick
<1>2. ReadsAtOnce'
  BY <1>1 DEF IInv, ReadsAtOnce
<1>3. NoneMissed'
  <2> SUFFICES ASSUME pc = "poll", ~torn'
               PROVE  \E v \in {began, began + 1} :
                        v <= ticks' /\ target = Measure(v)' + wait.n /\ Below(v)'
    BY <1>1 DEF NoneMissed
  <2>1. ~torn
    BY DEF Tick
  <2>2. PICK v \in {began, began + 1} :
          v <= ticks /\ target = Measure(v) + wait.n /\ Below(v)
    BY <2>1 DEF IInv, NoneMissed
  <2>3. v \in Nat /\ v <= ticks'
    BY <1>1, <2>2
  <2>4. ASSUME NEW t \in v..ticks', t = ticks' => polled' = "done" PROVE Measure(t) < target
    <3>1. t \in v..ticks /\ polled = "done"
      BY <1>1, <2>3, <2>4
    <3> QED BY <2>2, <3>1 DEF Below
  <2>5. Below(v)'
    BY <1>1, <2>4 DEF Below, Measure
  <2> QED BY <1>1, <2>2, <2>3, <2>5 DEF Measure
<1> QED BY <1>2, <1>3

(* Loading a word, or calling, passes no tick.                              *)
LEMMA LoadMissesNone == IInv /\ LoadWord => ReadsAtOnce' /\ NoneMissed'
<1> SUFFICES ASSUME IInv, LoadWord PROVE ReadsAtOnce' /\ NoneMissed'
  OBVIOUS
<1>1. /\ ticks' = ticks /\ pc' = pc /\ began' = began /\ target' = target /\ wait' = wait
      /\ torn' = torn /\ (polled' = "done" => polled = "done")
  BY DEF LoadWord
<1>2. ReadsAtOnce'
  BY <1>1 DEF IInv, ReadsAtOnce
<1>3. \A v : Below(v) => Below(v)'
  BY <1>1 DEF Below, Measure
<1>4. \A v : Measure(v)' = Measure(v)
  BY <1>1 DEF Measure
<1>5. NoneMissed'
  BY <1>1, <1>3, <1>4 DEF IInv, NoneMissed
<1> QED BY <1>2, <1>5

(* The target is the measure of a tick no later than the one after the call,   *)
(* and lies above it.                                                      *)
LEMMA SetMissesNone == IInv /\ SetTarget => ReadsAtOnce' /\ NoneMissed'
<1> SUFFICES ASSUME IInv, SetTarget PROVE ReadsAtOnce' /\ NoneMissed'
  OBVIOUS
<1>1. /\ ticks' = ticks /\ pc' = "poll" /\ began' = began /\ wait' = wait /\ torn' = torn
      /\ target' = Measure(Value) + wait.n /\ pc = "start" /\ Loaded
      /\ polled' = "done" => polled # "no"
      /\ ticks \in Nat /\ began \in Nat
  BY CountersType DEF IInv, Counted, SetTarget, Deadline, ReadDone
<1>2. ReadsAtOnce'
  BY <1>1 DEF ReadsAtOnce
<1>3. ASSUME ~torn PROVE NoneMissed'
  <2>1. Value \in began..ticks /\ Value \in {ticks, ticks - 1} /\ (polled # "no" => Value = ticks)
    BY <1>1, <1>3, ReadIsOfATick DEF IInv, Counted
  <2>2. PICK v \in began..ticks : v = Value
    BY <2>1
  <2>3. v \in {began, began + 1} /\ v <= ticks
    BY <1>1, <2>2 DEF IInv, ReadsAtOnce
  <2>4. wait.n \in Nat /\ wait.n > 0 /\ Measure(v) \in Nat
    BY <1>1, <2>3, WaitPositive, MeasureType DEF IInv
  <2>5. ASSUME NEW t \in v..ticks, t = ticks => polled' = "done" PROVE Measure(t) < target'
    <3>1. t = v
      BY <1>1, <2>1, <2>2, <2>5
    <3> QED BY <1>1, <2>2, <2>4, <3>1
  <2>6. Below(v)'
    BY <1>1, <2>5 DEF Below, Measure
  <2> QED BY <1>1, <2>2, <2>3, <2>6 DEF NoneMissed, Measure
<1>4. NoneMissed'
  BY <1>1, <1>3 DEF NoneMissed
<1> QED BY <1>2, <1>4

(* A wait that polls again has seen that the tick at hand does not end it, if   *)
(* that was the tick's read.                                               *)
LEMMA PollMissesNone == IInv /\ PollAgain => ReadsAtOnce' /\ NoneMissed'
<1> SUFFICES ASSUME IInv, PollAgain PROVE ReadsAtOnce' /\ NoneMissed'
  OBVIOUS
<1>1. /\ ticks' = ticks /\ pc' = pc /\ began' = began /\ wait' = wait /\ torn' = torn
      /\ target' = target /\ pc = "poll" /\ Loaded /\ ~(Measure(Value) >= target)
      /\ polled' = "done" => polled \in {"begun", "done"}
      /\ ticks \in Nat /\ began \in Nat /\ target \in Nat
  BY CountersType DEF IInv, Counted, PollAgain, Reached, ReadDone
<1>2. ReadsAtOnce'
  BY <1>1 DEF ReadsAtOnce
<1>3. ASSUME ~torn PROVE NoneMissed'
  <2>1. polled # "no" => Measure(ticks) < target
    <3> SUFFICES ASSUME polled # "no" PROVE Measure(ticks) < target
      OBVIOUS
    <3>1. Value = ticks
      BY <1>1, <1>3, ReadIsOfATick DEF IInv, Counted
    <3>2. Measure(ticks) \in Nat
      BY <1>1, MeasureType
    <3> QED BY <1>1, <3>1, <3>2
  <2>2. PICK v \in {began, began + 1} :
          v <= ticks /\ target = Measure(v) + wait.n /\ Below(v)
    BY <1>1, <1>3 DEF IInv, NoneMissed
  <2>3. ASSUME NEW t \in v..ticks, t = ticks => polled' = "done" PROVE Measure(t) < target
    BY <1>1, <2>1, <2>2, <2>3 DEF Below
  <2>4. Below(v)'
    BY <1>1, <2>3 DEF Below, Measure
  <2> QED BY <1>1, <2>2, <2>4 DEF NoneMissed, Measure
<1>4. NoneMissed'
  BY <1>1, <1>3 DEF NoneMissed
<1> QED BY <1>2, <1>4

(* The inductive invariant holds initially.                                 *)
LEMMA InitIInv == Init => IInv
BY InitCounted DEF Init, IInv, ReadsAtOnce, NoneMissed

(* Every step keeps the inductive invariant.                                *)
LEMMA StepIInv == IInv /\ [Next]_vars => IInv'
<1> SUFFICES ASSUME IInv, [Next]_vars PROVE IInv'
  OBVIOUS
<1>1. Counted'
  BY CountedStep DEF IInv
<1>2. ReadsAtOnce' /\ NoneMissed'
  <2>1. CASE Tick
    BY <2>1, TickMissesNone
  <2>2. CASE LoadWord
    BY <2>2, LoadMissesNone
  <2>3. CASE SetTarget
    BY <2>3, SetMissesNone
  <2>4. CASE PollAgain
    BY <2>4, PollMissesNone
  <2>5. CASE Return
    BY <2>5 DEF Return, ReadsAtOnce, NoneMissed
  <2>6. ASSUME NEW kind, NEW n, Call(kind, n) PROVE ReadsAtOnce' /\ NoneMissed'
    <3>1. pc' = "start" /\ ticks' = ticks /\ began' = ticks /\ ticks \in Nat
      BY <2>6, CountersType DEF Call, IInv, Counted
    <3> QED BY <3>1 DEF ReadsAtOnce, NoneMissed
  <2>7. CASE UNCHANGED vars
    BY <2>7 DEF vars, IInv, ReadsAtOnce, NoneMissed, Below, Measure
  <2> QED BY <2>1, <2>2, <2>3, <2>4, <2>5, <2>6, <2>7 DEF Next, Wait
<1> QED BY <1>1, <1>2 DEF IInv

------------------------------------------------------------------------------
(* The inductive invariant holds in every reachable state. *)
THEOREM Invariance == Spec => []IInv
BY InitIInv, StepIInv, PTL DEF Spec

(* Every variable of the timer has its type: timer.c's counter, the words read *)
(* from it and the target of a wait, torn or not.                           *)
THEOREM TypeCorrect == Spec => []TypeOK
<1>1. IInv => TypeOK
  BY DEF IInv, Counted, Counted
<1> QED BY <1>1, Invariance, PTL

(* helper.c's delay returns after at least the ticks it was asked for, unless a *)
(* carry of the low word fell between two of its loads.                     *)
THEOREM DelayNeverShort == Spec => DelayLongEnough
<1>1. IInv /\ Return /\ wait.kind = "delay" /\ ~torn => Elapsed >= wait.n
  <2> SUFFICES ASSUME IInv, Return, wait.kind = "delay", ~torn PROVE Elapsed >= wait.n
    OBVIOUS
  <2>1. ticks \in Nat /\ began \in Nat /\ target \in Nat /\ wait.n \in Nat
    BY CountersType DEF IInv, Counted, Counted
  <2>2. Value \in began..ticks /\ Value >= target
    BY ReadIsOfATick DEF IInv, Counted, Return, Reached, Measure
  <2>3. target >= began + wait.n
    BY DEF IInv, Counted, TargetAhead, Return
  <2> QED BY <2>1, <2>2, <2>3 DEF Elapsed
<1>2. IInv /\ [Next]_vars => [Return /\ wait.kind = "delay" /\ ~torn => Elapsed >= wait.n]_vars
  BY <1>1
<1> QED BY <1>2, Invariance, PTL DEF Spec, DelayLongEnough

(* helper.c's sleep returns in the tick of a whole second of uptime, not before *)
(* its second, and its seconds after the call if the counter showed one then.  *)
THEOREM SleepOnSecond == Spec => SleepEndsOnSecond
<1> DEFINE Ends == \E t \in {ticks, ticks - 1} :
                     /\ t % Second = 0 /\ t >= Asked
                     /\ target > wait.n => t >= began + Asked
<1>1. IInv /\ Return /\ wait.kind = "sleep" /\ ~torn => Ends
  <2> SUFFICES ASSUME IInv, Return, wait.kind = "sleep", ~torn PROVE Ends
    OBVIOUS
  <2>1. /\ ticks \in Nat /\ began \in Nat /\ target \in Nat /\ Second \in Nat
        /\ wait.n \in Nat /\ wait.n > 0
    <3>1. wait.n \in Sleeps
      BY DEF IInv, Counted, WaitIsKnown, Return
    <3>2. wait.n \in Nat /\ wait.n > 0
      <4>1. Sleeps \subseteq Nat \ {0}
        BY TimerAssumption
      <4>2. wait.n \in Nat \ {0}
        BY <3>1, <4>1, Zenon
      <4> QED BY <4>2
    <3> QED BY <3>2, CountersType DEF IInv, Counted, Counted
  <2>2. Value \in began..ticks /\ Value \in {ticks, ticks - 1} /\ Seconds(Value) >= target
    BY ReadIsOfATick DEF IInv, Counted, Return, Reached, Measure
  <2>3. target >= wait.n /\ (target > wait.n => Second * (target - wait.n) >= began)
    BY DEF IInv, Counted, TargetAhead, Return
  <2>4. Value \in Nat /\ Seconds(Value) \in Nat /\ Seconds(Value) > 0
    <3>1. Value \in Nat
      BY <2>1, <2>2
    <3> QED BY <3>1, <2>1, <2>2, <2>3, ShownSecond
  <2>5. Value % Second = 0 /\ Value = Second * Seconds(Value)
    BY <2>4, ShownSecond
  <2>6. Asked = wait.n * Second
    BY DEF Asked
  <2>7. Second * Seconds(Value) >= Second * target
    BY <2>1, <2>2, <2>4
  <2>8. Second * target >= Second * wait.n
    BY <2>1, <2>3
  <2>9. Value >= Asked
    BY <2>1, <2>4, <2>5, <2>6, <2>7, <2>8
  <2>10. target > wait.n => Value >= began + Asked
    <3> SUFFICES ASSUME target > wait.n PROVE Value >= began + Asked
      OBVIOUS
    <3>1. Second * (target - wait.n) = Second * target - Second * wait.n
      BY <2>1
    <3> QED BY <2>1, <2>3, <2>4, <2>5, <2>6, <2>7, <3>1
  <2> QED BY <2>2, <2>5, <2>9, <2>10
<1>2. IInv /\ [Next]_vars => [Return /\ wait.kind = "sleep" /\ ~torn => Ends]_vars
  BY <1>1
<1> QED BY <1>2, Invariance, PTL DEF Spec, SleepEndsOnSecond

(* A tick whose measure ends a wait comes no later than what was asked after the *)
(* one the target was set from: the same tick of a later second for sleep, or   *)
(* the next whole second if none showed.                                    *)
LEMMA EndsInTime ==
  ASSUME NEW n \in Nat, n > 0, NEW v \in Nat, NEW from \in Nat, v \in {from, from + 1}
  PROVE  \E t \in Nat : t >= v /\ t <= from + n * Second + 1 /\ Seconds(t) >= Seconds(v) + n
<1>1. Second \in Nat /\ Second > 0
  BY TimerAssumption
<1> DEFINE q == v \div Second
<1>2. q \in Nat /\ v = Second * q + (v % Second) /\ v % Second \in 0..Second - 1
  BY <1>1
<1>3. \A k \in Nat : (Second * k) % Second = 0 /\ (Second * k) \div Second = k
  BY <1>1
<1>4. \A k \in Nat : Second * k \in Nat /\ Seconds(Second * k) = k
  BY <1>1, <1>3 DEF Seconds
<1> HIDE DEF q
<1>5. CASE v % Second = 0
  <2>1. Seconds(v) = q
    BY <1>5 DEF Seconds, q
  <2>2. Second * (q + n) = Second * q + n * Second /\ q + n \in Nat
    BY <1>1, <1>2
  <2>3. n * Second \in Nat
    BY <1>1
  <2>4. Second * q = v
    <3>1. Second * q \in Nat
      BY <1>1, <1>2
    <3> QED BY <1>2, <1>5, <3>1
  <2>5. Seconds(Second * (q + n)) = q + n /\ Second * (q + n) \in Nat
    BY <1>4, <2>2
  <2>6. PICK t \in Nat : t = Second * (q + n)
    BY <2>5
  <2>7. t = v + n * Second /\ Seconds(t) = Seconds(v) + n
    BY <2>1, <2>2, <2>4, <2>5, <2>6
  <2>8. t >= v /\ t <= from + n * Second + 1
    <3> HIDE DEF q
    <3> QED BY <2>3, <2>7
  <2>9. Seconds(t) >= Seconds(v) + n
    BY <1>2, <2>1, <2>7
  <2> QED BY <2>8, <2>9
<1>6. CASE v % Second # 0
  <2>1. Seconds(v) = 0
    BY <1>6 DEF Seconds
  <2>2. n * Second >= Second /\ n * Second \in Nat /\ Second * n = n * Second
    BY <1>1
  <2>3. Second * (q + 1) = Second * q + Second /\ q + 1 \in Nat
    BY <1>1, <1>2
  <2>4. CASE q + 1 >= n
    <3>1. Second * (q + 1) >= v /\ Second * (q + 1) <= from + n * Second + 1
      BY <1>1, <1>2, <1>6, <2>2, <2>3
    <3>2. Seconds(Second * (q + 1)) = q + 1 /\ Second * (q + 1) \in Nat
      BY <1>4, <2>3
    <3> QED BY <2>1, <2>4, <3>1, <3>2
  <2>5. CASE q + 1 < n
    <3>1. Second * n >= Second * (q + 1)
      BY <1>1, <1>2, <2>5
    <3>2. Second * n >= v /\ Second * n <= from + n * Second + 1
      BY <1>1, <1>2, <2>2, <2>3, <3>1
    <3>3. Seconds(Second * n) = n /\ Second * n \in Nat
      BY <1>4
    <3> QED BY <2>1, <3>2, <3>3
  <2> QED BY <1>2, <2>4, <2>5
<1> QED BY <1>5, <1>6

(* delay and sleep of helper.c: no wait lasts longer than what it was asked for *)
(* and one tick, unless a carry fell between two of its loads: every tick gets  *)
(* a whole read, so the one that ends the wait is not missed.                 *)
THEOREM NeverTooLong == Spec => NotTooLong
<1>1. IInv /\ Return /\ ~torn => Elapsed <= Asked + 1
  <2> SUFFICES ASSUME IInv, Return, ~torn PROVE Elapsed <= Asked + 1
    OBVIOUS
  <2>1. ticks \in Nat /\ began \in Nat /\ pc = "poll" /\ target \in Nat
    BY CountersType DEF IInv, Counted, Return
  <2>2. wait.n \in Nat /\ wait.n > 0 /\ Second \in Nat /\ Second > 0
    BY <2>1, WaitPositive DEF IInv
  <2>3. PICK v \in {began, began + 1} : v <= ticks /\ target = Measure(v) + wait.n /\ Below(v)
    BY <2>1 DEF IInv, NoneMissed
  <2>4. v \in Nat /\ Asked \in Nat
    BY <2>1, <2>2, <2>3 DEF Asked
  <2>5. \E t \in Nat : t >= v /\ t <= began + Asked + 1 /\ Measure(t) >= target
    <3>1. CASE wait.kind = "delay"
      BY <2>1, <2>2, <2>3, <2>4, <3>1 DEF Measure, Asked
    <3>2. CASE wait.kind # "delay"
      <4>1. \E t \in Nat : t >= v /\ t <= began + wait.n * Second + 1 /\ Seconds(t) >= Seconds(v) + wait.n
        BY <2>1, <2>2, <2>3, <2>4, EndsInTime
      <4> QED BY <2>3, <3>2, <4>1 DEF Measure, Asked
    <3> QED BY <3>1, <3>2
  <2>6. PICK t \in Nat : t >= v /\ t <= began + Asked + 1 /\ Measure(t) >= target
    BY <2>5
  <2>7. Measure(t) \in Nat
    BY <2>6, MeasureType
  <2>8. ~(t < ticks)
    <3> SUFFICES ASSUME t < ticks PROVE FALSE
      OBVIOUS
    <3>1. t \in v..ticks /\ t # ticks
      BY <2>1, <2>4, <2>6
    <3>2. Measure(t) < target
      BY <2>3, <3>1 DEF Below
    <3> QED BY <2>1, <2>6, <2>7, <3>2
  <2> QED BY <2>1, <2>4, <2>6, <2>8 DEF Elapsed
<1>2. IInv /\ [Next]_vars => [Return /\ ~torn => Elapsed <= Asked + 1]_vars
  BY <1>1
<1> QED BY <1>2, Invariance, PTL DEF Spec, NotTooLong
==============================================================================
