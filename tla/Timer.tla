-------------------------------- MODULE Timer ---------------------------------
(***************************************************************************)
(* The tick counter of kernel/cpu/timer.c and the two waits built on it,   *)
(* delay and sleep of kernel/common/helper.c.                              *)
(*                                                                         *)
(* IRQ0 adds one to the 64-bit _kernel_ticks.  The kernel is 32-bit code,  *)
(* so a read of the counter is two loads, in the order the compiler chose, *)
(* and a tick may fall between them.  A word counts modulo W.              *)
(*                                                                         *)
(* sleep counts seconds of Second ticks, and get_timer_seconds answers 0   *)
(* except during the one tick at which a second is complete.               *)
(***************************************************************************)
EXTENDS Integers

CONSTANTS W,          \* values of a machine word (2^32)
          Second,     \* ticks in what sleep calls a second (1000)
          Delays,     \* arguments delay is called with
          Sleeps,     \* arguments sleep is called with
          MaxTicks    \* bound: uptime followed, in ticks

ASSUME TimerAssumption ==
  /\ W \in Nat \ {0} /\ Second \in Nat \ {0} /\ MaxTicks \in Nat
  /\ MaxTicks < W * W
  /\ Delays \cup Sleeps \subseteq Nat \ {0}

VARIABLES
  ticks,      \* _kernel_ticks
  pc,         \* idle, or the wait that runs: start, poll
  wait,       \* [kind: "delay" or "sleep", n: its argument]
  load,       \* the read of the counter in progress: no word, one or both
  target,     \* eticks or eseconds
  polled,     \* a read of the counter since the last tick: no, begun or done
  began,      \* history: the tick at which the wait was called
  torn        \* history: a carry between two loads of the wait that runs

vars == <<ticks, pc, wait, load, target, polled, began, torn>>

Lo(t) == t % W
Hi(t) == t \div W
NoLoad == [lo |-> -1, hi |-> -1]
Loaded == load.lo # -1 /\ load.hi # -1
Loading == load # NoLoad /\ ~Loaded
Value == load.hi * W + load.lo

Idle == [kind |-> "delay", n |-> 0]

Init ==
  /\ ticks = 0 /\ pc = "idle" /\ wait = Idle /\ load = NoLoad
  /\ target = 0 /\ polled = "done" /\ began = 0
  /\ torn = FALSE

------------------------------------------------------------------------------
(* get_timer_seconds of a value read from the counter. *)
Seconds(t) == IF t % Second = 0 THEN t \div Second ELSE 0

(* What the wait compares: ticks for delay, seconds for sleep. *)
Measure(t) == IF wait.kind = "delay" THEN t ELSE Seconds(t)

\* timer_callback.  A wait polls in a tight loop and a tick lasts most of a
\* millisecond, so at least one whole read falls between two ticks.
Tick ==
  /\ ticks < MaxTicks
  /\ pc # "idle" => polled = "done"
  /\ ticks' = ticks + 1 /\ polled' = "no"
  /\ torn' = (torn \/ (Loading /\ Hi(ticks + 1) # Hi(ticks)))
  /\ UNCHANGED <<pc, wait, load, target, began>>

Call(kind, n) ==
  /\ pc = "idle"
  /\ ticks + (IF kind = "delay" THEN n ELSE n * Second) + Second + W < MaxTicks
  /\ pc' = "start" /\ wait' = [kind |-> kind, n |-> n]
  /\ load' = NoLoad /\ began' = ticks
  /\ UNCHANGED <<ticks, target, polled, torn>>

\* One load of the two that read _kernel_ticks.
LoadWord ==
  /\ pc # "idle" /\ ~Loaded
  /\ \/ load.lo = -1 /\ load' = [load EXCEPT !.lo = Lo(ticks)]
     \/ load.hi = -1 /\ load' = [load EXCEPT !.hi = Hi(ticks)]
  /\ polled' = IF load = NoLoad /\ polled = "no" THEN "begun" ELSE polled
  /\ UNCHANGED <<ticks, pc, wait, target, began, torn>>

ReadDone == polled' = IF polled = "begun" THEN "done" ELSE polled

\* helper.c: eticks = get_timer_ticks() + ticks, or the same in seconds.
DeadlineScaled == Measure(Value) + wait.n * Second      \* mutant: wrong unit
DeadlineEarly == Measure(Value) + wait.n - 1            \* mutant: off by one
Deadline == Measure(Value) + wait.n

SetTarget ==
  /\ pc = "start" /\ Loaded
  /\ target' = Deadline
  /\ pc' = "poll" /\ load' = NoLoad /\ ReadDone
  /\ UNCHANGED <<ticks, wait, began, torn>>

\* The loop's condition: again while the counter is below the target.
Exactly(t) == Measure(t) = target                       \* mutant: = for >=
PassedBy(t) == Measure(t) > target                      \* mutant: > for >=
Reached(t) == Measure(t) >= target
PollAgain ==
  /\ pc = "poll" /\ Loaded /\ ~Reached(Value)
  /\ load' = NoLoad /\ ReadDone
  /\ UNCHANGED <<ticks, pc, wait, target, began, torn>>

Return ==
  /\ pc = "poll" /\ Loaded /\ Reached(Value)
  /\ pc' = "idle" /\ wait' = Idle /\ load' = NoLoad
  /\ target' = 0 /\ polled' = "done" /\ began' = 0
  /\ torn' = FALSE /\ UNCHANGED ticks

Wait == LoadWord \/ SetTarget \/ PollAgain \/ Return

Next == \/ Tick \/ Wait
        \/ \E n \in Delays : Call("delay", n)
        \/ \E n \in Sleeps : Call("sleep", n)

Spec == Init /\ [][Next]_vars
FairSpec == Spec /\ WF_vars(Tick) /\ WF_vars(Wait)

------------------------------------------------------------------------------
TypeOK ==
  /\ ticks \in 0..MaxTicks /\ pc \in {"idle", "start", "poll"}
  /\ wait \in [kind : {"delay", "sleep"}, n : Delays \cup Sleeps \cup {0}]
  /\ load \in [lo : -1..W-1, hi : -1..W-1]
  /\ torn \in BOOLEAN
  /\ target \in Nat /\ polled \in {"no", "begun", "done"} /\ began \in 0..ticks

Elapsed == ticks - began

\* Every wait returns: the counter reaches the target of a delay, and a sleep
\* does not miss the single tick at which its last second shows.  A carry of the
\* low word between two loads can make a sleep miss it.
WaitEnds == pc # "idle" ~> (pc = "idle" \/ (wait.kind = "sleep" /\ torn))

Asked == IF wait.kind = "delay" THEN wait.n ELSE wait.n * Second

\* No wait outlasts what was asked by more than the tick it returns in, in
\* particular a sleep that misses no second, unless a load was torn by a carry.
NotTooLong == [][Return /\ ~torn => Elapsed <= Asked + 1]_vars

\* helper.c "Sleep for a specific number of ticks.": a delay is cut short only if
\* the low word of the counter carried between two loads of the wait.
DelayLongEnough == [][Return /\ wait.kind = "delay" /\ ~torn => Elapsed >= wait.n]_vars

\* helper.c "Sleep for a specific number of seconds.": what the code keeps of it.
\* sleep(n) ends within the tick of a whole second of uptime, not before second n,
\* and n seconds after the call only if the counter showed a second at the call.
SleepEndsOnSecond ==
  [][Return /\ wait.kind = "sleep" /\ ~torn =>
       \E t \in {ticks, ticks - 1} :
         /\ t % Second = 0 /\ t >= Asked
         /\ target > wait.n => t >= began + Asked]_vars
==============================================================================
