----------------------------- MODULE KernelProofs ------------------------------
(***************************************************************************)
(* The safety properties of Kernel, for every queue of commands, set of     *)
(* lines, set of exceptions and number of registers.                       *)
(***************************************************************************)
EXTENDS Kernel, SequenceTheorems, TLAPS

(* What a script is made of.  Most commands neither prompt nor touch the login. *)
PlainSteps == {"print", "get_current_regs", "load", "serialcom_write", "fault", "disable", "halt"}
Steps == PlainSteps \cup
  {"serialcom_init_port", "gdt_install", "SET_ISR", "outb", "SET_IRQ", "set_idt", "enable",
   "register_IRQ0", "install_timer", "register_IRQ1", "welcome", "kbd_discard_last_key", "loop",
   "logged_in", "prompt", "login_prompt", "wait", "until", "logged_out", "after"}
Script == Seq(Steps)

\* What is left of a script when k of its steps are done.
Left(script, k) == [i \in 1..Len(script) - k |-> script[i + k]]

(* A controller waits for the end of the interrupt whose handler runs, and of  *)
(* no other.                                                               *)
OnlyThatOne ==
  /\ cpu \in {InKernel, Halted, IRQ0, IRQ1, IRQ14}
  /\ inService = IF cpu \in {InKernel, Halted} THEN [master |-> {}, slave |-> {}]
                 ELSE [master |-> {AtMaster(cpu)}, slave |-> {cpu} \cap 40..47]

(* The register snapshots: at most one has been taken since the kernel asked,  *)
(* none while its flag is up.  As long as a register of the request at hand  *)
(* is still to be loaded, a tick that came has taken the snapshot.          *)
BareLoad(steps, i) == steps[i] = "load" /\ \A j \in 1..i-1 : steps[j] # "get_current_regs"
Loading(steps) == \E i \in 1..Len(steps) : BareLoad(steps, i)
SnapshotTaken == snapshot = asked + 1
Snapshots ==
  /\ asked \in Nat /\ snapshot \in {asked, asked + 1}
  /\ regs_update \in BOOLEAN /\ ticked \in BOOLEAN /\ inTime \in BOOLEAN
  /\ regs_update => snapshot = asked
  /\ inTime => SnapshotTaken
  /\ Loading(todo) => (regs_update \/ SnapshotTaken) /\ (ticked => SnapshotTaken)
  /\ shown \in Seq(Nat)
  /\ \A f \in 1..Len(shown) : shown[f] \in {asked, snapshot} /\ (inTime => shown[f] = asked + 1)
  /\ \A f, g \in 1..Len(shown) : f < g => shown[f] <= shown[g]

(* The tables when k steps of the start-up are done.  The words a controller   *)
(* holds before its reset are nobody's concern.                            *)
WrittenAfter(k) == IF k < 4 THEN 0 ELSE IF k < 14 THEN k - 4 ELSE 10
Given(words, n) == [i \in 1..n \div 2 |-> words[i]]
MasterWords == <<IRQ0, 4, 1, 0>>
SlaveWords == <<IRQ0 + 8, 2, 1, 0>>
Tables(k) ==
  /\ gdt = IF k < 2 THEN "boot" ELSE "kernel"
  /\ idt = [v \in Vectors |-> IF k < (IF v < 32 THEN 4 ELSE 15) THEN NoGate ELSE v]
  /\ idtr = (k >= 16)
  /\ outs = WrittenAfter(k)
  /\ DOMAIN pic = {"master", "slave"}
  /\ k > 4 => pic["master"] = Given(MasterWords, outs - 1)
  /\ k > 5 => pic["slave"] = Given(SlaveWords, outs - 2)
  /\ k < 17 => ~enabled /\ cpu = InKernel

\* The prompts shown when k steps of a script are done, the n-th of which shows one.
Shown(prompt, n, k) == IF k < n THEN {} ELSE {prompt}

Starting(k) ==
  /\ todo = Left(Boot, k) /\ Tables(k)
  /\ login_active = TRUE /\ prompts = Shown(LoginPrompt, 21, k)
  /\ k < 19 => asked = 0 /\ snapshot = 0 /\ regs_update = FALSE

(* The scripts of a line. *)
LoginScript == <<"logged_in", "print", "prompt", "loop">>
RefusedScript == <<"login_prompt", "loop">>
LogoutScript == <<"print", "wait", "until", "print", "logged_out", "wait", "until",
                  "wait", "until", "print", "login_prompt", "after", "loop">>

LoggingIn(k) ==
  /\ todo = Left(LoginScript, k) /\ login_active = (k = 0)
  /\ prompts = Shown(CommandPrompt, 3, k)
Refused(k) ==
  /\ todo = Left(RefusedScript, k) /\ login_active = TRUE
  /\ prompts = Shown(LoginPrompt, 1, k)
LoggingOut(k) ==
  /\ todo = Left(LogoutScript, k) /\ login_active = (k >= 5)
  /\ prompts = Shown(LoginPrompt, 11, k)
Commanded ==
  /\ todo \in Script /\ todo # <<>> /\ login_active = FALSE
  /\ \A i \in 1..Len(todo) :
       /\ i = Len(todo) => todo[i] = "loop"
       /\ i = Len(todo) - 1 => todo[i] = "after"
       /\ i < Len(todo) - 1 => todo[i] \in PlainSteps
  /\ prompts = Shown(CommandPrompt, 0, 1 - Len(todo))

InSession ==
  /\ Tables(22)
  /\ \/ \E k \in 0..3 : LoggingIn(k)
     \/ \E k \in 0..1 : Refused(k)
     \/ \E k \in 0..12 : LoggingOut(k)
     \/ Commanded
Program == (\E k \in 0..22 : Starting(k)) \/ InSession

FaultKnown == fault = NoFault \/ \E v \in Exceptions :
                fault = [raised |-> v, int_no |-> v, message |-> exception_messages[v + 1], eip |-> "eip"]

IInv == OnlyThatOne /\ Snapshots /\ Program /\ FaultKnown

------------------------------------------------------------------------------
(* Scripts, taken as sequences of steps.  Two put together. *)
LEMMA Glue ==
  ASSUME NEW s \in Script, NEW t \in Script
  PROVE  /\ s \o t \in Script /\ Len(s \o t) = Len(s) + Len(t) /\ Len(s) \in Nat /\ Len(t) \in Nat
         /\ \A i \in 1..Len(s) : (s \o t)[i] = s[i]
         /\ \A i \in 1..Len(t) : (s \o t)[Len(s) + i] = t[i]
<1>1. s \o t \in Script /\ Len(s \o t) = Len(s) + Len(t) /\ Len(s) \in Nat /\ Len(t) \in Nat
  BY LenProperties, ConcatProperties DEF Script
<1>2. \A i \in 1..Len(s) : (s \o t)[i] = s[i]
  BY ConcatProperties DEF Script
<1>3. \A i \in 1..Len(t) : (s \o t)[Len(s) + i] = t[i]
  BY ConcatProperties DEF Script
<1> QED
  BY <1>1, <1>2, <1>3

\* A tuple of two steps is a script.
LEMMA Two == ASSUME NEW a \in Steps, NEW b \in Steps
  PROVE  /\ <<a, b>> \in Script /\ Len(<<a, b>>) = 2 /\ <<a, b>>[1] = a /\ <<a, b>>[2] = b
  BY DEF Script

\* So is a tuple of three.
LEMMA Three == ASSUME NEW a \in Steps, NEW b \in Steps, NEW c \in Steps
  PROVE  /\ <<a, b, c>> \in Script /\ Len(<<a, b, c>>) = 3
         /\ <<a, b, c>>[1] = a /\ <<a, b, c>>[2] = b /\ <<a, b, c>>[3] = c
  BY DEF Script

\* The names of the steps.
LEMMA AreSteps ==
  /\ "serialcom_init_port" \in Steps /\ "gdt_install" \in Steps /\ "SET_ISR" \in Steps
  /\ "outb" \in Steps /\ "SET_IRQ" \in Steps /\ "set_idt" \in Steps /\ "enable" \in Steps
  /\ "register_IRQ0" \in Steps /\ "install_timer" \in Steps /\ "register_IRQ1" \in Steps
  /\ "welcome" \in Steps /\ "kbd_discard_last_key" \in Steps /\ "loop" \in Steps
  /\ "logged_in" \in Steps /\ "prompt" \in Steps /\ "login_prompt" \in Steps /\ "wait" \in Steps
  /\ "until" \in Steps /\ "logged_out" \in Steps /\ "after" \in Steps
  /\ "disable" \in Steps /\ "print" \in Steps /\ PlainSteps \subseteq Steps
<1>1. PlainSteps \subseteq Steps
  BY DEF Steps
<1>2. "disable" \in PlainSteps /\ "print" \in PlainSteps
  BY DEF PlainSteps
<1>3. "disable" \in Steps /\ "print" \in Steps
  BY <1>1, <1>2
<1> QED
  BY <1>1, <1>3 DEF Steps

\* The start-up, step by step: serialcom_init_port, gdt_install, isr_install
\* with its ten writes to the controllers, irq_install, and the way to the loop.
LEMMA BootScript ==
  /\ Boot \in Script /\ Len(Boot) = 23
  /\ Boot[1] = "serialcom_init_port" /\ Boot[2] = "gdt_install"
  /\ Boot[3] = "disable" /\ Boot[4] = "SET_ISR" 
  /\ \A i \in 5..14 : Boot[i] = "outb"
  /\ Boot[15] = "SET_IRQ" /\ Boot[16] = "set_idt" /\ Boot[17] = "enable"
  /\ Boot[18] = "register_IRQ0" /\ Boot[19] = "install_timer" /\ Boot[20] = "register_IRQ1"
  /\ Boot[21] = "welcome" /\ Boot[22] = "kbd_discard_last_key" /\ Boot[23] = "loop"
<1> DEFINE O == [w \in 1..Len(Remap) |-> "outb"]
           I0 == <<"disable", "SET_ISR">>
           I1 == I0 \o O
           I2 == <<"SET_IRQ", "set_idt", "enable">>
           B0 == <<"serialcom_init_port", "gdt_install">>
           B1 == B0 \o isr_install
           B2 == B1 \o irq_install
           B3 == <<"welcome", "kbd_discard_last_key", "loop">>
<1>0. Len(Remap) = 10
  BY DEF Remap
<1>1. O \in Script /\ Len(O) = 10 /\ \A i \in 1..10 : O[i] = "outb"
  <2>1. O = [w \in 1..10 |-> "outb"]
    BY <1>0
  <2>2. [w \in 1..10 |-> "outb"] \in Script
    <3>1. "outb" \in Steps
      BY AreSteps
    <3> QED
      BY <3>1 DEF Script
  <2>3. Len([w \in 1..10 |-> "outb"]) = 10
    OBVIOUS
  <2> QED
    BY <2>1, <2>2, <2>3
<1>2. I0 \in Script /\ Len(I0) = 2 /\ I0[1] = "disable" /\ I0[2] = "SET_ISR"
  BY AreSteps, Two
<1>3. I2 \in Script /\ Len(I2) = 3 /\ I2[1] = "SET_IRQ" /\ I2[2] = "set_idt" /\ I2[3] = "enable"
  BY AreSteps, Three
<1>4. B0 \in Script /\ Len(B0) = 2 /\ B0[1] = "serialcom_init_port" /\ B0[2] = "gdt_install"
  BY AreSteps, Two
<1>5. B3 \in Script /\ Len(B3) = 3 /\ B3[1] = "welcome" /\ B3[2] = "kbd_discard_last_key" /\ B3[3] = "loop"
  BY AreSteps, Three
<1>6. irq_install \in Script /\ Len(irq_install) = 3 /\ irq_install[1] = "register_IRQ0"
      /\ irq_install[2] = "install_timer" /\ irq_install[3] = "register_IRQ1"
  BY AreSteps, Three DEF irq_install
<1>7. isr_install = I1 \o I2 /\ Boot = B2 \o B3
  BY DEF isr_install, Boot
<1>8. I1 = I0 \o O /\ B1 = B0 \o isr_install /\ B2 = B1 \o irq_install
  OBVIOUS
<1> HIDE DEF O, I0, I1, I2, B0, B1, B2, B3
<1>9. I1 \in Script /\ Len(I1) = 12 /\ (\A i \in 1..2 : I1[i] = I0[i])
      /\ \A i \in 1..10 : I1[2 + i] = O[i]
  <2>1. I0 \o O \in Script /\ Len(I0 \o O) = Len(I0) + Len(O)
    BY <1>1, <1>2, Glue
  <2>2. \A i \in 1..Len(I0) : (I0 \o O)[i] = I0[i]
    BY <1>1, <1>2, Glue
  <2>3. \A i \in 1..Len(O) : (I0 \o O)[Len(I0) + i] = O[i]
    BY <1>1, <1>2, Glue
  <2>4. Len(I0) = 2 /\ Len(O) = 10
    BY <1>1, <1>2
  <2>5. I1 = I0 \o O
    BY <1>8
  <2>6. I1 \in Script /\ Len(I1) = 12
    BY <2>1, <2>4, <2>5
  <2> QED
    BY <2>2, <2>3, <2>4, <2>5, <2>6
<1>10. isr_install \in Script /\ Len(isr_install) = 15 /\ (\A i \in 1..12 : isr_install[i] = I1[i])
      /\ \A i \in 1..3 : isr_install[12 + i] = I2[i]
  <2>1. I1 \o I2 \in Script /\ Len(I1 \o I2) = Len(I1) + Len(I2)
    BY <1>3, <1>9, Glue
  <2>2. \A i \in 1..Len(I1) : (I1 \o I2)[i] = I1[i]
    BY <1>3, <1>9, Glue
  <2>3. \A i \in 1..Len(I2) : (I1 \o I2)[Len(I1) + i] = I2[i]
    BY <1>3, <1>9, Glue
  <2>4. Len(I1) = 12 /\ Len(I2) = 3
    BY <1>3, <1>9
  <2>5. isr_install = I1 \o I2
    BY <1>7
  <2>6. isr_install \in Script /\ Len(isr_install) = 15
    BY <2>1, <2>4, <2>5
  <2> QED
    BY <2>2, <2>3, <2>4, <2>5, <2>6
<1>11. B1 \in Script /\ Len(B1) = 17 /\ (\A i \in 1..2 : B1[i] = B0[i])
      /\ \A i \in 1..15 : B1[2 + i] = isr_install[i]
  <2>1. B0 \o isr_install \in Script /\ Len(B0 \o isr_install) = Len(B0) + Len(isr_install)
    BY <1>4, <1>10, Glue
  <2>2. \A i \in 1..Len(B0) : (B0 \o isr_install)[i] = B0[i]
    BY <1>4, <1>10, Glue
  <2>3. \A i \in 1..Len(isr_install) : (B0 \o isr_install)[Len(B0) + i] = isr_install[i]
    BY <1>4, <1>10, Glue
  <2>4. Len(B0) = 2 /\ Len(isr_install) = 15
    BY <1>4, <1>10
  <2>5. B1 = B0 \o isr_install
    BY <1>8
  <2>6. B1 \in Script /\ Len(B1) = 17
    BY <2>1, <2>4, <2>5
  <2> QED
    BY <2>2, <2>3, <2>4, <2>5, <2>6
<1>12. B2 \in Script /\ Len(B2) = 20 /\ (\A i \in 1..17 : B2[i] = B1[i])
      /\ \A i \in 1..3 : B2[17 + i] = irq_install[i]
  <2>1. B1 \o irq_install \in Script /\ Len(B1 \o irq_install) = Len(B1) + Len(irq_install)
    BY <1>6, <1>11, Glue
  <2>2. \A i \in 1..Len(B1) : (B1 \o irq_install)[i] = B1[i]
    BY <1>6, <1>11, Glue
  <2>3. \A i \in 1..Len(irq_install) : (B1 \o irq_install)[Len(B1) + i] = irq_install[i]
    BY <1>6, <1>11, Glue
  <2>4. Len(B1) = 17 /\ Len(irq_install) = 3
    BY <1>6, <1>11
  <2>5. B2 = B1 \o irq_install
    BY <1>8
  <2>6. B2 \in Script /\ Len(B2) = 20
    BY <2>1, <2>4, <2>5
  <2> QED
    BY <2>2, <2>3, <2>4, <2>5, <2>6
<1>13. Boot \in Script /\ Len(Boot) = 23 /\ (\A i \in 1..20 : Boot[i] = B2[i])
      /\ \A i \in 1..3 : Boot[20 + i] = B3[i]
  <2>1. B2 \o B3 \in Script /\ Len(B2 \o B3) = Len(B2) + Len(B3)
    BY <1>5, <1>12, Glue
  <2>2. \A i \in 1..Len(B2) : (B2 \o B3)[i] = B2[i]
    BY <1>5, <1>12, Glue
  <2>3. \A i \in 1..Len(B3) : (B2 \o B3)[Len(B2) + i] = B3[i]
    BY <1>5, <1>12, Glue
  <2>4. Len(B2) = 20 /\ Len(B3) = 3
    BY <1>5, <1>12
  <2>5. Boot = B2 \o B3
    BY <1>7
  <2>6. Boot \in Script /\ Len(Boot) = 23
    BY <2>1, <2>4, <2>5
  <2> QED
    BY <2>2, <2>3, <2>4, <2>5, <2>6
<1>14. \A i \in 1..17 : Boot[i] = B1[i]
  BY <1>12, <1>13
<1>15. \A i \in 1..15 : Boot[2 + i] = isr_install[i]
  BY <1>11, <1>14
<1>16. \A i \in 1..12 : Boot[2 + i] = I1[i]
  BY <1>10, <1>15
<1>17. Boot[1] = "serialcom_init_port" /\ Boot[2] = "gdt_install"
  BY <1>4, <1>11, <1>14
<1>18. Boot[2 + 1] = "disable" /\ Boot[2 + 2] = "SET_ISR"
  BY <1>2, <1>9, <1>16
<1>19. ASSUME NEW i \in 5..14 PROVE Boot[i] = "outb"
  <2>1. i - 4 \in 1..10 /\ i - 2 \in 1..12 /\ 2 + (i - 4) = i - 2 /\ 2 + (i - 2) = i
    OBVIOUS
  <2>2. I1[2 + (i - 4)] = "outb"
    BY <1>1, <1>9, <2>1
  <2>3. Boot[2 + (i - 2)] = I1[i - 2]
    BY <1>16, <2>1
  <2> QED
    BY <2>1, <2>2, <2>3
<1>20. Boot[2 + 13] = isr_install[12 + 1] /\ Boot[2 + 14] = isr_install[12 + 2] /\ Boot[2 + 15] = isr_install[12 + 3]
  BY <1>15
<1>21. isr_install[12 + 1] = "SET_IRQ" /\ isr_install[12 + 2] = "set_idt" /\ isr_install[12 + 3] = "enable"
  BY <1>3, <1>10
<1>22. B2[18] = irq_install[1] /\ B2[19] = irq_install[2] /\ B2[20] = irq_install[3]
  <2>1. B2[17 + 1] = irq_install[1]
    BY <1>12
  <2>2. B2[17 + 2] = irq_install[2]
    BY <1>12
  <2>3. B2[17 + 3] = irq_install[3]
    BY <1>12
  <2> QED
    BY <2>1, <2>2, <2>3
<1>23. Boot[18] = B2[18] /\ Boot[19] = B2[19] /\ Boot[20] = B2[20]
  BY <1>13
<1>24. Boot[21] = B3[1] /\ Boot[22] = B3[2] /\ Boot[23] = B3[3]
  <2>1. Boot[20 + 1] = B3[1]
    BY <1>13
  <2>2. Boot[20 + 2] = B3[2]
    BY <1>13
  <2>3. Boot[20 + 3] = B3[3]
    BY <1>13
  <2> QED
    BY <2>1, <2>2, <2>3
<1>25. /\ Boot[3] = "disable" /\ Boot[4] = "SET_ISR" /\ Boot[15] = "SET_IRQ" /\ Boot[16] = "set_idt"
       /\ Boot[17] = "enable"
  BY <1>18, <1>20, <1>21
<1>26. Boot[18] = "register_IRQ0" /\ Boot[19] = "install_timer" /\ Boot[20] = "register_IRQ1"
  BY <1>6, <1>22, <1>23
<1>27. Boot[21] = "welcome" /\ Boot[22] = "kbd_discard_last_key" /\ Boot[23] = "loop"
  BY <1>5, <1>24
<1>28. Boot \in Script /\ Len(Boot) = 23
  BY <1>13
<1> HIDE DEF Script
<1> QED
  BY <1>17, <1>19, <1>25, <1>26, <1>27, <1>28, Zenon

(* Doing a step of a script leaves the script from the next step on. *)
LEMMA LeftStep ==
  ASSUME NEW script \in Script, NEW k \in 0..Len(script)-1
  PROVE  /\ Left(script, k) \in Script /\ Len(Left(script, k)) = Len(script) - k
         /\ Left(script, k) # <<>> /\ Head(Left(script, k)) = script[k + 1]
         /\ Tail(Left(script, k)) = Left(script, k + 1)
<1> DEFINE s == Left(script, k)
<1>1. \A i \in 1..Len(script) - k : script[i + k] \in Steps
  BY ElementOfSeq DEF Script
<1>2. Len(script) \in Nat
  BY LenProperties DEF Script
<1>3. s = SubSeq(script, k + 1, Len(script))
  BY <1>2 DEF Left
<1>4. s \in Script /\ Len(s) = Len(script) - k /\ \A i \in 1..Len(script)-k : s[i] = script[i + k]
  BY <1>1, <1>3, SubSeqProperties, <1>2, ElementOfSeq DEF Script
<1>5. Head(s) = script[k + 1] /\ s # <<>> 
  BY <1>2, <1>4 DEF Left
<1>6. Tail(s) = SubSeq(script, k + 2, Len(script))
  BY <1>2, <1>3, HeadTailOfSubSeq DEF Script
<1>7. Tail(s) = Left(script, k + 1)
  BY <1>2, <1>6 DEF Left
<1> QED
  BY <1>4, <1>5, <1>7

\* The start-up has twenty-three steps.
LEMMA BootIsScript == Boot \in Script /\ Len(Boot) = 23
  BY BootScript

\* Ten of them in a row write to a controller.
LEMMA BootOuts == \A i \in 5..14 : Boot[i] = "outb"
  BY BootScript

\* The others, by their place.
LEMMA BootSteps ==
  /\ Boot[1] = "serialcom_init_port" /\ Boot[2] = "gdt_install" /\ Boot[3] = "disable"
  /\ Boot[4] = "SET_ISR" /\ Boot[15] = "SET_IRQ" /\ Boot[16] = "set_idt" /\ Boot[17] = "enable"
  /\ Boot[18] = "register_IRQ0" /\ Boot[19] = "install_timer" /\ Boot[20] = "register_IRQ1"
  /\ Boot[21] = "welcome" /\ Boot[22] = "kbd_discard_last_key" /\ Boot[23] = "loop"
  BY BootScript

\* What is left of the start-up begins with its next step.
LEMMA StartingAt ==
  ASSUME NEW k \in 0..22, Starting(k)
  PROVE  /\ todo \in Script /\ todo # <<>> /\ Head(todo) = Boot[k + 1] /\ Tail(todo) = Left(Boot, k + 1)
<1>1. Boot \in Script
  BY BootIsScript
<1>2. Len(Boot) = 23
  BY BootIsScript
<1>3. k \in 0..Len(Boot) - 1
  BY <1>2
<1>4. todo = Left(Boot, k)
  BY DEF Starting
<1>5. Left(Boot, k) \in Script /\ Left(Boot, k) # <<>> /\ Head(Left(Boot, k)) = Boot[k + 1]
      /\ Tail(Left(Boot, k)) = Left(Boot, k + 1)
  BY <1>1, <1>3, LeftStep
<1> QED
  BY <1>4, <1>5

(* Where in the start-up a step is done. *)
LEMMA StartingWhere ==
  ASSUME NEW k \in 0..22, Starting(k), NEW step, At(step)
  PROVE  /\ step = "serialcom_init_port" => k = 0
         /\ step = "gdt_install" => k = 1
         /\ step = "disable" => k = 2
         /\ step = "SET_ISR" => k = 3
         /\ step = "outb" => k \in 4..13
         /\ step = "SET_IRQ" => k = 14
         /\ step = "set_idt" => k = 15
         /\ step = "enable" => k = 16
         /\ step = "register_IRQ0" => k = 17
         /\ step = "install_timer" => k = 18
         /\ step = "register_IRQ1" => k = 19
         /\ step = "welcome" => k = 20
         /\ step = "kbd_discard_last_key" => k = 21
         /\ step = "loop" => k = 22
         /\ step \notin {"logged_in", "print", "prompt", "login_prompt", "wait", "until", "logged_out", "after",
                         "get_current_regs", "load", "serialcom_write", "fault", "halt"}
<1>1. step = Boot[k + 1]
  BY StartingAt DEF At
<1>2. k + 1 \in 5..14 \/ k \in {0, 1, 2, 3, 14, 15, 16, 17, 18, 19, 20, 21, 22}
  OBVIOUS
<1>3. CASE k + 1 \in 5..14
  <2>1. Boot[k + 1] = "outb" /\ k \in 4..13
    BY <1>3, BootOuts
  <2> QED
    BY <1>1, <2>1
<1>4. CASE k = 0
  <2>1. step = Boot[1]
    BY <1>1, <1>4
  <2>2. step = "serialcom_init_port"
    BY <2>1, BootSteps
  <2> QED
    BY <1>4, <2>2
<1>5. CASE k = 1
  <2>1. step = Boot[2]
    BY <1>1, <1>5
  <2>2. step = "gdt_install"
    BY <2>1, BootSteps
  <2> QED
    BY <1>5, <2>2
<1>6. CASE k = 2
  <2>1. step = Boot[3]
    BY <1>1, <1>6
  <2>2. step = "disable"
    BY <2>1, BootSteps
  <2> QED
    BY <1>6, <2>2
<1>7. CASE k = 3
  <2>1. step = Boot[4]
    BY <1>1, <1>7
  <2>2. step = "SET_ISR"
    BY <2>1, BootSteps
  <2> QED
    BY <1>7, <2>2
<1>8. CASE k = 14
  <2>1. step = Boot[15]
    BY <1>1, <1>8
  <2>2. step = "SET_IRQ"
    BY <2>1, BootSteps
  <2> QED
    BY <1>8, <2>2
<1>9. CASE k = 15
  <2>1. step = Boot[16]
    BY <1>1, <1>9
  <2>2. step = "set_idt"
    BY <2>1, BootSteps
  <2> QED
    BY <1>9, <2>2
<1>10. CASE k = 16
  <2>1. step = Boot[17]
    BY <1>1, <1>10
  <2>2. step = "enable"
    BY <2>1, BootSteps
  <2> QED
    BY <1>10, <2>2
<1>11. CASE k = 17
  <2>1. step = Boot[18]
    BY <1>1, <1>11
  <2>2. step = "register_IRQ0"
    BY <2>1, BootSteps
  <2> QED
    BY <1>11, <2>2
<1>12. CASE k = 18
  <2>1. step = Boot[19]
    BY <1>1, <1>12
  <2>2. step = "install_timer"
    BY <2>1, BootSteps
  <2> QED
    BY <1>12, <2>2
<1>13. CASE k = 19
  <2>1. step = Boot[20]
    BY <1>1, <1>13
  <2>2. step = "register_IRQ1"
    BY <2>1, BootSteps
  <2> QED
    BY <1>13, <2>2
<1>14. CASE k = 20
  <2>1. step = Boot[21]
    BY <1>1, <1>14
  <2>2. step = "welcome"
    BY <2>1, BootSteps
  <2> QED
    BY <1>14, <2>2
<1>15. CASE k = 21
  <2>1. step = Boot[22]
    BY <1>1, <1>15
  <2>2. step = "kbd_discard_last_key"
    BY <2>1, BootSteps
  <2> QED
    BY <1>15, <2>2
<1>16. CASE k = 22
  <2>1. step = Boot[23]
    BY <1>1, <1>16
  <2>2. step = "loop"
    BY <2>1, BootSteps
  <2> QED
    BY <1>16, <2>2
<1> QED
  BY <1>2, <1>3, <1>4, <1>5, <1>6, <1>7, <1>8, <1>9, <1>10, <1>11, <1>12, <1>13, <1>14, <1>15, <1>16

\* The script of a login that is accepted has four steps.
LEMMA LoginIsScript == LoginScript \in Script /\ Len(LoginScript) = 4
<1>1. "logged_in" \in Steps /\ "print" \in Steps /\ "prompt" \in Steps /\ "loop" \in Steps
  BY AreSteps
<1>2. ASSUME NEW a \in Steps, NEW b \in Steps, NEW c \in Steps, NEW d \in Steps
      PROVE  <<a, b, c, d>> \in Script
  BY DEF Script
<1>3. LoginScript \in Script
  BY <1>1, <1>2 DEF LoginScript
<1>4. Len(LoginScript) = 4
  BY DEF LoginScript
<1> QED
  BY <1>3, <1>4

\* The script of one that is refused has two.
LEMMA RefusedIsScript == RefusedScript \in Script /\ Len(RefusedScript) = 2
<1>1. "login_prompt" \in Steps /\ "loop" \in Steps
  BY AreSteps
<1>2. RefusedScript \in Script
  BY <1>1 DEF RefusedScript, Script
<1>3. Len(RefusedScript) = 2
  BY DEF RefusedScript
<1> QED
  BY <1>2, <1>3

\* The script of logout has thirteen.
LEMMA LogoutIsScript == LogoutScript \in Script /\ Len(LogoutScript) = 13
<1>1. /\ "print" \in Steps /\ "wait" \in Steps /\ "until" \in Steps /\ "logged_out" \in Steps
      /\ "login_prompt" \in Steps /\ "after" \in Steps /\ "loop" \in Steps
  BY AreSteps
<1>2. ASSUME NEW print \in Steps, NEW wait \in Steps, NEW until \in Steps, NEW out \in Steps,
             NEW login \in Steps, NEW after \in Steps, NEW loop \in Steps
      PROVE  <<print, wait, until, print, out, wait, until, wait, until, print, login, after, loop>>
               \in Script
  BY DEF Script
<1>3. LogoutScript \in Script
  BY <1>1, <1>2 DEF LogoutScript
<1>4. Len(LogoutScript) = 13
  BY DEF LogoutScript
<1> QED
  BY <1>3, <1>4

\* The steps of an accepted login, by their place.
LEMMA LoginSteps ==
  /\ LoginScript[1] = "logged_in" /\ LoginScript[2] = "print" /\ LoginScript[3] = "prompt"
  /\ LoginScript[4] = "loop"
  BY DEF LoginScript

\* Those of a refused one.
LEMMA RefusedSteps == RefusedScript[1] = "login_prompt" /\ RefusedScript[2] = "loop"
  BY DEF RefusedScript

\* Those of logout.
LEMMA LogoutSteps ==
  /\ LogoutScript[1] = "print" /\ LogoutScript[2] = "wait" /\ LogoutScript[3] = "until"
  /\ LogoutScript[4] = "print" /\ LogoutScript[5] = "logged_out" /\ LogoutScript[6] = "wait"
  /\ LogoutScript[7] = "until" /\ LogoutScript[8] = "wait" /\ LogoutScript[9] = "until"
  /\ LogoutScript[10] = "print" /\ LogoutScript[11] = "login_prompt" /\ LogoutScript[12] = "after"
  /\ LogoutScript[13] = "loop"
  BY DEF LogoutScript

(* Where in a login a step is done. *)
LEMMA LoggingInWhere ==
  ASSUME NEW k \in 0..3, LoggingIn(k), NEW step, At(step)
  PROVE  /\ Tail(todo) = Left(LoginScript, k + 1) /\ todo \in Script /\ todo # <<>>
         /\ \/ k = 0 /\ step = "logged_in"
            \/ k = 1 /\ step = "print"
            \/ k = 2 /\ step = "prompt"
            \/ k = 3 /\ step = "loop"
<1>1. LoginScript \in Script
  BY LoginIsScript
<1>2. Len(LoginScript) = 4
  BY LoginIsScript
<1>3. todo = Left(LoginScript, k)
  BY DEF LoggingIn
<1>4. todo \in Script /\ todo # <<>> /\ Head(todo) = LoginScript[k + 1] /\ Tail(todo) = Left(LoginScript, k + 1)
  <2>1. k \in 0..Len(LoginScript)-1
    BY <1>2
  <2> QED
    BY <1>1, <1>3, <2>1, LeftStep
<1>5. step = LoginScript[k + 1]
  BY <1>4 DEF At
<1>6. k \in {0, 1, 2, 3}
  OBVIOUS
<1>7. CASE k = 0
  <2>1. step = LoginScript[1]
    BY <1>5, <1>7
  <2>2. step = "logged_in"
    BY <2>1, LoginSteps
  <2> QED
    BY <1>4, <1>7, <2>2
<1>8. CASE k = 1
  <2>1. step = LoginScript[2]
    BY <1>5, <1>8
  <2>2. step = "print"
    BY <2>1, LoginSteps
  <2> QED
    BY <1>4, <1>8, <2>2
<1>9. CASE k = 2
  <2>1. step = LoginScript[3]
    BY <1>5, <1>9
  <2>2. step = "prompt"
    BY <2>1, LoginSteps
  <2> QED
    BY <1>4, <1>9, <2>2
<1>10. CASE k = 3
  <2>1. step = LoginScript[4]
    BY <1>5, <1>10
  <2>2. step = "loop"
    BY <2>1, LoginSteps
  <2> QED
    BY <1>4, <1>10, <2>2
<1> QED
  BY <1>6, <1>7, <1>8, <1>9, <1>10

(* Where after a refused login. *)
LEMMA RefusedWhere ==
  ASSUME NEW k \in 0..1, Refused(k), NEW step, At(step)
  PROVE  /\ Tail(todo) = Left(RefusedScript, k + 1) /\ todo \in Script /\ todo # <<>>
         /\ \/ k = 0 /\ step = "login_prompt"
            \/ k = 1 /\ step = "loop"
<1>1. RefusedScript \in Script
  BY RefusedIsScript
<1>2. Len(RefusedScript) = 2
  BY RefusedIsScript
<1>3. todo = Left(RefusedScript, k)
  BY DEF Refused
<1>4. todo \in Script /\ todo # <<>> /\ Head(todo) = RefusedScript[k + 1] /\ Tail(todo) = Left(RefusedScript, k + 1)
  <2>1. k \in 0..Len(RefusedScript)-1
    BY <1>2
  <2> QED
    BY <1>1, <1>3, <2>1, LeftStep
<1>5. step = RefusedScript[k + 1]
  BY <1>4 DEF At
<1>6. k \in {0, 1}
  OBVIOUS
<1>7. CASE k = 0
  <2>1. step = RefusedScript[1]
    BY <1>5, <1>7
  <2>2. step = "login_prompt"
    BY <2>1, RefusedSteps
  <2> QED
    BY <1>4, <1>7, <2>2
<1>8. CASE k = 1
  <2>1. step = RefusedScript[2]
    BY <1>5, <1>8
  <2>2. step = "loop"
    BY <2>1, RefusedSteps
  <2> QED
    BY <1>4, <1>8, <2>2
<1> QED
  BY <1>6, <1>7, <1>8

(* Where in a logout. *)
LEMMA LoggingOutWhere ==
  ASSUME NEW k \in 0..12, LoggingOut(k), NEW step, At(step)
  PROVE  /\ Tail(todo) = Left(LogoutScript, k + 1) /\ todo \in Script /\ todo # <<>>
         /\ step = LogoutScript[k + 1]
         /\ \/ k = 0 /\ step = "print"
            \/ k = 1 /\ step = "wait"
            \/ k = 2 /\ step = "until"
            \/ k = 3 /\ step = "print"
            \/ k = 4 /\ step = "logged_out"
            \/ k = 5 /\ step = "wait"
            \/ k = 6 /\ step = "until"
            \/ k = 7 /\ step = "wait"
            \/ k = 8 /\ step = "until"
            \/ k = 9 /\ step = "print"
            \/ k = 10 /\ step = "login_prompt"
            \/ k = 11 /\ step = "after"
            \/ k = 12 /\ step = "loop"
<1>1. LogoutScript \in Script
  BY LogoutIsScript
<1>2. Len(LogoutScript) = 13
  BY LogoutIsScript
<1>3. todo = Left(LogoutScript, k)
  BY DEF LoggingOut
<1>4. todo \in Script /\ todo # <<>> /\ Head(todo) = LogoutScript[k + 1] /\ Tail(todo) = Left(LogoutScript, k + 1)
  <2>1. k \in 0..Len(LogoutScript)-1
    BY <1>2
  <2> QED
    BY <1>1, <1>3, <2>1, LeftStep
<1>5. step = LogoutScript[k + 1]
  BY <1>4 DEF At
<1>6. k \in {0, 1, 2, 3, 4, 5, 6, 7, 8, 9, 10, 11, 12}
  OBVIOUS
<1>7. CASE k = 0
  <2>1. step = LogoutScript[1]
    BY <1>5, <1>7
  <2>2. step = "print"
    BY <2>1, LogoutSteps
  <2> QED
    BY <1>4, <1>5, <1>7, <2>2
<1>8. CASE k = 1
  <2>1. step = LogoutScript[2]
    BY <1>5, <1>8
  <2>2. step = "wait"
    BY <2>1, LogoutSteps
  <2> QED
    BY <1>4, <1>5, <1>8, <2>2
<1>9. CASE k = 2
  <2>1. step = LogoutScript[3]
    BY <1>5, <1>9
  <2>2. step = "until"
    BY <2>1, LogoutSteps
  <2> QED
    BY <1>4, <1>5, <1>9, <2>2
<1>10. CASE k = 3
  <2>1. step = LogoutScript[4]
    BY <1>5, <1>10
  <2>2. step = "print"
    BY <2>1, LogoutSteps
  <2> QED
    BY <1>4, <1>5, <1>10, <2>2
<1>11. CASE k = 4
  <2>1. step = LogoutScript[5]
    BY <1>5, <1>11
  <2>2. step = "logged_out"
    BY <2>1, LogoutSteps
  <2> QED
    BY <1>4, <1>5, <1>11, <2>2
<1>12. CASE k = 5
  <2>1. step = LogoutScript[6]
    BY <1>5, <1>12
  <2>2. step = "wait"
    BY <2>1, LogoutSteps
  <2> QED
    BY <1>4, <1>5, <1>12, <2>2
<1>13. CASE k = 6
  <2>1. step = LogoutScript[7]
    BY <1>5, <1>13
  <2>2. step = "until"
    BY <2>1, LogoutSteps
  <2> QED
    BY <1>4, <1>5, <1>13, <2>2
<1>14. CASE k = 7
  <2>1. step = LogoutScript[8]
    BY <1>5, <1>14
  <2>2. step = "wait"
    BY <2>1, LogoutSteps
  <2> QED
    BY <1>4, <1>5, <1>14, <2>2
<1>15. CASE k = 8
  <2>1. step = LogoutScript[9]
    BY <1>5, <1>15
  <2>2. step = "until"
    BY <2>1, LogoutSteps
  <2> QED
    BY <1>4, <1>5, <1>15, <2>2
<1>16. CASE k = 9
  <2>1. step = LogoutScript[10]
    BY <1>5, <1>16
  <2>2. step = "print"
    BY <2>1, LogoutSteps
  <2> QED
    BY <1>4, <1>5, <1>16, <2>2
<1>17. CASE k = 10
  <2>1. step = LogoutScript[11]
    BY <1>5, <1>17
  <2>2. step = "login_prompt"
    BY <2>1, LogoutSteps
  <2> QED
    BY <1>4, <1>5, <1>17, <2>2
<1>18. CASE k = 11
  <2>1. step = LogoutScript[12]
    BY <1>5, <1>18
  <2>2. step = "after"
    BY <2>1, LogoutSteps
  <2> QED
    BY <1>4, <1>5, <1>18, <2>2
<1>19. CASE k = 12
  <2>1. step = LogoutScript[13]
    BY <1>5, <1>19
  <2>2. step = "loop"
    BY <2>1, LogoutSteps
  <2> QED
    BY <1>4, <1>5, <1>19, <2>2
<1> QED
  BY <1>6, <1>7, <1>8, <1>9, <1>10, <1>11, <1>12, <1>13, <1>14, <1>15, <1>16, <1>17, <1>18, <1>19

\* The steps logout is made of.
LEMMA LogoutSays ==
  ASSUME NEW k \in 0..12, LoggingOut(k), NEW step, At(step)
  PROVE  step \in {"print", "wait", "until", "logged_out", "login_prompt", "after", "loop"}
BY LoggingOutWhere

(* The steps of any other command, the prompt and the next line at the end. *)
LEMMA CommandedWhere ==
  ASSUME Commanded, NEW step, At(step)
  PROVE  \/ Len(todo) = 1 /\ step = "loop"
         \/ Len(todo) = 2 /\ step = "after" /\ Tail(todo) \in Script /\ Len(Tail(todo)) = 1 /\ Tail(todo)[1] = "loop"
         \/ /\ Len(todo) > 2 /\ step \in PlainSteps
            /\ Tail(todo) \in Script /\ Len(Tail(todo)) = Len(todo) - 1
            /\ \A i \in 1..Len(Tail(todo)) :
                 /\ i = Len(Tail(todo)) => Tail(todo)[i] = "loop"
                 /\ i = Len(Tail(todo)) - 1 => Tail(todo)[i] = "after"
                 /\ i < Len(Tail(todo)) - 1 => Tail(todo)[i] \in PlainSteps
<1> DEFINE n == Len(todo)
           t == Tail(todo)
<1>1. todo \in Seq(Steps) /\ todo # <<>>
  BY DEF Commanded, Script
<1>2. n \in Nat \ {0}
  <2>1. n \in Nat
    BY <1>1, LenProperties
  <2>2. n # 0
    BY <1>1, EmptySeq
  <2> QED
    BY <2>1, <2>2
<1>3. t \in Seq(Steps) /\ Len(t) = n - 1 /\ \A i \in 1..Len(t) : t[i] = todo[i + 1]
  BY <1>1, HeadTailProperties
<1>4. step = todo[1]
  BY <1>1, HeadTailProperties DEF At
<1>5. \A i \in 1..n : /\ i = n => todo[i] = "loop"
                      /\ i = n - 1 => todo[i] = "after"
                      /\ i < n - 1 => todo[i] \in PlainSteps
  BY DEF Commanded
<1>6. t \in Script
  BY <1>3 DEF Script
<1> HIDE DEF n, t
<1>7. CASE n = 1
  <2>1. step = "loop"
    BY <1>4, <1>5, <1>7
  <2> QED
    BY <1>7, <2>1 DEF n
<1>8. CASE n = 2
  <2>1. step = "after"
    BY <1>4, <1>5, <1>8
  <2>2. Len(t) = 1 /\ t[1] = todo[2]
    BY <1>3, <1>8
  <2>3. todo[2] = "loop"
    BY <1>5, <1>8
  <2> QED
    BY <1>6, <1>8, <2>1, <2>2, <2>3 DEF n, t
<1>9. CASE n > 2
  <2>1. step \in PlainSteps
    BY <1>2, <1>4, <1>5, <1>9
  <2>2. Len(t) = n - 1
    BY <1>3
  <2>3. ASSUME NEW i \in 1..Len(t)
        PROVE  /\ i = Len(t) => t[i] = "loop"
               /\ i = Len(t) - 1 => t[i] = "after"
               /\ i < Len(t) - 1 => t[i] \in PlainSteps
    <3>1. i + 1 \in 1..n /\ t[i] = todo[i + 1]
      BY <1>2, <1>3, <2>2, <2>3
    <3>2. /\ i + 1 = n => todo[i + 1] = "loop"
          /\ i + 1 = n - 1 => todo[i + 1] = "after"
          /\ i + 1 < n - 1 => todo[i + 1] \in PlainSteps
      BY <1>5, <3>1
    <3> QED
      BY <1>2, <2>2, <3>1, <3>2
  <2> QED
    BY <1>6, <1>9, <2>1, <2>2, <2>3 DEF n, t
<1> QED
  BY <1>2, <1>7, <1>8, <1>9, SMTT(30)

(* The tables are not written after the start-up. *)
LEMMA TablesKept ==
  ASSUME NEW k \in 17..22, Tables(k), UNCHANGED tables
  PROVE  Tables(k)'
  BY DEF Tables, tables, Vectors, Given

(* What the tables are after a step that writes none of them. *)
LEMMA TablesNext ==
  ASSUME NEW k \in {0, 2} \cup 17..21, Tables(k), UNCHANGED tables,
         k < 17 => (enabled' => enabled) /\ UNCHANGED cpu
  PROVE  Tables(k + 1)'
<1> k \in Int /\ (k = 0 \/ k = 2 \/ k >= 17)
  OBVIOUS
<1>1. WrittenAfter(k + 1) = WrittenAfter(k)
  BY DEF WrittenAfter
<1>2. \A w \in {4, 15} : (k + 1 < w) = (k < w)
  OBVIOUS
<1>3. idt' = [v \in Vectors |-> IF k + 1 < (IF v < 32 THEN 4 ELSE 15) THEN NoGate ELSE v]
  BY <1>2 DEF Tables, tables
<1>4. /\ gdt' = IF k + 1 < 2 THEN "boot" ELSE "kernel"
      /\ idtr' = (k + 1 >= 16)
  BY DEF Tables, tables
<1>5. /\ outs' = WrittenAfter(k + 1) /\ DOMAIN pic' = {"master", "slave"}
      /\ k + 1 > 4 => pic'["master"] = Given(MasterWords, outs' - 1)
      /\ k + 1 > 5 => pic'["slave"] = Given(SlaveWords, outs' - 2)
  BY <1>1 DEF Tables, tables
<1>6. k + 1 < 17 => ~enabled' /\ cpu' = InKernel
  BY DEF Tables
<1> QED
  BY <1>3, <1>4, <1>5, <1>6 DEF Tables

(* A step of the start-up goes on to the next one. *)
LEMMA StartingOn ==
  ASSUME NEW k \in 0..21, Starting(k), todo' = Tail(todo), Tables(k + 1)',
         login_active' = login_active, prompts' = Shown(LoginPrompt, 21, k + 1),
         k + 1 < 19 => UNCHANGED <<asked, snapshot, regs_update>>
  PROVE  Program'
<1> k \in 0..22
  OBVIOUS
<1>1. todo' = Left(Boot, k + 1)
  BY StartingAt, Zenon
<1>2. Starting(k + 1)'
  BY <1>1 DEF Starting
<1>3. k + 1 \in 0..22
  OBVIOUS
<1> QED
  BY <1>2, <1>3 DEF Program

\* No step of the set-up is met in the session.
LEMMA InSessionAt ==
  ASSUME InSession, NEW step, At(step)
  PROVE  step \in PlainSteps \cup {"logged_in", "prompt", "loop", "login_prompt", "wait", "until", "logged_out", "after"}
<1>1. "print" \in PlainSteps
  BY DEF PlainSteps
<1>2. CASE \E k \in 0..3 : LoggingIn(k)
  BY <1>1, <1>2, LoggingInWhere
<1>3. CASE \E k \in 0..1 : Refused(k)
  BY <1>3, RefusedWhere
<1>4. CASE \E k \in 0..12 : LoggingOut(k)
  BY <1>1, <1>4, LoggingOutWhere
<1>5. CASE Commanded
  BY <1>5, CommandedWhere
<1> QED
  BY <1>2, <1>3, <1>4, <1>5 DEF InSession

(* The steps of the start-up are done once, in their order. *)
LEMMA StartSteps ==
  ASSUME Program, NEW step, At(step),
         step \in {"serialcom_init_port", "gdt_install", "SET_ISR", "outb", "SET_IRQ", "set_idt", "enable",
                   "register_IRQ0", "install_timer", "register_IRQ1", "welcome", "kbd_discard_last_key"}
  PROVE  \E k \in 0..22 : Starting(k)
<1>1. ~InSession
  BY InSessionAt DEF PlainSteps
<1> QED
  BY <1>1 DEF Program

(* Each step of the start-up that writes a table. *)
LEMMA GdtInstalled ==
  ASSUME Tables(1), gdt' = "kernel", UNCHANGED <<idt, idtr, pic, outs, cpu, enabled>>
  PROVE  Tables(2)'
  BY DEF Tables, WrittenAfter

\* The gates of the exceptions are set, with the lines' still open.
LEMMA StubsOfExceptions ==
  ASSUME Tables(3), idt' = [v \in Vectors |-> IF v < 32 THEN v ELSE idt[v]],
         UNCHANGED <<gdt, idtr, pic, outs, cpu, enabled>>
  PROVE  Tables(4)'
<1>1. \A v \in Vectors : idt[v] = NoGate
  BY DEF Tables
<1>2. idt' = [v \in Vectors |-> IF 4 < (IF v < 32 THEN 4 ELSE 15) THEN NoGate ELSE v]
  BY <1>1 DEF Vectors
<1> QED
  BY <1>2 DEF Tables, WrittenAfter

\* Those of the lines are set, and the exceptions' kept.
LEMMA StubsOfLines ==
  ASSUME Tables(14), idt' = [v \in Vectors |-> IF v < 32 THEN idt[v] ELSE v],
         UNCHANGED <<gdt, idtr, pic, outs, cpu, enabled>>
  PROVE  Tables(15)'
<1>1. \A v \in Vectors : v < 32 => idt[v] = v
  BY DEF Tables
<1>2. idt' = [v \in Vectors |-> IF 15 < (IF v < 32 THEN 4 ELSE 15) THEN NoGate ELSE v]
  BY <1>1 DEF Vectors
<1> QED
  BY <1>2 DEF Tables, WrittenAfter

\* The table of gates is loaded.
LEMMA IdtLoaded ==
  ASSUME Tables(15), idtr' = TRUE, UNCHANGED <<gdt, idt, pic, outs, cpu, enabled>>
  PROVE  Tables(16)'
<1>1. idt' = [v \in Vectors |-> IF 16 < (IF v < 32 THEN 4 ELSE 15) THEN NoGate ELSE v]
  BY DEF Tables
<1>2. outs' = WrittenAfter(16) /\ outs' = outs /\ outs = WrittenAfter(15)
  BY DEF Tables, WrittenAfter
<1>3. gdt' = "kernel" /\ DOMAIN pic' = {"master", "slave"}
      /\ pic'["master"] = Given(MasterWords, outs' - 1) /\ pic'["slave"] = Given(SlaveWords, outs' - 2)
      /\ ~enabled' /\ cpu' = InKernel
  BY DEF Tables
<1>4. idtr' = (16 >= 16)
  <2>1. (16 >= 16) = TRUE
    OBVIOUS
  <2> QED
    BY <2>1
<1>5. outs' = WrittenAfter(16)
  BY <1>2
<1>6. gdt' = IF 16 < 2 THEN "boot" ELSE "kernel"
  BY <1>3
<1> QED
  BY <1>1, <1>3, <1>4, <1>5, <1>6 DEF Tables

\* Interrupts may come only now: nothing is said of them, or of the processor, any more.
LEMMA Enabled ==
  ASSUME Tables(16), UNCHANGED <<gdt, idt, idtr, pic, outs>>
  PROVE  Tables(17)'
<1>1. idt' = [v \in Vectors |-> IF 17 < (IF v < 32 THEN 4 ELSE 15) THEN NoGate ELSE v]
  BY DEF Tables
<1> QED
  BY <1>1 DEF Tables, WrittenAfter

(* The words a controller was given change with every second write. *)
LEMMA GivenNext ==
  ASSUME NEW w \in Seq(Nat), NEW i \in Nat
  PROVE  /\ Given(w, 2 * i + 1) = Given(w, 2 * i)
         /\ i < Len(w) => Given(w, 2 * i + 2) = Append(Given(w, 2 * i + 1), w[i + 1])
<1>1. (2 * i + 1) \div 2 = i /\ (2 * i) \div 2 = i /\ (2 * i + 2) \div 2 = i + 1
  OBVIOUS
<1>2. Given(w, 2 * i + 1) = Given(w, 2 * i)
  BY <1>1 DEF Given
<1>3. ASSUME i < Len(w) PROVE Given(w, 2 * i + 2) = Append(Given(w, 2 * i + 1), w[i + 1])
  BY <1>1, <1>3 DEF Given
<1> QED
  BY <1>2, <1>3

\* Nothing is given yet after the reset.
LEMMA GivenNone == \A w : Given(w, 0) = <<>>
  BY DEF Given

\* The words each controller is to get.
LEMMA Words ==
  /\ MasterWords \in Seq(Nat) /\ SlaveWords \in Seq(Nat)
  /\ MasterWords[1] = 32 /\ MasterWords[2] = 4 /\ MasterWords[3] = 1 /\ MasterWords[4] = 0
  /\ SlaveWords[1] = 40 /\ SlaveWords[2] = 2 /\ SlaveWords[3] = 1 /\ SlaveWords[4] = 0
  /\ Len(MasterWords) = 4 /\ Len(SlaveWords) = 4
  BY DEF MasterWords, SlaveWords, IRQ0

(* The writes of isr_install: the resets, then each word to the controller it is for. *)
LEMMA Writes ==
  /\ Remap[1] = <<32, 17>> /\ Remap[2] = <<160, 17>>
  /\ \A i \in 0..3 : /\ Remap[2 * i + 3] = <<33, MasterWords[i + 1]>>
                     /\ Remap[2 * i + 4] = <<161, SlaveWords[i + 1]>>
<1>1. /\ Remap[1] = <<32, 17>> /\ Remap[2] = <<160, 17>>
      /\ Remap[3] = <<33, 32>> /\ Remap[4] = <<161, 40>>
      /\ Remap[5] = <<33, 4>> /\ Remap[6] = <<161, 2>>
      /\ Remap[7] = <<33, 1>> /\ Remap[8] = <<161, 1>>
      /\ Remap[9] = <<33, 0>> /\ Remap[10] = <<161, 0>>
  BY DEF Remap
<1> QED
  BY <1>1, Words

(* After each write both controllers hold the words it and the writes before gave. *)
LEMMA WriteGiven ==
  ASSUME NEW k \in 4..13, Tables(k), outs' = outs + 1,
         pic' = [pic EXCEPT ![ChipAt(Remap[outs + 1][1])] = Programmed(@, Remap[outs + 1])],
         UNCHANGED <<gdt, idt, idtr, cpu, enabled>>
  PROVE  Tables(k + 1)'
<1> DEFINE m == pic["master"]
           s == pic["slave"]
<1>1. /\ outs = k - 4 /\ DOMAIN pic = {"master", "slave"}
      /\ k > 4 => m = Given(MasterWords, outs - 1)
      /\ k > 5 => s = Given(SlaveWords, outs - 2)
  BY DEF Tables, WrittenAfter
<1>2. outs' = k - 3 /\ outs' = WrittenAfter(k + 1)
  BY <1>1 DEF WrittenAfter
<1>3. SUFFICES /\ DOMAIN pic' = {"master", "slave"} /\ pic'["master"] = Given(MasterWords, k - 4)
               /\ k > 4 => pic'["slave"] = Given(SlaveWords, k - 5)
  <2>1. \A w \in {4, 15} : (k + 1 < w) = (k < w)
    OBVIOUS
  <2>2. /\ ~enabled' /\ cpu' = InKernel
        /\ idt' = [v \in Vectors |-> IF k + 1 < (IF v < 32 THEN 4 ELSE 15) THEN NoGate ELSE v]
    BY <2>1 DEF Tables
  <2>3. (k >= 16) = (k + 1 >= 16) /\ ~(k < 2) /\ ~(k + 1 < 2)
    OBVIOUS
  <2>4. idtr' = (k + 1 >= 16) /\ gdt' = IF k + 1 < 2 THEN "boot" ELSE "kernel"
    BY <2>3 DEF Tables
  <2>5. outs' - 1 = k - 4 /\ outs' - 2 = k - 5
    BY <1>2
  <2> QED
    BY <1>2, <1>3, <2>2, <2>4, <2>5 DEF Tables
<1>4. CASE k = 4
  <2>1. Remap[outs + 1] = <<32, 17>>
    BY <1>1, <1>4, Writes
  <2>2. pic' = [pic EXCEPT !["master"] = <<>>]
    BY <2>1 DEF ChipAt, Programmed, Resets
  <2> QED
    BY <1>1, <1>4, <2>2, GivenNone
<1>5. CASE k = 5
  <2>1. Remap[outs + 1] = <<160, 17>>
    BY <1>1, <1>5, Writes
  <2>2. pic' = [pic EXCEPT !["slave"] = <<>>]
    BY <2>1 DEF ChipAt, Programmed, Resets
  <2>3. Given(MasterWords, 1) = Given(MasterWords, 0)
    BY Words, GivenNext
  <2>4. m = Given(MasterWords, 0)
    BY <1>1, <1>5
  <2> QED
    BY <1>1, <1>5, <2>2, <2>3, <2>4, GivenNone
<1>6. ASSUME NEW i \in 0..3, k = 2 * i + 6
      PROVE  /\ DOMAIN pic' = {"master", "slave"} /\ pic'["master"] = Given(MasterWords, k - 4)
             /\ pic'["slave"] = Given(SlaveWords, k - 5)
  <2>1. Remap[outs + 1] = <<33, MasterWords[i + 1]>>
    <3>1. outs + 1 = 2 * i + 3
      BY <1>1, <1>6
    <3> QED
      BY <3>1, Writes
  <2>2. pic' = [pic EXCEPT !["master"] = Append(m, MasterWords[i + 1])]
    BY <2>1 DEF ChipAt, Programmed, Resets
  <2>3. m = Given(MasterWords, 2 * i + 1) /\ s = Given(SlaveWords, 2 * i)
    BY <1>1, <1>6
  <2>4. Given(MasterWords, 2 * i + 2) = Append(m, MasterWords[i + 1])
    <3>1. MasterWords \in Seq(Nat)
      BY Words
    <3>2. i \in Nat /\ i < Len(MasterWords)
      BY Words
    <3> QED
      BY <2>3, <3>1, <3>2, GivenNext
  <2>5. Given(SlaveWords, 2 * i + 1) = s
    <3>1. SlaveWords \in Seq(Nat) /\ i \in Nat
      BY Words
    <3> QED
      BY <2>3, <3>1, GivenNext
  <2>6. k - 4 = 2 * i + 2 /\ k - 5 = 2 * i + 1
    BY <1>6
  <2> QED
    BY <1>1, <2>2, <2>4, <2>5, <2>6
<1>7. ASSUME NEW i \in 0..3, k = 2 * i + 7
      PROVE  /\ DOMAIN pic' = {"master", "slave"} /\ pic'["master"] = Given(MasterWords, k - 4)
             /\ pic'["slave"] = Given(SlaveWords, k - 5)
  <2>1. Remap[outs + 1] = <<161, SlaveWords[i + 1]>>
    <3>1. outs + 1 = 2 * i + 4
      BY <1>1, <1>7
    <3> QED
      BY <3>1, Writes
  <2>2. pic' = [pic EXCEPT !["slave"] = Append(s, SlaveWords[i + 1])]
    BY <2>1 DEF ChipAt, Programmed, Resets
  <2>3. m = Given(MasterWords, 2 * (i + 1)) /\ s = Given(SlaveWords, 2 * i + 1)
    <3>1. outs - 1 = 2 * (i + 1) /\ outs - 2 = 2 * i + 1
      BY <1>1, <1>7
    <3> QED
      BY <1>1, <1>7, <3>1
  <2>4. Given(SlaveWords, 2 * i + 2) = Append(s, SlaveWords[i + 1])
    <3>1. SlaveWords \in Seq(Nat)
      BY Words
    <3>2. i \in Nat /\ i < Len(SlaveWords)
      BY Words
    <3> QED
      BY <2>3, <3>1, <3>2, GivenNext
  <2>5. Given(MasterWords, 2 * (i + 1) + 1) = m
    <3>1. MasterWords \in Seq(Nat) /\ i + 1 \in Nat
      BY Words
    <3> QED
      BY <2>3, <3>1, GivenNext
  <2>6. k - 4 = 2 * (i + 1) + 1 /\ k - 5 = 2 * i + 2
    BY <1>7
  <2> QED
    BY <1>1, <2>2, <2>4, <2>5, <2>6
<1>8. k = 4 \/ k = 5 \/ (\E i \in 0..3 : k = 2 * i + 6) \/ (\E i \in 0..3 : k = 2 * i + 7)
  <2>1. k \in {4, 5, 6, 7, 8, 9, 10, 11, 12, 13}
    OBVIOUS
  <2>2. /\ 6 = 2 * 0 + 6 /\ 8 = 2 * 1 + 6 /\ 10 = 2 * 2 + 6 /\ 12 = 2 * 3 + 6
        /\ 7 = 2 * 0 + 7 /\ 9 = 2 * 1 + 7 /\ 11 = 2 * 2 + 7 /\ 13 = 2 * 3 + 7
    OBVIOUS
  <2> QED
    BY <2>1, <2>2
<1> QED
  BY <1>4, <1>5, <1>6, <1>7, <1>8

\* A step of the start-up that shows no prompt.
LEMMA StartingQuietly ==
  ASSUME NEW k \in 0..21, k # 20, Starting(k), todo' = Tail(todo), Tables(k + 1)',
         UNCHANGED <<login_active, prompts>>, k = 18 \/ UNCHANGED <<asked, snapshot, regs_update>>
  PROVE  Program'
<1>1. Shown(LoginPrompt, 21, k) = Shown(LoginPrompt, 21, k + 1)
  BY DEF Shown
<1>2. prompts' = Shown(LoginPrompt, 21, k + 1)
  BY <1>1 DEF Starting
<1>3. k + 1 < 19 => UNCHANGED <<asked, snapshot, regs_update>>
  OBVIOUS
<1> QED
  BY <1>2, <1>3, StartingOn

(* The start-up goes on: the actions done only there. *)
LEMMA SetUpKeepsProgram ==
  ASSUME Program,
         \/ serialcom_init_port \/ gdt_install \/ set_idt_gate \/ outb \/ set_idt \/ enable
         \/ register_interrupt_handler \/ install_timer \/ kbd_discard_last_key
  PROVE  Program'
<1>1. CASE serialcom_init_port
  <2>1. At("serialcom_init_port") /\ todo' = Tail(todo) /\ UNCHANGED <<login_active, prompts>>
    BY <1>1 DEF serialcom_init_port, Step, Session
  <2>2. Starting(0)
    BY <2>1, StartSteps, StartingWhere
  <2>3. Tables(0 + 1)'
    BY <1>1, <2>2, TablesNext DEF serialcom_init_port, Starting, machine
  <2>4. UNCHANGED <<asked, snapshot, regs_update>>
    BY <1>1 DEF serialcom_init_port, regs
  <2>5. 0 \in 0..21 /\ 0 # 20
    OBVIOUS
  <2> QED
    BY <2>1, <2>2, <2>3, <2>4, <2>5, StartingQuietly
<1>2. CASE gdt_install
  <2>1. At("gdt_install") /\ todo' = Tail(todo) /\ UNCHANGED <<login_active, prompts>>
    BY <1>2 DEF gdt_install, Step, Session
  <2>2. Starting(1)
    BY <2>1, StartSteps, StartingWhere
  <2>3. Tables(1 + 1)'
    BY <1>2, <2>2, GdtInstalled DEF gdt_install, Starting, machine
  <2>4. UNCHANGED <<asked, snapshot, regs_update>>
    BY <1>2 DEF gdt_install, regs
  <2>5. 1 \in 0..21 /\ 1 # 20
    OBVIOUS
  <2> QED
    BY <2>1, <2>2, <2>3, <2>4, <2>5, StartingQuietly
<1>3. CASE set_idt_gate /\ Step("SET_ISR")
  <2>1. At("SET_ISR") /\ todo' = Tail(todo) /\ UNCHANGED <<login_active, prompts>>
    BY <1>3 DEF set_idt_gate, Step, Session
  <2>2. Starting(3)
    BY <2>1, StartSteps, StartingWhere
  <2>3. Tables(3 + 1)'
    BY <1>3, <2>2, StubsOfExceptions DEF set_idt_gate, Starting, machine, Step, At
  <2>4. UNCHANGED <<asked, snapshot, regs_update>>
    BY <1>3 DEF set_idt_gate, regs
  <2>5. 3 \in 0..21 /\ 3 # 20
    OBVIOUS
  <2> QED
    BY <2>1, <2>2, <2>3, <2>4, <2>5, StartingQuietly
<1>4. CASE set_idt_gate /\ Step("SET_IRQ")
  <2>1. At("SET_IRQ") /\ todo' = Tail(todo) /\ UNCHANGED <<login_active, prompts>>
    BY <1>4 DEF set_idt_gate, Step, Session
  <2>2. Starting(14)
    BY <2>1, StartSteps, StartingWhere
  <2>3. Tables(14 + 1)'
    BY <1>4, <2>2, StubsOfLines DEF set_idt_gate, Starting, machine, Step, At
  <2>4. UNCHANGED <<asked, snapshot, regs_update>>
    BY <1>4 DEF set_idt_gate, regs
  <2>5. 14 \in 0..21 /\ 14 # 20
    OBVIOUS
  <2> QED
    BY <2>1, <2>2, <2>3, <2>4, <2>5, StartingQuietly
<1>5. CASE set_idt
  <2>1. At("set_idt") /\ todo' = Tail(todo) /\ UNCHANGED <<login_active, prompts>>
    BY <1>5 DEF set_idt, Step, Session
  <2>2. Starting(15)
    BY <2>1, StartSteps, StartingWhere
  <2>3. Tables(15 + 1)'
    BY <1>5, <2>2, IdtLoaded DEF set_idt, Starting, machine
  <2>4. UNCHANGED <<asked, snapshot, regs_update>>
    BY <1>5 DEF set_idt, regs
  <2>5. 15 \in 0..21 /\ 15 # 20
    OBVIOUS
  <2> QED
    BY <2>1, <2>2, <2>3, <2>4, <2>5, StartingQuietly
<1>6. CASE enable
  <2>1. At("enable") /\ todo' = Tail(todo) /\ UNCHANGED <<login_active, prompts>>
    BY <1>6 DEF enable, Step, Session
  <2>2. Starting(16)
    BY <2>1, StartSteps, StartingWhere
  <2>3. Tables(16 + 1)'
    BY <1>6, <2>2, Enabled DEF enable, Starting, machine, tables
  <2>4. UNCHANGED <<asked, snapshot, regs_update>>
    BY <1>6 DEF enable, regs
  <2>5. 16 \in 0..21 /\ 16 # 20
    OBVIOUS
  <2> QED
    BY <2>1, <2>2, <2>3, <2>4, <2>5, StartingQuietly
<1>7. CASE register_interrupt_handler /\ Step("register_IRQ0")
  <2>1. At("register_IRQ0") /\ todo' = Tail(todo) /\ UNCHANGED <<login_active, prompts>>
    BY <1>7 DEF register_interrupt_handler, Step, Session
  <2>2. Starting(17)
    BY <2>1, StartSteps, StartingWhere
  <2>3. Tables(17 + 1)'
    <3>1. UNCHANGED tables /\ Tables(17)
      BY <1>7, <2>2 DEF register_interrupt_handler, Starting
    <3>2. 17 \in {0, 2} \cup 17..21 /\ ~(17 < 17)
      OBVIOUS
    <3> QED
      BY <3>1, <3>2, TablesNext
  <2>4. UNCHANGED <<asked, snapshot, regs_update>>
    BY <1>7 DEF register_interrupt_handler, regs
  <2>5. 17 \in 0..21 /\ 17 # 20
    OBVIOUS
  <2> QED
    BY <2>1, <2>2, <2>3, <2>4, <2>5, StartingQuietly
<1>8. CASE register_interrupt_handler /\ Step("register_IRQ1")
  <2>1. At("register_IRQ1") /\ todo' = Tail(todo) /\ UNCHANGED <<login_active, prompts>>
    BY <1>8 DEF register_interrupt_handler, Step, Session
  <2>2. Starting(19)
    BY <2>1, StartSteps, StartingWhere
  <2>3. Tables(19 + 1)'
    <3>1. UNCHANGED tables /\ Tables(19)
      BY <1>8, <2>2 DEF register_interrupt_handler, Starting
    <3>2. 19 \in {0, 2} \cup 17..21 /\ ~(19 < 17)
      OBVIOUS
    <3> QED
      BY <3>1, <3>2, TablesNext
  <2>4. UNCHANGED <<asked, snapshot, regs_update>>
    BY <1>8 DEF register_interrupt_handler, regs
  <2>5. 19 \in 0..21 /\ 19 # 20
    OBVIOUS
  <2> QED
    BY <2>1, <2>2, <2>3, <2>4, <2>5, StartingQuietly
<1>9. CASE install_timer
  <2>1. At("install_timer") /\ todo' = Tail(todo) /\ UNCHANGED <<login_active, prompts>>
    BY <1>9 DEF install_timer, Step, Session
  <2>2. Starting(18)
    BY <2>1, StartSteps, StartingWhere
  <2>3. Tables(18 + 1)'
    BY <1>9, <2>2, TablesNext DEF install_timer, Starting, machine
  <2> QED
    BY <2>1, <2>2, <2>3, StartingQuietly
<1>10. CASE kbd_discard_last_key
  <2>1. At("kbd_discard_last_key") /\ todo' = Tail(todo) /\ UNCHANGED <<login_active, prompts>>
    BY <1>10 DEF kbd_discard_last_key, Step, Session
  <2>2. Starting(21)
    BY <2>1, StartSteps, StartingWhere
  <2>3. Tables(21 + 1)'
    BY <1>10, <2>2, TablesNext DEF kbd_discard_last_key, Starting, machine
  <2>4. UNCHANGED <<asked, snapshot, regs_update>>
    BY <1>10 DEF kbd_discard_last_key, regs
  <2>5. 21 \in 0..21 /\ 21 # 20
    OBVIOUS
  <2> QED
    BY <2>1, <2>2, <2>3, <2>4, <2>5, StartingQuietly
<1>11. CASE outb
  <2>1. At("outb") /\ todo' = Tail(todo) /\ UNCHANGED <<login_active, prompts>>
    BY <1>11 DEF outb, Step, Session
  <2>2. PICK k \in 4..13 : Starting(k)
    BY <2>1, StartSteps, StartingWhere
  <2>3. Tables(k + 1)'
    BY <1>11, <2>2, WriteGiven DEF outb, Starting
  <2>4. UNCHANGED <<asked, snapshot, regs_update>>
    BY <1>11 DEF outb, regs
  <2>5. k \in 0..21 /\ k # 20
    OBVIOUS
  <2> QED
    BY <2>1, <2>2, <2>3, <2>4, <2>5, StartingQuietly
<1> QED
  BY <1>1, <1>2, <1>3, <1>4, <1>5, <1>6, <1>7, <1>8, <1>9, <1>10, <1>11 DEF set_idt_gate, register_interrupt_handler

(* A login, a refused login and a logout go on. *)
LEMMA LoggingInOn ==
  ASSUME NEW k \in 0..2, LoggingIn(k), NEW step, At(step), todo' = Tail(todo), login_active' = FALSE,
         prompts' = Shown(CommandPrompt, 3, k + 1), Tables(22)'
  PROVE  Program'
<1> k \in 0..3 /\ k + 1 \in 0..3
  OBVIOUS
<1>1. todo' = Left(LoginScript, k + 1)
  BY LoggingInWhere, Zenon
<1>2. login_active' = (k + 1 = 0)
  <2>1. (k + 1 = 0) = FALSE
    OBVIOUS
  <2> QED
    BY <2>1
<1>3. LoggingIn(k + 1)'
  BY <1>1, <1>2 DEF LoggingIn
<1> QED
  BY <1>3 DEF Program, InSession

\* A step of a refused login.
LEMMA RefusedOn ==
  ASSUME Refused(0), NEW step, At(step), todo' = Tail(todo), UNCHANGED login_active,
         prompts' = Shown(LoginPrompt, 1, 1), Tables(22)'
  PROVE  Program'
<1> 0 \in 0..1 /\ 1 \in 0..1 /\ 0 + 1 = 1
  OBVIOUS
<1>1. todo' = Left(RefusedScript, 1)
  BY RefusedWhere
<1>2. Refused(1)'
  BY <1>1 DEF Refused
<1> QED
  BY <1>2 DEF Program, InSession

\* A step of logout.
LEMMA LoggingOutOn ==
  ASSUME NEW k \in 0..11, LoggingOut(k), NEW step, At(step), todo' = Tail(todo),
         login_active' = (k + 1 >= 5), prompts' = Shown(LoginPrompt, 11, k + 1), Tables(22)'
  PROVE  Program'
<1> k \in 0..12 /\ k + 1 \in 0..12
  OBVIOUS
<1>1. todo' = Left(LogoutScript, k + 1)
  BY LoggingOutWhere, Zenon
<1>2. LoggingOut(k + 1)'
  BY <1>1 DEF LoggingOut
<1> QED
  BY <1>2 DEF Program, InSession

\* A step of another command.
LEMMA CommandedOn ==
  ASSUME Commanded, NEW step, At(step), step # "loop", todo' = Tail(todo), UNCHANGED login_active,
         prompts' = Shown(CommandPrompt, 0, 1 - Len(todo')), Tables(22)'
  PROVE  Program'
<1>1. /\ todo' \in Script /\ Len(todo') > 0
      /\ \A i \in 1..Len(todo') :
           /\ i = Len(todo') => todo'[i] = "loop"
           /\ i = Len(todo') - 1 => todo'[i] = "after"
           /\ i < Len(todo') - 1 => todo'[i] \in PlainSteps
  <2>1. CASE Len(todo) = 2 /\ Tail(todo) \in Script /\ Len(Tail(todo)) = 1 /\ Tail(todo)[1] = "loop"
    <3>1. Len(todo') = 1 /\ todo'[1] = "loop" /\ todo' \in Script
      BY <2>1
    <3>2. \A i \in 1..Len(todo') : i = 1
      <4>1. 1..Len(todo') = 1..1
        BY <3>1
      <4> QED
        BY <4>1
    <3>3. Len(todo') > 0 /\ \A i \in 1..Len(todo') : todo'[i] = "loop" /\ i = Len(todo')
      BY <3>1, <3>2
    <3>4. \A i \in 1..Len(todo') : i # Len(todo') - 1 /\ ~(i < Len(todo') - 1)
      BY <3>1, <3>2
    <3> QED
      BY <3>1, <3>3, <3>4
  <2>2. CASE /\ Len(todo) > 2 /\ Tail(todo) \in Script /\ Len(Tail(todo)) = Len(todo) - 1
             /\ \A i \in 1..Len(Tail(todo)) :
                  /\ i = Len(Tail(todo)) => Tail(todo)[i] = "loop"
                  /\ i = Len(Tail(todo)) - 1 => Tail(todo)[i] = "after"
                  /\ i < Len(Tail(todo)) - 1 => Tail(todo)[i] \in PlainSteps
    <3>1. Len(todo) \in Nat
      BY LenProperties DEF Commanded, Script
    <3>2. Len(todo') > 0
      BY <2>2, <3>1
    <3> QED
      BY <2>2, <3>2
  <2> QED
    BY <2>1, <2>2, CommandedWhere
<1>2. todo' # <<>>
  <2>1. Len(<<>>) = 0
    OBVIOUS
  <2>2. Len(todo') # 0
    BY <1>1
  <2> QED
    BY <2>1, <2>2
<1>3. Commanded'
  BY <1>1, <1>2 DEF Commanded
<1> QED
  BY <1>3 DEF Program, InSession

(* A step that neither prompts nor touches the login goes on with the script it is in. *)
LEMMA QuietStep ==
  ASSUME Program, NEW step \in PlainSteps \cup {"wait", "until"}, At(step), todo' = Tail(todo),
         UNCHANGED <<login_active, prompts, tables>>,
         step = "disable" => ~enabled' /\ UNCHANGED <<cpu, asked, snapshot, regs_update>>
  PROVE  Program'
<1>1. ASSUME NEW k \in 0..22, Starting(k) PROVE Program'
  <2>1. step = "disable"
    BY <1>1, StartingWhere DEF PlainSteps
  <2>2. Starting(2)
    BY <1>1, <2>1, StartingWhere
  <2>3. Tables(2 + 1)'
    <3>1. UNCHANGED tables /\ Tables(2)
      BY <2>2 DEF Starting
    <3>2. 2 \in {0, 2} \cup 17..21
      OBVIOUS
    <3>3. (enabled' => enabled) /\ UNCHANGED cpu
      BY <2>1
    <3> QED
      BY <3>1, <3>2, <3>3, TablesNext
  <2>4. 2 \in 0..21 /\ 2 # 20
    OBVIOUS
  <2> QED
    BY <2>1, <2>2, <2>3, <2>4, StartingQuietly
<1>2. ASSUME InSession PROVE Tables(22)'
  BY <1>2, TablesKept DEF InSession
<1>3. ASSUME InSession, NEW k \in 0..3, LoggingIn(k) PROVE Program'
  <2>1. k = 1
    <3>1. step \notin {"logged_in", "prompt", "loop"}
      BY DEF PlainSteps
    <3> QED
      BY <1>3, <3>1, LoggingInWhere
  <2>2. Shown(CommandPrompt, 3, 1) = Shown(CommandPrompt, 3, 1 + 1)
    BY DEF Shown
  <2>3. LoggingIn(1)
    BY <1>3, <2>1
  <2>4. login_active = FALSE /\ prompts = Shown(CommandPrompt, 3, 1)
    <3>1. (1 = 0) = FALSE
      OBVIOUS
    <3>2. login_active = (1 = 0)
      BY <2>3 DEF LoggingIn
    <3>3. prompts = Shown(CommandPrompt, 3, 1)
      BY <2>3 DEF LoggingIn
    <3> QED
      BY <3>1, <3>2, <3>3
  <2>5. login_active' = FALSE /\ prompts' = Shown(CommandPrompt, 3, 1 + 1)
    BY <2>2, <2>4
  <2>6. 1 \in 0..2
    OBVIOUS
  <2> QED
    BY <1>2, <1>3, <2>3, <2>5, <2>6, LoggingInOn
<1>4. ASSUME InSession, NEW k \in 0..1, Refused(k) PROVE Program'
  <2>1. step \notin {"login_prompt", "loop"}
    BY DEF PlainSteps
  <2> QED
    BY <1>4, <2>1, RefusedWhere
<1>5. ASSUME InSession, NEW k \in 0..12, LoggingOut(k) PROVE Program'
  <2>0. step = LogoutScript[k + 1]
    BY <1>5, LoggingOutWhere
  <2>1. step \notin {"logged_out", "login_prompt", "after", "loop"}
    BY DEF PlainSteps
  <2>2. k \in 0..11 /\ k # 4 /\ k # 10 /\ k # 11
    <3>1. k # 4
      <4>1. step # LogoutScript[5]
        BY <2>1, LogoutSteps
      <4> QED
        BY <2>0, <4>1
    <3>2. k # 10
      <4>1. step # LogoutScript[11]
        BY <2>1, LogoutSteps
      <4> QED
        BY <2>0, <4>1
    <3>3. k # 11
      <4>1. step # LogoutScript[12]
        BY <2>1, LogoutSteps
      <4> QED
        BY <2>0, <4>1
    <3>4. k # 12
      <4>1. step # LogoutScript[13]
        BY <2>1, LogoutSteps
      <4> QED
        BY <2>0, <4>1
    <3> QED
      BY <3>1, <3>2, <3>3, <3>4
  <2>3. Shown(LoginPrompt, 11, k) = Shown(LoginPrompt, 11, k + 1) /\ (k >= 5) = (k + 1 >= 5)
    BY <2>2 DEF Shown
  <2>4. login_active' = (k + 1 >= 5) /\ prompts' = Shown(LoginPrompt, 11, k + 1)
    BY <1>5, <2>3 DEF LoggingOut
  <2> QED
    BY <1>2, <1>5, <2>2, <2>4, LoggingOutOn
<1>6. ASSUME InSession, Commanded PROVE Program'
  <2>1. step \notin {"after", "loop"}
    BY DEF PlainSteps
  <2>2. Len(todo) > 2 /\ Len(Tail(todo)) = Len(todo) - 1
    BY <1>6, <2>1, CommandedWhere
  <2>3. Len(todo) \in Nat
    BY <1>6, LenProperties DEF Commanded, Script
  <2>4. 1 - Len(todo) < 0 /\ 1 - Len(todo') < 0
    BY <2>2, <2>3
  <2>5. prompts' = Shown(CommandPrompt, 0, 1 - Len(todo'))
    BY <1>6, <2>4 DEF Commanded, Shown
  <2>6. step # "loop"
    BY <2>1
  <2> QED
    BY <1>2, <1>6, <2>5, <2>6, CommandedOn
<1> QED
  BY <1>1, <1>3, <1>4, <1>5, <1>6 DEF Program, InSession

(* The steps that prompt or write the login flag. *)
LEMMA NotAtStart ==
  ASSUME Program, NEW step, At(step), step \in {"logged_in", "prompt", "login_prompt", "logged_out", "after"}
  PROVE  InSession
  BY StartingWhere DEF Program

\* The welcome asks for the login.
LEMMA Welcomed ==
  ASSUME Program, Step("welcome"), prompts' = prompts \cup {LoginPrompt},
         UNCHANGED <<login_active, asked, snapshot, regs_update, tables>>
  PROVE  Program'
<1>1. At("welcome") /\ todo' = Tail(todo)
  BY DEF Step
<1>2. Starting(20)
  BY <1>1, StartSteps, StartingWhere
<1>3. Tables(20 + 1)'
  <2>1. UNCHANGED tables /\ Tables(20)
    BY <1>2 DEF Starting
  <2>2. 20 \in {0, 2} \cup 17..21 /\ ~(20 < 17)
    OBVIOUS
  <2> QED
    BY <2>1, <2>2, TablesNext
<1>4. prompts' = Shown(LoginPrompt, 21, 20 + 1)
  BY <1>2 DEF Starting, Shown
<1>5. 20 \in 0..21 /\ ~(20 + 1 < 19)
  OBVIOUS
<1> QED
  BY <1>1, <1>2, <1>3, <1>4, <1>5, StartingOn

\* A login clears the flag before it prompts.
LEMMA LoggedIn ==
  ASSUME Program, Step("logged_in"), login_active' = FALSE, UNCHANGED <<prompts, tables>>
  PROVE  Program'
<1>1. At("logged_in") /\ todo' = Tail(todo)
  BY DEF Step
<1>2. InSession
  BY <1>1, NotAtStart
<1>3. Tables(22)'
  BY <1>2, TablesKept DEF InSession
<1>4. LoggingIn(0)
  <2>1. ASSUME NEW k \in 0..3, LoggingIn(k) PROVE k = 0
    BY <1>1, <2>1, LoggingInWhere
  <2>2. ASSUME NEW k \in 0..1, Refused(k) PROVE FALSE
    BY <1>1, <2>2, RefusedWhere
  <2>3. ASSUME NEW k \in 0..12, LoggingOut(k) PROVE FALSE
    <3>1. "logged_in" \in {"print", "wait", "until", "logged_out", "login_prompt", "after", "loop"}
      BY <1>1, <2>3, LogoutSays
    <3> QED
      BY <3>1
  <2>4. ~Commanded
    BY <1>1, CommandedWhere DEF PlainSteps
  <2> QED
    BY <1>2, <2>1, <2>2, <2>3, <2>4 DEF InSession
<1>5. prompts' = Shown(CommandPrompt, 3, 0 + 1)
  BY <1>4 DEF LoggingIn, Shown
<1>6. 0 \in 0..2
  OBVIOUS
<1> QED
  BY <1>1, <1>3, <1>4, <1>5, <1>6, LoggingInOn

\* Then it prompts for a command.
LEMMA Prompted ==
  ASSUME Program, Step("prompt"), prompts' = prompts \cup {CommandPrompt}, UNCHANGED <<login_active, tables>>
  PROVE  Program'
<1>1. At("prompt") /\ todo' = Tail(todo)
  BY DEF Step
<1>2. InSession
  BY <1>1, NotAtStart
<1>3. Tables(22)'
  BY <1>2, TablesKept DEF InSession
<1>4. LoggingIn(2)
  <2>1. ASSUME NEW k \in 0..3, LoggingIn(k) PROVE k = 2
    BY <1>1, <2>1, LoggingInWhere
  <2>2. ASSUME NEW k \in 0..1, Refused(k) PROVE FALSE
    BY <1>1, <2>2, RefusedWhere
  <2>3. ASSUME NEW k \in 0..12, LoggingOut(k) PROVE FALSE
    <3>1. "prompt" \in {"print", "wait", "until", "logged_out", "login_prompt", "after", "loop"}
      BY <1>1, <2>3, LogoutSays
    <3> QED
      BY <3>1
  <2>4. ~Commanded
    BY <1>1, CommandedWhere DEF PlainSteps
  <2> QED
    BY <1>2, <2>1, <2>2, <2>3, <2>4 DEF InSession
<1>5. prompts' = Shown(CommandPrompt, 3, 2 + 1)
  BY <1>4 DEF LoggingIn, Shown
<1>6. login_active' = FALSE
  <2>1. (2 = 0) = FALSE
    OBVIOUS
  <2> QED
    BY <1>4, <2>1 DEF LoggingIn
<1>7. 2 \in 0..2
  OBVIOUS
<1> QED
  BY <1>1, <1>3, <1>4, <1>5, <1>6, <1>7, LoggingInOn

\* logout sets the flag before it prompts.
LEMMA LoggedOut ==
  ASSUME Program, Step("logged_out"), login_active' = TRUE, UNCHANGED <<prompts, tables>>
  PROVE  Program'
<1>1. At("logged_out") /\ todo' = Tail(todo)
  BY DEF Step
<1>2. InSession
  BY <1>1, NotAtStart
<1>3. Tables(22)'
  BY <1>2, TablesKept DEF InSession
<1>4. LoggingOut(4)
  <2>1. ASSUME NEW k \in 0..3, LoggingIn(k) PROVE FALSE
    BY <1>1, <2>1, LoggingInWhere
  <2>2. ASSUME NEW k \in 0..1, Refused(k) PROVE FALSE
    BY <1>1, <2>2, RefusedWhere
  <2>3. ASSUME NEW k \in 0..12, LoggingOut(k) PROVE k = 4
    BY <1>1, <2>3, LoggingOutWhere
  <2>4. ~Commanded
    BY <1>1, CommandedWhere DEF PlainSteps
  <2> QED
    BY <1>2, <2>1, <2>2, <2>3, <2>4 DEF InSession
<1>5. prompts' = Shown(LoginPrompt, 11, 4 + 1)
  BY <1>4 DEF LoggingOut, Shown
<1>6. login_active' = (4 + 1 >= 5)
  <2>1. (4 + 1 >= 5) = TRUE
    OBVIOUS
  <2> QED
    BY <2>1
<1>7. 4 \in 0..11
  OBVIOUS
<1> QED
  BY <1>1, <1>3, <1>4, <1>5, <1>6, <1>7, LoggingOutOn

\* logout and a refused login ask for the login.
LEMMA AskedToLogIn ==
  ASSUME Program, Step("login_prompt"), prompts' = prompts \cup {LoginPrompt},
         UNCHANGED <<login_active, tables>>
  PROVE  Program'
<1>1. At("login_prompt") /\ todo' = Tail(todo)
  BY DEF Step
<1>2. InSession
  BY <1>1, NotAtStart
<1>3. Tables(22)'
  BY <1>2, TablesKept DEF InSession
<1>4. Refused(0) \/ LoggingOut(10)
  <2>1. ASSUME NEW k \in 0..3, LoggingIn(k) PROVE FALSE
    BY <1>1, <2>1, LoggingInWhere
  <2>2. ASSUME NEW k \in 0..1, Refused(k) PROVE k = 0
    BY <1>1, <2>2, RefusedWhere
  <2>3. ASSUME NEW k \in 0..12, LoggingOut(k) PROVE k = 10
    BY <1>1, <2>3, LoggingOutWhere
  <2>4. ~Commanded
    BY <1>1, CommandedWhere DEF PlainSteps
  <2> QED
    BY <1>2, <2>1, <2>2, <2>3, <2>4 DEF InSession
<1>5. CASE Refused(0)
  <2>1. prompts' = Shown(LoginPrompt, 1, 1)
    BY <1>5 DEF Refused, Shown
  <2> QED
    BY <1>1, <1>3, <1>5, <2>1, RefusedOn
<1>6. CASE LoggingOut(10)
  <2>1. prompts' = Shown(LoginPrompt, 11, 10 + 1)
    BY <1>6 DEF LoggingOut, Shown
  <2>2. login_active' = (10 + 1 >= 5)
    <3>1. (10 + 1 >= 5) = TRUE /\ (10 >= 5) = TRUE
      OBVIOUS
    <3> QED
      BY <1>6, <3>1 DEF LoggingOut
  <2>3. 10 \in 0..11
    OBVIOUS
  <2> QED
    BY <1>1, <1>3, <1>6, <2>1, <2>2, <2>3, LoggingOutOn
<1> QED
  BY <1>4, <1>5, <1>6

(* After a command: the prompt, unless it was logout. *)
LEMMA CommandEnds ==
  ASSUME Program, Step("after"), AfterCommand, UNCHANGED <<login_active, tables>>
  PROVE  Program'
<1>1. At("after") /\ todo' = Tail(todo)
  BY DEF Step
<1>2. InSession
  BY <1>1, NotAtStart
<1>3. Tables(22)'
  BY <1>2, TablesKept DEF InSession
<1>4. LoggingOut(11) \/ Commanded
  <2>1. ASSUME NEW k \in 0..3, LoggingIn(k) PROVE FALSE
    BY <1>1, <2>1, LoggingInWhere
  <2>2. ASSUME NEW k \in 0..1, Refused(k) PROVE FALSE
    BY <1>1, <2>2, RefusedWhere
  <2>3. ASSUME NEW k \in 0..12, LoggingOut(k) PROVE k = 11
    BY <1>1, <2>3, LoggingOutWhere
  <2> QED
    BY <1>2, <2>1, <2>2, <2>3 DEF InSession
<1>5. CASE LoggingOut(11)
  <2>1. (11 >= 5) = TRUE /\ (11 + 1 >= 5) = TRUE
    OBVIOUS
  <2>2. login_active = TRUE /\ prompts = Shown(LoginPrompt, 11, 11)
    BY <1>5, <2>1 DEF LoggingOut
  <2>3. login_active' = (11 + 1 >= 5)
    BY <2>1, <2>2
  <2>4. prompts' = prompts
    BY <2>2 DEF AfterCommand
  <2>5. prompts' = Shown(LoginPrompt, 11, 11 + 1)
    BY <2>2, <2>4 DEF Shown
  <2>6. 11 \in 0..11
    OBVIOUS
  <2> QED
    BY <1>1, <1>3, <1>5, <2>3, <2>5, <2>6, LoggingOutOn
<1>6. CASE Commanded
  <2>1. "after" \notin PlainSteps /\ "after" # "loop"
    BY DEF PlainSteps
  <2>2. Len(todo) = 2 /\ Len(todo') = 1
    BY <1>1, <1>6, <2>1, CommandedWhere
  <2>3. prompts = {} /\ login_active = FALSE
    BY <1>6, <2>2 DEF Commanded, Shown
  <2>4. prompts' = {CommandPrompt}
    BY <2>3 DEF AfterCommand, Prompt
  <2>5. prompts' = Shown(CommandPrompt, 0, 1 - Len(todo'))
    BY <2>2, <2>4 DEF Shown
  <2> QED
    BY <1>1, <1>3, <1>6, <2>1, <2>5, CommandedOn
<1> QED
  BY <1>4, <1>5, <1>6

(* What a command other than logout does: plain steps, registers loaded only after a request. *)
PlainScripts == {s \in Seq(PlainSteps) : ~Loading(s)}

\* Plain scripts put together are plain.
LEMMA PlainConcat ==
  ASSUME NEW s \in PlainScripts, NEW t \in PlainScripts
  PROVE  s \o t \in PlainScripts
<1>1. s \in Seq(PlainSteps) /\ t \in Seq(PlainSteps) /\ ~Loading(s) /\ ~Loading(t)
  BY DEF PlainScripts
<1>2. s \o t \in Seq(PlainSteps)
  BY <1>1, ConcatProperties
<1>3. Len(s \o t) = Len(s) + Len(t) /\ Len(s) \in Nat /\ Len(t) \in Nat
  BY <1>1, ConcatProperties, LenProperties
<1>4. \A i \in 1..Len(s) : (s \o t)[i] = s[i]
  BY <1>1, ConcatProperties
<1>5. \A i \in 1..Len(t) : (s \o t)[Len(s) + i] = t[i]
  BY <1>1, ConcatProperties
<1> DEFINE u == s \o t
<1> HIDE DEF u
<1>6. ASSUME NEW i \in 1..Len(u), BareLoad(u, i) PROVE FALSE
  <2>1. u[i] = "load" /\ \A j \in 1..i-1 : u[j] # "get_current_regs"
    BY <1>6 DEF BareLoad
  <2>2. CASE i <= Len(s)
    <3>1. i \in 1..Len(s) /\ \A j \in 1..i-1 : j \in 1..Len(s)
      BY <1>3, <2>2
    <3>2. s[i] = "load" /\ \A j \in 1..i-1 : s[j] # "get_current_regs"
      BY <1>4, <2>1, <3>1 DEF u
    <3> QED
      BY <1>1, <3>1, <3>2 DEF Loading, BareLoad
  <2>3. CASE i > Len(s)
    <3>1. PICK k \in 1..Len(t) : i = Len(s) + k
      <4>1. i - Len(s) \in 1..Len(t) /\ i = Len(s) + (i - Len(s))
        BY <1>3, <2>3 DEF u
      <4> QED
        BY <4>1
    <3>2. t[k] = "load"
      BY <1>5, <2>1, <3>1 DEF u
    <3>3. ASSUME NEW j \in 1..k-1 PROVE t[j] # "get_current_regs"
      <4>1. j \in 1..Len(t) /\ Len(s) + j \in 1..i-1
        BY <1>3, <3>1
      <4> QED
        BY <1>5, <2>1, <4>1 DEF u
    <3> QED
      BY <1>1, <3>2, <3>3 DEF Loading, BareLoad
  <2> QED
    BY <1>3, <2>2, <2>3 DEF u
<1> QED
  BY <1>2, <1>6 DEF PlainScripts, Loading, u

\* A command that only prints is plain.
LEMMA PrintsPlain == Prints \in PlainScripts
<1>1. "print" \in PlainSteps
  BY DEF PlainSteps
<1>2. ASSUME NEW a \in PlainSteps PROVE <<a>> \in Seq(PlainSteps) /\ Len(<<a>>) = 1 /\ <<a>>[1] = a
  OBVIOUS
<1>3. Prints \in Seq(PlainSteps)
  BY <1>1, <1>2 DEF Prints
<1>4. \A i \in 1..Len(Prints) : Prints[i] = "print"
  BY DEF Prints
<1> QED
  BY <1>3, <1>4 DEF PlainScripts, Loading, BareLoad

\* So are exit, serial_com_test and trowexception.
LEMMA ShortPlain ==
  /\ cmd_exit \in PlainScripts /\ cmd_serial_com_test \in PlainScripts
  /\ cmd_trowexception \in PlainScripts
<1>1. /\ "print" \in PlainSteps /\ "disable" \in PlainSteps /\ "halt" \in PlainSteps
      /\ "serialcom_write" \in PlainSteps /\ "fault" \in PlainSteps
  BY DEF PlainSteps
<1>2. ASSUME NEW a \in PlainSteps, NEW b \in PlainSteps, NEW c \in PlainSteps
      PROVE  <<a>> \in Seq(PlainSteps) /\ <<a, b>> \in Seq(PlainSteps) /\ <<a, b, c>> \in Seq(PlainSteps)
  OBVIOUS
<1>3. /\ cmd_exit \in Seq(PlainSteps) /\ cmd_serial_com_test \in Seq(PlainSteps)
      /\ cmd_trowexception \in Seq(PlainSteps)
  BY <1>1, <1>2 DEF cmd_exit, cmd_serial_com_test, cmd_trowexception
<1>4. \A i \in 1..Len(cmd_exit) : cmd_exit[i] # "load"
  BY DEF cmd_exit
<1>5. \A i \in 1..Len(cmd_serial_com_test) : cmd_serial_com_test[i] # "load"
  BY DEF cmd_serial_com_test
<1>6. \A i \in 1..Len(cmd_trowexception) : cmd_trowexception[i] # "load"
  BY DEF cmd_trowexception
<1> QED
  BY <1>3, <1>4, <1>5, <1>6 DEF PlainScripts, Loading, BareLoad

(* "regs" asks before it loads. *)
LEMMA RegsPlain == cmd_regs \in PlainScripts
<1> DEFINE ask == <<"get_current_regs", "print">>
           loads == [f \in 1..Fields |-> "load"]
           s == ask \o loads
<1>1. "print" \in PlainSteps /\ "get_current_regs" \in PlainSteps /\ "load" \in PlainSteps
  BY DEF PlainSteps
<1>2. ASSUME NEW a \in PlainSteps, NEW b \in PlainSteps
      PROVE  <<a, b>> \in Seq(PlainSteps) /\ Len(<<a, b>>) = 2 /\ <<a, b>>[1] = a
  OBVIOUS
<1>3. ask \in Seq(PlainSteps) /\ Len(ask) = 2 /\ ask[1] = "get_current_regs"
  BY <1>1, <1>2
<1>4. loads \in Seq(PlainSteps)
  <2>1. ASSUME NEW a \in PlainSteps, NEW n \in Nat PROVE [f \in 1..n |-> a] \in Seq(PlainSteps)
    OBVIOUS
  <2> QED
    BY <1>1, <2>1, KernelAssumption
<1> HIDE DEF ask, loads
<1>5. s \in Seq(PlainSteps) /\ Len(s) >= 2
  <2>1. s \in Seq(PlainSteps) /\ Len(s) = Len(ask) + Len(loads)
    BY <1>3, <1>4, ConcatProperties
  <2>2. Len(loads) \in Nat
    BY <1>4, LenProperties
  <2> QED
    BY <1>3, <2>1, <2>2
<1>6. s[1] = "get_current_regs"
  <2>1. 1 \in 1..Len(ask)
    BY <1>3
  <2>2. s[1] = ask[1]
    BY <1>3, <1>4, <2>1, ConcatProperties
  <2> QED
    BY <1>3, <2>2
<1> HIDE DEF s
<1>7. s \in PlainScripts
  <2>1. ASSUME NEW i \in 1..Len(s), BareLoad(s, i) PROVE FALSE
    <3>1. s[i] = "load" /\ \A j \in 1..i-1 : s[j] # "get_current_regs"
      BY <2>1 DEF BareLoad
    <3>2. i # 1
      BY <1>6, <3>1
    <3>3. 1 \in 1..i-1
      BY <3>2
    <3> QED
      BY <1>6, <3>1, <3>3
  <2> QED
    BY <1>5, <2>1 DEF PlainScripts, Loading
<1>8. cmd_regs = s \o Prints
  BY DEF cmd_regs, s, ask, loads, Prints
<1> QED
  BY <1>7, <1>8, PrintsPlain, PlainConcat

\* memtest runs memusage eight times.
LEMMA MemtestPlain == cmd_memtest \in PlainScripts
<1>1. func(commands[memusageOffset + 1]) = Prints
  <2>1. commands[memusageOffset + 1] = "memusage"
    BY DEF commands, memusageOffset
  <2> QED
    BY <2>1 DEF func
<1>2. cmd_memtest = Prints \o Prints \o Prints \o Prints \o Prints \o Prints \o Prints \o Prints
  BY <1>1 DEF cmd_memtest
<1> QED
  BY <1>2, PrintsPlain, PlainConcat

\* Every line but logout runs a plain script.
LEMMA CommandsPlain ==
  ASSUME NEW l, process_command(l) # cmd_logout
  PROVE  process_command(l) \in PlainScripts
<1>1. ASSUME func(l) # cmd_logout PROVE func(l) \in PlainScripts
  BY <1>1, PrintsPlain, ShortPlain, RegsPlain DEF func
<1> QED
  BY <1>1, PrintsPlain, MemtestPlain DEF process_command
(* The script of a line, and where kernel_main has got to before it runs one. *)
LEMMA Whole ==
  ASSUME NEW script \in Script
  PROVE  Left(script, 0) = script
<1>1. script = [i \in 1..Len(script) |-> script[i]] /\ Len(script) \in Nat
  BY SeqDef, LenProperties DEF Script
<1>2. Len(script) - 0 = Len(script) /\ \A i \in 1..Len(script) : i + 0 = i
  BY <1>1
<1> QED
  BY <1>1, <1>2 DEF Left

\* A tuple of one.
LEMMA Single ==
  ASSUME NEW S, NEW a \in S
  PROVE  <<a>> \in Seq(S) /\ Len(<<a>>) = 1 /\ <<a>>[1] = a
OBVIOUS

\* s is how a script begins.
Begins(s, script) ==
  s \in Seq(Steps) /\ Len(s) <= Len(script) /\ \A i \in 1..Len(s) : s[i] = script[i]

\* A beginning and the next step, or the next two, make a longer beginning.
LEMMA OneMore ==
  ASSUME NEW s, NEW script \in Seq(Steps), Begins(s, script), Len(s) + 1 <= Len(script),
         NEW a \in Steps, script[Len(s) + 1] = a
  PROVE  Begins(s \o <<a>>, script) /\ Len(s \o <<a>>) = Len(s) + 1
<1> DEFINE t == <<a>>
<1>1. t \in Seq(Steps) /\ Len(t) = 1 /\ t[1] = a
  OBVIOUS
<1>2. s \in Seq(Steps) /\ Len(s) \in Nat /\ \A i \in 1..Len(s) : s[i] = script[i]
  BY LenProperties DEF Begins
<1> HIDE DEF t
<1>0. s \in Seq(Steps) /\ t \in Seq(Steps)
  BY <1>1, <1>2
<1>3. s \o t \in Seq(Steps) /\ Len(s \o t) = Len(s) + 1
  <2>1. s \o t \in Seq(Steps) /\ Len(s \o t) = Len(s) + Len(t)
    BY <1>0, ConcatProperties
  <2>2. Len(t) = 1
    BY <1>1
  <2> QED
    BY <2>1, <2>2
<1>4. ASSUME NEW i \in 1..Len(s) + 1 PROVE (s \o t)[i] = script[i]
  <2>1. (s \o t)[i] = IF i <= Len(s) THEN s[i] ELSE t[i - Len(s)]
    <3>1. t \in Seq(Steps) /\ s \in Seq(Steps)
      BY <1>1, <1>2
    <3>2. \A j \in 1..Len(s) + Len(t) : (s \o t)[j] = IF j <= Len(s) THEN s[j] ELSE t[j - Len(s)]
      BY <3>1, ConcatProperties
    <3>3. i \in 1..Len(s) + Len(t)
      BY <1>1
    <3> QED
      BY <3>2, <3>3
  <2>2. CASE i <= Len(s)
    <3>1. i \in 1..Len(s)
      BY <1>2, <2>2
    <3> QED
      BY <1>2, <2>1, <2>2, <3>1
  <2>3. CASE ~(i <= Len(s))
    <3>1. i = Len(s) + 1
      BY <1>2, <2>3
    <3>2. Len(s) + 1 - Len(s) = 1
      BY <1>2
    <3> QED
      BY <1>1, <2>1, <2>3, <3>1, <3>2
  <2> QED
    BY <2>2, <2>3
<1>5. Begins(s \o t, script)
  BY <1>3, <1>4 DEF Begins
<1> QED
  BY <1>3, <1>5 DEF t

\* Two more steps make a longer beginning too.
LEMMA TwoMore ==
  ASSUME NEW s, NEW script \in Seq(Steps), Begins(s, script), Len(s) + 2 <= Len(script),
         NEW a \in Steps, NEW b \in Steps, script[Len(s) + 1] = a, script[Len(s) + 2] = b
  PROVE  Begins(s \o <<a, b>>, script) /\ Len(s \o <<a, b>>) = Len(s) + 2
<1> DEFINE t == <<a, b>>
<1>1. t \in Seq(Steps) /\ Len(t) = 2 /\ t[1] = a /\ t[2] = b
  OBVIOUS
<1>2. s \in Seq(Steps) /\ Len(s) \in Nat /\ \A i \in 1..Len(s) : s[i] = script[i]
  BY LenProperties DEF Begins
<1> HIDE DEF t
<1>0. s \in Seq(Steps) /\ t \in Seq(Steps)
  BY <1>1, <1>2
<1>3. s \o t \in Seq(Steps) /\ Len(s \o t) = Len(s) + 2
  <2>1. s \o t \in Seq(Steps) /\ Len(s \o t) = Len(s) + Len(t)
    BY <1>0, ConcatProperties
  <2>2. Len(t) = 2
    BY <1>1
  <2> QED
    BY <2>1, <2>2
<1>4. ASSUME NEW i \in 1..Len(s) + 2 PROVE (s \o t)[i] = script[i]
  <2>1. (s \o t)[i] = IF i <= Len(s) THEN s[i] ELSE t[i - Len(s)]
    <3>1. t \in Seq(Steps) /\ s \in Seq(Steps)
      BY <1>1, <1>2
    <3>2. \A j \in 1..Len(s) + Len(t) : (s \o t)[j] = IF j <= Len(s) THEN s[j] ELSE t[j - Len(s)]
      BY <3>1, ConcatProperties
    <3>3. i \in 1..Len(s) + Len(t)
      BY <1>1
    <3> QED
      BY <3>2, <3>3
  <2>2. CASE i <= Len(s)
    <3>1. i \in 1..Len(s)
      BY <1>2, <2>2
    <3> QED
      BY <1>2, <2>1, <2>2, <3>1
  <2>3. CASE ~(i <= Len(s))
    <3>1. i = Len(s) + 1 \/ i = Len(s) + 2
      BY <1>2, <2>3
    <3>2. Len(s) + 1 - Len(s) = 1 /\ Len(s) + 2 - Len(s) = 2
      BY <1>2
    <3> QED
      BY <1>1, <2>1, <2>3, <3>1, <3>2
  <2> QED
    BY <2>2, <2>3
<1>5. Begins(s \o t, script)
  BY <1>3, <1>4 DEF Begins
<1> QED
  BY <1>3, <1>5 DEF t

\* A beginning as long as the script is the script.
LEMMA AllOfIt ==
  ASSUME NEW s, NEW script \in Seq(Steps), Begins(s, script), Len(s) = Len(script)
  PROVE  s = script
BY SeqEqual DEF Begins

\* The scripts of the session are sequences of steps.
LEMMA AreSeqs ==
  LoginScript \in Seq(Steps) /\ RefusedScript \in Seq(Steps) /\ LogoutScript \in Seq(Steps)
BY LoginIsScript, RefusedIsScript, LogoutIsScript DEF Script

\* A login that is accepted, and one that is not.
LEMMA LoginRuns ==
  ASSUME NEW l
  PROVE  Login(l) \o <<"loop">> \in {LoginScript, RefusedScript}
<1> DEFINE accepted == <<"logged_in", "print", "prompt">>
           refused == <<"login_prompt">>
<1>1. Begins(accepted, LoginScript) /\ Len(accepted) = 3
  <2>1. accepted \in Seq(Steps) /\ Len(accepted) = 3 /\ accepted[1] = "logged_in" /\ accepted[2] = "print"
        /\ accepted[3] = "prompt"
    BY AreSteps, Three DEF Script
  <2> HIDE DEF accepted
  <2>2. \A i \in 1..3 : accepted[i] = LoginScript[i]
    BY <2>1, LoginSteps
  <2> QED
    BY <2>1, <2>2, LoginIsScript DEF Begins
<1>2. Begins(refused, RefusedScript) /\ Len(refused) = 1
  <2>1. refused \in Seq(Steps) /\ Len(refused) = 1 /\ refused[1] = "login_prompt"
    BY AreSteps, Single
  <2> HIDE DEF refused
  <2>2. \A i \in 1..1 : refused[i] = RefusedScript[i]
    BY <2>1, RefusedSteps
  <2> QED
    BY <2>1, <2>2, RefusedIsScript DEF Begins
<1> HIDE DEF accepted, refused
<1>3. Begins(accepted \o <<"loop">>, LoginScript) /\ Len(accepted \o <<"loop">>) = 4
  <2>1. Len(accepted) + 1 <= Len(LoginScript) /\ LoginScript[Len(accepted) + 1] = "loop"
    BY <1>1, LoginSteps, LoginIsScript
  <2>2. LoginScript \in Seq(Steps) /\ "loop" \in Steps
    BY AreSeqs, AreSteps
  <2>3. Begins(accepted \o <<"loop">>, LoginScript) /\ Len(accepted \o <<"loop">>) = Len(accepted) + 1
    BY <1>1, <2>1, <2>2, OneMore, Zenon
  <2> QED
    BY <1>1, <2>3
<1>4. Begins(refused \o <<"loop">>, RefusedScript) /\ Len(refused \o <<"loop">>) = 2
  <2>1. Len(refused) + 1 <= Len(RefusedScript) /\ RefusedScript[Len(refused) + 1] = "loop"
    BY <1>2, RefusedSteps, RefusedIsScript
  <2>2. RefusedScript \in Seq(Steps) /\ "loop" \in Steps
    BY AreSeqs, AreSteps
  <2>3. Begins(refused \o <<"loop">>, RefusedScript) /\ Len(refused \o <<"loop">>) = Len(refused) + 1
    BY <1>2, <2>1, <2>2, OneMore, Zenon
  <2> QED
    BY <1>2, <2>3
<1>5. accepted \o <<"loop">> = LoginScript
  BY <1>3, AllOfIt, AreSeqs, LoginIsScript
<1>6. refused \o <<"loop">> = RefusedScript
  BY <1>4, AllOfIt, AreSeqs, RefusedIsScript
<1>7. Login(l) = accepted \/ Login(l) = refused
  BY DEF Login, accepted, refused
<1> QED
  BY <1>5, <1>6, <1>7

\* The steps of logout, with those process_command and kernel_main add.
LEMMA LogoutRuns == (cmd_logout \o <<"after">>) \o <<"loop">> = LogoutScript
<1> DEFINE S1 == <<"print">>
           S3 == S1 \o Asleep
           S5 == S3 \o <<"print", "logged_out">>
           S7 == S5 \o Asleep
           S9 == S7 \o Asleep
           S11 == S9 \o <<"print", "login_prompt">>
           S12 == S11 \o <<"after">>
           S13 == S12 \o <<"loop">>
<1>1. Begins(S1, LogoutScript) /\ Len(S1) = 1
  <2>1. S1 \in Seq(Steps) /\ Len(S1) = 1 /\ S1[1] = "print"
    BY AreSteps, Single
  <2> HIDE DEF S1
  <2>2. \A i \in 1..1 : S1[i] = LogoutScript[i]
    BY <2>1, LogoutSteps
  <2> QED
    BY <2>1, <2>2, LogoutIsScript DEF Begins
<1>2. cmd_logout = S11 /\ (cmd_logout \o <<"after">>) \o <<"loop">> = S13
  BY DEF cmd_logout
<1> HIDE DEF S1
<1>3. Begins(S3, LogoutScript) /\ Len(S3) = 3
  <2>1. Len(S1) + 2 <= Len(LogoutScript) /\ LogoutScript[Len(S1) + 1] = "wait" /\ LogoutScript[Len(S1) + 2] = "until"
    BY <1>1, LogoutSteps, LogoutIsScript
  <2>4. LogoutScript \in Seq(Steps) /\ "wait" \in Steps /\ "until" \in Steps
    BY AreSeqs, AreSteps
  <2>2. S3 = S1 \o <<"wait", "until">>
    BY DEF Asleep
  <2> HIDE DEF S3
  <2>3. Begins(S1 \o <<"wait", "until">>, LogoutScript) /\ Len(S1 \o <<"wait", "until">>) = Len(S1) + 2
    BY <1>1, <2>1, <2>4, TwoMore, Zenon
  <2> QED
    BY <1>1, <2>2, <2>3
<1> HIDE DEF S3
<1>4. Begins(S5, LogoutScript) /\ Len(S5) = 5
  <2>1. Len(S3) + 2 <= Len(LogoutScript) /\ LogoutScript[Len(S3) + 1] = "print" /\ LogoutScript[Len(S3) + 2] = "logged_out"
    BY <1>3, LogoutSteps, LogoutIsScript
  <2>4. LogoutScript \in Seq(Steps) /\ "print" \in Steps /\ "logged_out" \in Steps
    BY AreSeqs, AreSteps
  <2>2. S5 = S3 \o <<"print", "logged_out">>
    BY DEF S5
  <2> HIDE DEF S5
  <2>3. Begins(S3 \o <<"print", "logged_out">>, LogoutScript) /\ Len(S3 \o <<"print", "logged_out">>) = Len(S3) + 2
    BY <1>3, <2>1, <2>4, TwoMore, Zenon
  <2> QED
    BY <1>3, <2>2, <2>3
<1> HIDE DEF S5
<1>5. Begins(S7, LogoutScript) /\ Len(S7) = 7
  <2>1. Len(S5) + 2 <= Len(LogoutScript) /\ LogoutScript[Len(S5) + 1] = "wait" /\ LogoutScript[Len(S5) + 2] = "until"
    BY <1>4, LogoutSteps, LogoutIsScript
  <2>4. LogoutScript \in Seq(Steps) /\ "wait" \in Steps /\ "until" \in Steps
    BY AreSeqs, AreSteps
  <2>2. S7 = S5 \o <<"wait", "until">>
    BY DEF Asleep
  <2> HIDE DEF S7
  <2>3. Begins(S5 \o <<"wait", "until">>, LogoutScript) /\ Len(S5 \o <<"wait", "until">>) = Len(S5) + 2
    BY <1>4, <2>1, <2>4, TwoMore, Zenon
  <2> QED
    BY <1>4, <2>2, <2>3
<1> HIDE DEF S7
<1>6. Begins(S9, LogoutScript) /\ Len(S9) = 9
  <2>1. Len(S7) + 2 <= Len(LogoutScript) /\ LogoutScript[Len(S7) + 1] = "wait" /\ LogoutScript[Len(S7) + 2] = "until"
    BY <1>5, LogoutSteps, LogoutIsScript
  <2>4. LogoutScript \in Seq(Steps) /\ "wait" \in Steps /\ "until" \in Steps
    BY AreSeqs, AreSteps
  <2>2. S9 = S7 \o <<"wait", "until">>
    BY DEF Asleep
  <2> HIDE DEF S9
  <2>3. Begins(S7 \o <<"wait", "until">>, LogoutScript) /\ Len(S7 \o <<"wait", "until">>) = Len(S7) + 2
    BY <1>5, <2>1, <2>4, TwoMore, Zenon
  <2> QED
    BY <1>5, <2>2, <2>3
<1> HIDE DEF S9
<1>7. Begins(S11, LogoutScript) /\ Len(S11) = 11
  <2>1. Len(S9) + 2 <= Len(LogoutScript) /\ LogoutScript[Len(S9) + 1] = "print" /\ LogoutScript[Len(S9) + 2] = "login_prompt"
    BY <1>6, LogoutSteps, LogoutIsScript
  <2>4. LogoutScript \in Seq(Steps) /\ "print" \in Steps /\ "login_prompt" \in Steps
    BY AreSeqs, AreSteps
  <2>2. S11 = S9 \o <<"print", "login_prompt">>
    BY DEF S11
  <2> HIDE DEF S11
  <2>3. Begins(S9 \o <<"print", "login_prompt">>, LogoutScript) /\ Len(S9 \o <<"print", "login_prompt">>) = Len(S9) + 2
    BY <1>6, <2>1, <2>4, TwoMore, Zenon
  <2> QED
    BY <1>6, <2>2, <2>3
<1> HIDE DEF S11
<1>8. Begins(S12, LogoutScript) /\ Len(S12) = 12
  <2>1. Len(S11) + 1 <= Len(LogoutScript) /\ LogoutScript[Len(S11) + 1] = "after"
    BY <1>7, LogoutSteps, LogoutIsScript
  <2>4. LogoutScript \in Seq(Steps) /\ "after" \in Steps
    BY AreSeqs, AreSteps
  <2>2. S12 = S11 \o <<"after">>
    BY DEF S12
  <2> HIDE DEF S12
  <2>3. Begins(S11 \o <<"after">>, LogoutScript) /\ Len(S11 \o <<"after">>) = Len(S11) + 1
    BY <1>7, <2>1, <2>4, OneMore, Zenon
  <2> QED
    BY <1>7, <2>2, <2>3
<1> HIDE DEF S12
<1>9. Begins(S13, LogoutScript) /\ Len(S13) = 13
  <2>1. Len(S12) + 1 <= Len(LogoutScript) /\ LogoutScript[Len(S12) + 1] = "loop"
    BY <1>8, LogoutSteps, LogoutIsScript
  <2>4. LogoutScript \in Seq(Steps) /\ "loop" \in Steps
    BY AreSeqs, AreSteps
  <2>2. S13 = S12 \o <<"loop">>
    BY DEF S13
  <2> HIDE DEF S13
  <2>3. Begins(S12 \o <<"loop">>, LogoutScript) /\ Len(S12 \o <<"loop">>) = Len(S12) + 1
    BY <1>8, <2>1, <2>4, OneMore, Zenon
  <2> QED
    BY <1>8, <2>2, <2>3
<1> HIDE DEF S13
<1> QED
  BY <1>2, <1>9, AllOfIt, AreSeqs, LogoutIsScript
(* What kernel_main puts on the list. *)
LEMMA NothingLoaded ==
  ~Loading(LoginScript) /\ ~Loading(RefusedScript) /\ ~Loading(LogoutScript)
<1>1. \A i \in 1..4 : LoginScript[i] # "load"
  BY LoginSteps
<1>2. \A i \in 1..2 : RefusedScript[i] # "load"
  BY RefusedSteps
<1>3. \A i \in 1..13 : LogoutScript[i] # "load"
  <2> SUFFICES ASSUME NEW i \in 1..13 PROVE LogoutScript[i] # "load"
    OBVIOUS
  <2>1. i \in {1, 2, 3, 4, 5, 6, 7, 8, 9, 10, 11, 12, 13}
    OBVIOUS
  <2> QED
    BY <2>1, LogoutSteps
<1> QED
  BY <1>1, <1>2, <1>3, LoginIsScript, RefusedIsScript, LogoutIsScript DEF Loading, BareLoad

\* The steps of a command that is not logout, and those added to them.
LEMMA CommandRuns ==
  ASSUME NEW s \in PlainScripts, NEW t, t = (s \o <<"after">>) \o <<"loop">>
  PROVE  /\ t \in Script /\ t # <<>> /\ Len(t) >= 2 /\ ~Loading(t)
         /\ \A i \in 1..Len(t) :
              /\ i = Len(t) => t[i] = "loop"
              /\ i = Len(t) - 1 => t[i] = "after"
              /\ i < Len(t) - 1 => t[i] \in PlainSteps
<1> DEFINE a == <<"after">>
           l == <<"loop">>
           u == s \o a
<1>1. s \in Seq(PlainSteps) /\ ~Loading(s)
  BY DEF PlainScripts
<1>2. Len(s) \in Nat /\ \A i \in 1..Len(s) : s[i] \in PlainSteps
  BY <1>1, LenProperties, ElementOfSeq
<1>3. a \in Seq(Steps) /\ Len(a) = 1 /\ a[1] = "after"
  BY AreSteps, Single
<1>4. l \in Seq(Steps) /\ Len(l) = 1 /\ l[1] = "loop"
  BY AreSteps, Single
<1>5. s \in Seq(Steps)
  <2>1. \A i \in 1..Len(s) : s[i] \in Steps
    BY <1>2, AreSteps
  <2>2. s = [i \in 1..Len(s) |-> s[i]]
    BY <1>1, SeqDef
  <2> QED
    BY <1>2, <2>1, <2>2
<1>6. t = u \o l
  OBVIOUS
<1> HIDE DEF a, l, u
<1>7. u \in Seq(Steps) /\ Len(u) = Len(s) + 1 /\ (\A i \in 1..Len(s) : u[i] = s[i]) /\ u[Len(s) + 1] = "after"
  <2>1. a \in Seq(Steps) /\ s \in Seq(Steps)
    BY <1>3, <1>5
  <2>2. /\ s \o a \in Seq(Steps) /\ Len(s \o a) = Len(s) + Len(a)
        /\ \A i \in 1..Len(s) + Len(a) : (s \o a)[i] = IF i <= Len(s) THEN s[i] ELSE a[i - Len(s)]
    BY <2>1, ConcatProperties
  <2>3. Len(s) + 1 - Len(s) = 1 /\ ~(Len(s) + 1 <= Len(s)) /\ Len(s) + 1 \in 1..Len(s) + 1
    BY <1>2
  <2>4. (s \o a)[Len(s) + 1] = a[1]
    BY <1>3, <2>2, <2>3
  <2> QED
    BY <1>2, <1>3, <2>2, <2>4 DEF u
<1>8. /\ t \in Seq(Steps) /\ Len(t) = Len(s) + 2 /\ (\A i \in 1..Len(s) : t[i] = s[i])
      /\ t[Len(s) + 1] = "after" /\ t[Len(s) + 2] = "loop"
  <2>1. u \in Seq(Steps) /\ l \in Seq(Steps)
    BY <1>4, <1>7
  <2>2. /\ u \o l \in Seq(Steps) /\ Len(u \o l) = Len(u) + Len(l)
        /\ \A i \in 1..Len(u) + Len(l) : (u \o l)[i] = IF i <= Len(u) THEN u[i] ELSE l[i - Len(u)]
    BY <2>1, ConcatProperties
  <2>3. Len(s) + 2 - (Len(s) + 1) = 1 /\ ~(Len(s) + 2 <= Len(s) + 1) /\ Len(s) + 2 \in 1..Len(s) + 2
    BY <1>2
  <2>4. (u \o l)[Len(s) + 2] = l[1]
    BY <1>4, <1>7, <2>2, <2>3
  <2>5. \A i \in 1..Len(s) + 1 : (u \o l)[i] = u[i]
    BY <1>2, <1>4, <1>7, <2>2
  <2> QED
    <3>1. Len(u \o l) = Len(s) + 2
      BY <1>2, <1>4, <1>7, <2>2
    <3>2. \A i \in 1..Len(s) : (u \o l)[i] = s[i]
      BY <1>2, <1>7, <2>5
    <3>3. (u \o l)[Len(s) + 1] = "after"
      BY <1>2, <1>7, <2>5
    <3>4. (u \o l)[Len(s) + 2] = "loop"
      BY <1>4, <2>4
    <3> QED
      BY <1>6, <2>2, <3>1, <3>2, <3>3, <3>4
<1>9. t \in Script /\ t # <<>> /\ Len(t) >= 2
  BY <1>2, <1>8 DEF Script
<1>10. ASSUME NEW i \in 1..Len(t), BareLoad(t, i) PROVE FALSE
  <2>1. i \in 1..Len(s)
    <3>1. t[i] = "load"
      BY <1>10 DEF BareLoad
    <3>2. i # Len(s) + 1 /\ i # Len(s) + 2
      BY <1>8, <3>1
    <3> QED
      BY <1>2, <1>8, <3>2
  <2>2. \A j \in 1..i : t[j] = s[j]
    BY <1>2, <1>8, <2>1
  <2>3. BareLoad(s, i)
    BY <1>2, <1>10, <2>1, <2>2 DEF BareLoad
  <2> QED
    BY <1>1, <2>1, <2>3 DEF Loading
<1>11. ~Loading(t)
  BY <1>10 DEF Loading
<1>12. ASSUME NEW i \in 1..Len(t)
       PROVE  /\ i = Len(t) => t[i] = "loop"
              /\ i = Len(t) - 1 => t[i] = "after"
              /\ i < Len(t) - 1 => t[i] \in PlainSteps
  <2>1. i = Len(t) => i = Len(s) + 2
    BY <1>8
  <2>2. i = Len(t) - 1 => i = Len(s) + 1
    BY <1>2, <1>8
  <2>3. i < Len(t) - 1 => i \in 1..Len(s)
    BY <1>2, <1>8
  <2> QED
    BY <1>2, <1>8, <2>1, <2>2, <2>3
<1> QED
  BY <1>9, <1>11, <1>12

\* Where kernel_main is, the tables are set up and the login is what it says.
LEMMA AtLoop ==
  ASSUME Program, At("loop")
  PROVE  Tables(22) /\ login_active \in BOOLEAN
<1>1. ASSUME NEW k \in 0..22, Starting(k) PROVE Tables(22) /\ login_active \in BOOLEAN
  <2>1. k = 22
    BY <1>1, StartingWhere
  <2> QED
    BY <1>1, <2>1 DEF Starting
<1>2. ASSUME InSession PROVE Tables(22) /\ login_active \in BOOLEAN
  <2>1. ASSUME NEW k \in 0..3, LoggingIn(k) PROVE login_active \in BOOLEAN
    <3>1. (k = 0) \in BOOLEAN
      OBVIOUS
    <3> QED
      BY <2>1, <3>1, Zenon DEF LoggingIn
  <2>2. ASSUME NEW k \in 0..12, LoggingOut(k) PROVE login_active \in BOOLEAN
    <3>1. (k >= 5) \in BOOLEAN
      OBVIOUS
    <3> QED
      BY <2>2, <3>1, Zenon DEF LoggingOut
  <2>3. ASSUME NEW k \in 0..1, Refused(k) PROVE login_active \in BOOLEAN
    BY <2>3 DEF Refused
  <2>4. ASSUME Commanded PROVE login_active \in BOOLEAN
    BY <2>4 DEF Commanded
  <2> QED
    BY <1>2, <2>1, <2>2, <2>3, <2>4, Zenon DEF InSession
<1> QED
  BY <1>1, <1>2 DEF Program

\* Taking a line starts one of the scripts.
LEMMA LineTaken ==
  ASSUME Program, kernel_main
  PROVE  Program' /\ ~Loading(todo')
<1>1. PICK l : RunLine(l)
  BY DEF kernel_main
<1>2. prompts' = {} /\ UNCHANGED login_active /\ UNCHANGED tables /\ UNCHANGED <<cpu, enabled>> /\ At("loop")
  <2>1. prompts' = {} /\ UNCHANGED <<login_active, tables, machine>> /\ At("loop")
    BY DEF kernel_main
  <2> QED
    BY <2>1 DEF machine
<1>3. Tables(22) /\ login_active \in BOOLEAN
  BY <1>2, AtLoop
<1>4. Tables(22)'
  <2>1. 22 \in 17..22
    OBVIOUS
  <2> QED
    BY <1>2, <1>3, <2>1, TablesKept, Zenon
<1>5. (0 = 0) = TRUE /\ (0 >= 5) = FALSE /\ 0 \in 0..3 /\ 0 \in 0..1 /\ 0 \in 0..12
  OBVIOUS
<1>6. CASE login_active
  <2>1. todo' = Login(l) \o <<"loop">> /\ login_active' = TRUE
    BY <1>1, <1>2, <1>3, <1>6 DEF RunLine
  <2>2. CASE todo' = LoginScript
    <3>1. todo' = Left(LoginScript, 0)
      BY <2>2, Whole, LoginIsScript
    <3>2. prompts' = Shown(CommandPrompt, 3, 0)
      BY <1>2 DEF Shown
    <3>3. LoggingIn(0)'
      BY <1>5, <2>1, <3>1, <3>2 DEF LoggingIn
    <3>4. InSession'
      BY <1>4, <1>5, <3>3 DEF InSession
    <3> QED
      BY <2>2, <3>4, NothingLoaded DEF Program
  <2>3. CASE todo' = RefusedScript
    <3>1. todo' = Left(RefusedScript, 0)
      BY <2>3, Whole, RefusedIsScript
    <3>2. prompts' = Shown(LoginPrompt, 1, 0)
      BY <1>2 DEF Shown
    <3>3. Refused(0)'
      BY <2>1, <3>1, <3>2 DEF Refused
    <3>4. InSession'
      BY <1>4, <1>5, <3>3 DEF InSession
    <3> QED
      BY <2>3, <3>4, NothingLoaded DEF Program
  <2> QED
    BY <2>1, <2>2, <2>3, LoginRuns
<1>7. CASE ~login_active
  <2>1. todo' = (process_command(l) \o <<"after">>) \o <<"loop">> /\ login_active' = FALSE
    BY <1>1, <1>2, <1>3, <1>7 DEF RunLine
  <2>2. CASE process_command(l) = cmd_logout
    <3>1. todo' = LogoutScript
      BY <2>1, <2>2, LogoutRuns
    <3>2. todo' = Left(LogoutScript, 0)
      BY <3>1, Whole, LogoutIsScript
    <3>3. prompts' = Shown(LoginPrompt, 11, 0)
      BY <1>2 DEF Shown
    <3>4. LoggingOut(0)'
      BY <1>5, <2>1, <3>2, <3>3 DEF LoggingOut
    <3>5. InSession'
      BY <1>4, <1>5, <3>4 DEF InSession
    <3> QED
      BY <3>1, <3>5, NothingLoaded DEF Program
  <2>3. CASE process_command(l) # cmd_logout
    <3>1. process_command(l) \in PlainScripts
      BY <2>3, CommandsPlain
    <3>2. /\ todo' \in Script /\ todo' # <<>> /\ Len(todo') >= 2 /\ ~Loading(todo')
          /\ \A i \in 1..Len(todo') :
              /\ i = Len(todo') => todo'[i] = "loop"
              /\ i = Len(todo') - 1 => todo'[i] = "after"
              /\ i < Len(todo') - 1 => todo'[i] \in PlainSteps
      BY <2>1, <3>1, CommandRuns
    <3>3. prompts' = Shown(CommandPrompt, 0, 1 - Len(todo'))
      <4>1. Len(todo') \in Nat
        BY <3>2, LenProperties DEF Script
      <4>2. 1 - Len(todo') < 0
        BY <3>2, <4>1
      <4> QED
        BY <1>2, <4>2 DEF Shown
    <3>4. Commanded'
      BY <2>1, <3>2, <3>3 DEF Commanded
    <3>5. InSession'
      BY <1>4, <3>4 DEF InSession
    <3> QED
      BY <3>2, <3>5 DEF Program
  <2> QED
    BY <2>2, <2>3
<1> QED
  BY <1>6, <1>7
(* What leaves the program and the tables alone keeps their invariant: with    *)
(* interrupts off the processor stays the kernel's.                          *)
LEMMA ProgramStays ==
  ASSUME Program, UNCHANGED <<program, tables>>, enabled \/ cpu # InKernel \/ UNCHANGED <<cpu, enabled>>,
         regs_update = TRUE \/ UNCHANGED <<asked, snapshot, regs_update>>
  PROVE  Program'
<1>1. UNCHANGED tables /\ UNCHANGED <<todo, login_active, prompts>>
  BY DEF program
<1>2. ASSUME NEW k \in 0..22, Starting(k) PROVE Starting(k)'
  <2>1. Tables(k)'
    <3>1. CASE k < 17
      <4>1. ~enabled /\ cpu = InKernel
        BY <1>2, <3>1 DEF Starting, Tables
      <4>2. UNCHANGED <<gdt, idt, idtr, pic, outs, cpu, enabled>>
        BY <1>1, <4>1 DEF tables
      <4> QED
        BY <1>2, <4>2 DEF Starting, Tables
    <3>2. CASE ~(k < 17)
      <4>1. k \in 17..22 /\ Tables(k)
        BY <1>2, <3>2 DEF Starting
      <4> QED
        BY <1>1, <4>1, TablesKept, Zenon
    <3> QED
      BY <3>1, <3>2
  <2>2. k < 19 => UNCHANGED <<asked, snapshot, regs_update>>
    BY <1>2 DEF Starting
  <2> QED
    BY <1>1, <1>2, <2>1, <2>2 DEF Starting
<1>3. ASSUME InSession PROVE InSession'
  <2>1. Tables(22)'
    <3>1. 22 \in 17..22 /\ Tables(22)
      BY <1>3 DEF InSession
    <3> QED
      BY <1>1, <3>1, TablesKept, Zenon
  <2>2. ASSUME NEW k \in 0..3, LoggingIn(k) PROVE LoggingIn(k)'
    BY <1>1, <2>2, Zenon DEF LoggingIn
  <2>3. ASSUME NEW k \in 0..1, Refused(k) PROVE Refused(k)'
    BY <1>1, <2>3, Zenon DEF Refused
  <2>4. ASSUME NEW k \in 0..12, LoggingOut(k) PROVE LoggingOut(k)'
    BY <1>1, <2>4, Zenon DEF LoggingOut
  <2>5. ASSUME Commanded PROVE Commanded'
    BY <1>1, <2>5, Zenon DEF Commanded
  <2> QED
    BY <1>3, <2>1, <2>2, <2>3, <2>4, <2>5, Zenon DEF InSession
<1> QED
  BY <1>2, <1>3, Zenon DEF Program

\* The hardware and the handlers.
LEMMA InterruptsKeepProgram ==
  ASSUME Program, Snapshots,
         \/ PitTicks \/ OtherLine \/ Transmitted \/ (\E l \in Lines : KeyArrives(l))
         \/ (\E v \in {IRQ0, IRQ1, IRQ14} : Interrupt(v)) \/ InterruptReturn
  PROVE  Program'
<1>1. CASE PitTicks
  BY <1>1, ProgramStays DEF PitTicks, regs
<1>2. CASE OtherLine
  BY <1>2, ProgramStays DEF OtherLine, regs
<1>3. CASE Transmitted
  BY <1>3, ProgramStays DEF Transmitted, regs, machine
<1>4. ASSUME NEW l \in Lines, KeyArrives(l) PROVE Program'
  BY <1>4, ProgramStays DEF KeyArrives, regs
<1>5. ASSUME NEW v \in {IRQ0, IRQ1, IRQ14}, Interrupt(v) PROVE Program'
  <2>1. enabled /\ UNCHANGED <<program, tables>> /\ UNCHANGED asked
    BY <1>5 DEF Interrupt, Deliverable
  <2>2. regs_update = TRUE \/ UNCHANGED <<snapshot, regs_update>>
    <3>1. regs_update \in BOOLEAN /\ snapshot \in Nat
      BY DEF Snapshots
    <3>2. \/ snapshot' = snapshot + (IF regs_update THEN 1 ELSE 0) /\ regs_update' = (regs_update /\ FALSE)
          \/ UNCHANGED <<snapshot, regs_update>>
      BY <1>5 DEF Interrupt, timer_callback, keyboard_callback, Updated
    <3>3. CASE regs_update = FALSE
      <4>1. snapshot + 0 = snapshot
        BY <3>1
      <4> QED
        BY <3>2, <3>3, <4>1
    <3> QED
      BY <3>1, <3>3
  <2> QED
    BY <2>1, <2>2, ProgramStays
<1>6. CASE InterruptReturn
  <2>1. cpu # InKernel
    BY <1>6 DEF InterruptReturn, InKernel
  <2> QED
    BY <1>6, <2>1, ProgramStays DEF InterruptReturn, regs
<1> QED
  BY <1>1, <1>2, <1>3, <1>4, <1>5, <1>6

\* The steps of the session.
LEMMA SessionKeepsProgram ==
  ASSUME Program,
         \/ Output \/ Wait \/ Woken \/ SetLogin \/ get_current_regs \/ Load
         \/ serialcom_write \/ Fault \/ disable \/ halt \/ kernel_main
  PROVE  Program'
<1>1. CASE Output
  <2>1. UNCHANGED <<login_active, tables>> /\ UNCHANGED <<asked, snapshot, regs_update>>
    BY <1>1 DEF Output, Quiet, Session, regs
  <2>2. CASE Step("print") /\ UNCHANGED prompts
    <3>1. "print" \in PlainSteps \cup {"wait", "until"}
      BY DEF PlainSteps
    <3> QED
      BY <2>1, <2>2, <3>1, QuietStep DEF Step
  <2>3. CASE Step("welcome") /\ Prompt(LoginPrompt)
    BY <2>1, <2>3, Welcomed DEF Prompt
  <2>4. CASE Step("login_prompt") /\ Prompt(LoginPrompt)
    BY <2>1, <2>4, AskedToLogIn DEF Prompt
  <2>5. CASE Step("prompt") /\ Prompt(CommandPrompt)
    BY <2>1, <2>5, Prompted DEF Prompt
  <2>6. CASE Step("after") /\ AfterCommand
    BY <2>1, <2>6, CommandEnds
  <2> QED
    BY <1>1, <2>2, <2>3, <2>4, <2>5, <2>6 DEF Output
<1>2. CASE Wait
  <2>1. "wait" \in PlainSteps \cup {"wait", "until"} /\ "wait" # "disable"
    OBVIOUS
  <2> QED
    BY <1>2, <2>1, QuietStep DEF Wait, Step, Session
<1>3. CASE Woken
  <2>1. "until" \in PlainSteps \cup {"wait", "until"} /\ "until" # "disable"
    OBVIOUS
  <2> QED
    BY <1>3, <2>1, QuietStep DEF Woken, Step, Quiet, Session
<1>4. CASE SetLogin
  BY <1>4, LoggedIn, LoggedOut DEF SetLogin
<1>5. CASE get_current_regs
  <2>1. "get_current_regs" \in PlainSteps \cup {"wait", "until"} /\ "get_current_regs" # "disable"
    BY DEF PlainSteps
  <2> QED
    BY <1>5, <2>1, QuietStep DEF get_current_regs, Step, Session
<1>6. CASE Load
  <2>1. "load" \in PlainSteps \cup {"wait", "until"} /\ "load" # "disable"
    BY DEF PlainSteps
  <2> QED
    BY <1>6, <2>1, QuietStep DEF Load, Step, Session
<1>7. CASE serialcom_write
  <2>1. "serialcom_write" \in PlainSteps \cup {"wait", "until"} /\ "serialcom_write" # "disable"
    BY DEF PlainSteps
  <2> QED
    BY <1>7, <2>1, QuietStep DEF serialcom_write, Step, Session
<1>8. CASE Fault
  <2>1. "fault" \in PlainSteps \cup {"wait", "until"} /\ "fault" # "disable"
    BY DEF PlainSteps
  <2> QED
    BY <1>8, <2>1, QuietStep DEF Fault, Step, Session
<1>9. CASE disable
  <2>1. "disable" \in PlainSteps \cup {"wait", "until"}
    BY DEF PlainSteps
  <2> QED
    BY <1>9, <2>1, QuietStep DEF disable, Step, Session, regs
<1>10. CASE halt
  <2>1. "halt" \in PlainSteps \cup {"wait", "until"} /\ "halt" # "disable"
    BY DEF PlainSteps
  <2> QED
    BY <1>10, <2>1, QuietStep DEF halt, Step, Session
<1>11. CASE kernel_main
  BY <1>11, LineTaken
<1> QED
  BY <1>1, <1>2, <1>3, <1>4, <1>5, <1>6, <1>7, <1>8, <1>9, <1>10, <1>11
(* The snapshots.  Whatever step is next, what is left to do is a script. *)
LEMMA HasScript ==
  ASSUME Program, NEW step, At(step)
  PROVE  todo \in Script /\ todo # <<>>
<1>1. ASSUME NEW k \in 0..22, Starting(k) PROVE todo \in Script /\ todo # <<>>
  BY <1>1, StartingAt
<1>2. ASSUME NEW k \in 0..3, LoggingIn(k) PROVE todo \in Script /\ todo # <<>>
  BY <1>2, LoggingInWhere
<1>3. ASSUME NEW k \in 0..1, Refused(k) PROVE todo \in Script /\ todo # <<>>
  BY <1>3, RefusedWhere
<1>4. ASSUME NEW k \in 0..12, LoggingOut(k) PROVE todo \in Script /\ todo # <<>>
  BY <1>4, LoggingOutWhere
<1>5. ASSUME Commanded PROVE todo \in Script /\ todo # <<>>
  BY <1>5 DEF Commanded
<1> QED
  BY <1>1, <1>2, <1>3, <1>4, <1>5, Zenon DEF Program, InSession

\* A step other than a request leaves no load behind that was not there before it.
LEMMA LoadsLeft ==
  ASSUME NEW s \in Seq(Steps), s # <<>>, Head(s) # "get_current_regs", Loading(Tail(s))
  PROVE  Loading(s)
<1>1. Len(s) \in Nat /\ Len(s) >= 1 /\ Len(Tail(s)) = Len(s) - 1 /\ Head(s) = s[1]
  BY EmptySeq, LenProperties, HeadTailProperties
<1>2. \A i \in 1..Len(Tail(s)) : Tail(s)[i] = s[i + 1]
  BY HeadTailProperties
<1>3. PICK i \in 1..Len(Tail(s)) : BareLoad(Tail(s), i)
  BY DEF Loading
<1>4. i + 1 \in 1..Len(s)
  BY <1>1
<1>5. s[i + 1] = "load"
  BY <1>2, <1>3 DEF BareLoad
<1>6. ASSUME NEW j \in 1..(i + 1) - 1 PROVE s[j] # "get_current_regs"
  <2>1. CASE j = 1
    BY <1>1, <2>1
  <2>2. CASE j # 1
    <3>1. j - 1 \in 1..i - 1 /\ j - 1 \in 1..Len(Tail(s)) /\ (j - 1) + 1 = j
      BY <1>1, <1>3, <2>2
    <3>2. Tail(s)[j - 1] # "get_current_regs"
      BY <1>3, <3>1 DEF BareLoad
    <3> QED
      BY <1>2, <3>1, <3>2
  <2> QED
    BY <2>1, <2>2
<1>7. BareLoad(s, i + 1)
  BY <1>5, <1>6 DEF BareLoad
<1> QED
  BY <1>4, <1>7 DEF Loading

\* So no step of the program but the request does.
LEMMA LoadsNext ==
  ASSUME Program, NEW step, Step(step), step # "get_current_regs"
  PROVE  (Loading(todo') => Loading(todo)) /\ (step = "load" => Loading(todo))
<1>1. todo \in Seq(Steps) /\ todo # <<>> /\ Head(todo) = step /\ todo' = Tail(todo)
  BY HasScript DEF Step, At, Script
<1>2. Loading(todo') => Loading(todo)
  BY <1>1, LoadsLeft
<1>3. ASSUME step = "load" PROVE Loading(todo)
  <2>1. Len(todo) \in Nat /\ Len(todo) >= 1 /\ todo[1] = "load"
    BY <1>1, <1>3, EmptySeq, LenProperties, HeadTailProperties
  <2>2. 1 \in 1..Len(todo) /\ 1..1-1 = {}
    BY <2>1
  <2>3. BareLoad(todo, 1)
    BY <2>1, <2>2 DEF BareLoad
  <2> QED
    BY <2>2, <2>3 DEF Loading
<1> QED
  BY <1>2, <1>3

\* Nothing but a tick, a request and a load matters.
LEMMA SnapshotsStay ==
  ASSUME Snapshots, UNCHANGED <<asked, snapshot, regs_update, inTime, shown>>, ticked' \in BOOLEAN, ticked' => ticked,
         Loading(todo') => Loading(todo)
  PROVE  Snapshots'
<1>1. SnapshotTaken' = SnapshotTaken
  BY DEF SnapshotTaken
<1>2. Loading(todo') => (regs_update' \/ SnapshotTaken') /\ (ticked' => SnapshotTaken')
  BY <1>1 DEF Snapshots
<1>3. inTime' => SnapshotTaken'
  BY <1>1 DEF Snapshots
<1> QED
  BY <1>2, <1>3 DEF Snapshots

\* A step of the program that touches no register.
LEMMA StepKeepsSnapshots ==
  ASSUME Program, Snapshots, NEW step, Step(step), step # "get_current_regs",
         UNCHANGED regs, UNCHANGED ticked \/ ticked' = FALSE
  PROVE  Snapshots'
<1>1. UNCHANGED <<asked, snapshot, regs_update, inTime, shown>>
  BY DEF regs
<1>2. ticked' \in BOOLEAN /\ (ticked' => ticked)
  <2>1. ticked \in BOOLEAN
    BY DEF Snapshots
  <2>2. CASE UNCHANGED ticked
    BY <2>1, <2>2
  <2>3. CASE ticked' = FALSE
    BY <2>3
  <2> QED
    BY <2>2, <2>3
<1>3. Loading(todo') => Loading(todo)
  BY LoadsNext
<1> QED
  BY <1>1, <1>2, <1>3, SnapshotsStay

\* A tick takes the snapshot that was asked for.
LEMMA TickKeepsSnapshots ==
  ASSUME Snapshots, timer_callback, UNCHANGED <<todo, asked, inTime, shown>>
  PROVE  Snapshots'
<1>1. /\ asked \in Nat /\ snapshot \in {asked, asked + 1} /\ regs_update \in BOOLEAN /\ inTime \in BOOLEAN
      /\ (regs_update => snapshot = asked) /\ (inTime => SnapshotTaken)
      /\ (Loading(todo) => regs_update \/ SnapshotTaken) /\ shown \in Seq(Nat)
      /\ (\A f \in 1..Len(shown) : shown[f] \in {asked, snapshot} /\ (inTime => shown[f] = asked + 1))
      /\ (\A f, g \in 1..Len(shown) : f < g => shown[f] <= shown[g])
  BY DEF Snapshots
<1>2. ticked' = TRUE /\ regs_update' = FALSE /\ snapshot' = snapshot + (IF regs_update THEN 1 ELSE 0)
  BY DEF timer_callback, Updated
<1>3. CASE regs_update
  <2>1. snapshot = asked /\ snapshot' = asked + 1 /\ inTime = FALSE
    BY <1>1, <1>2, <1>3 DEF SnapshotTaken
  <2>2. SnapshotTaken'
    BY <2>1 DEF SnapshotTaken
  <2>3. \A f \in 1..Len(shown') : shown'[f] \in {asked', snapshot'} /\ (inTime' => shown'[f] = asked' + 1)
    BY <1>1, <2>1
  <2> QED
    BY <1>1, <1>2, <2>1, <2>2, <2>3 DEF Snapshots
<1>4. CASE regs_update = FALSE
  <2>1. snapshot' = snapshot
    BY <1>1, <1>2, <1>4
  <2>2. SnapshotTaken' = SnapshotTaken
    BY <2>1 DEF SnapshotTaken
  <2>3. Loading(todo') => SnapshotTaken'
    BY <1>1, <1>4, <2>2
  <2> QED
    BY <1>1, <1>2, <2>1, <2>2, <2>3 DEF Snapshots
<1> QED
  BY <1>1, <1>3, <1>4

\* A request starts over: its flag is up and no snapshot has been taken for it.
LEMMA RequestKeepsSnapshots ==
  ASSUME Snapshots, get_current_regs
  PROVE  Snapshots'
<1>1. /\ regs_update' = TRUE /\ asked' = snapshot /\ ticked' = FALSE /\ shown' = <<>> /\ inTime' = FALSE
      /\ snapshot' = snapshot /\ snapshot \in Nat
  BY DEF get_current_regs, Snapshots
<1>2. shown' \in Seq(Nat) /\ 1..Len(shown') = {}
  BY <1>1
<1>3. \A f \in 1..Len(shown') : shown'[f] \in {asked', snapshot'} /\ (inTime' => shown'[f] = asked' + 1)
  BY <1>2
<1>4. \A f, g \in 1..Len(shown') : f < g => shown'[f] <= shown'[g]
  BY <1>2
<1>5. asked' \in Nat /\ snapshot' \in {asked', asked' + 1}
  BY <1>1
<1> QED
  BY <1>1, <1>2, <1>3, <1>4, <1>5, Zenon DEF Snapshots

\* A load reads the newest snapshot, which a tick that came before it has taken.
LEMMA LoadKeepsSnapshots ==
  ASSUME Program, Snapshots, Load
  PROVE  Snapshots'
<1>1. /\ asked \in Nat /\ snapshot \in {asked, asked + 1} /\ regs_update \in BOOLEAN /\ inTime \in BOOLEAN
      /\ ticked \in BOOLEAN
      /\ (regs_update => snapshot = asked) /\ (inTime => SnapshotTaken)
      /\ (Loading(todo) => (regs_update \/ SnapshotTaken) /\ (ticked => SnapshotTaken)) /\ shown \in Seq(Nat)
      /\ (\A f \in 1..Len(shown) : shown[f] \in {asked, snapshot} /\ (inTime => shown[f] = asked + 1))
      /\ (\A f, g \in 1..Len(shown) : f < g => shown[f] <= shown[g])
  BY DEF Snapshots
<1>2. /\ shown' = Append(shown, snapshot) /\ inTime' = IF shown = <<>> THEN ticked ELSE inTime
      /\ UNCHANGED <<asked, snapshot, regs_update, ticked>>
  BY DEF Load, driver
<1>3. Loading(todo) /\ SnapshotTaken' = SnapshotTaken
  <2>1. Step("load")
    BY DEF Load
  <2> QED
    BY <1>2, <2>1, LoadsNext DEF SnapshotTaken
<1>4. inTime' \in BOOLEAN /\ (inTime' => SnapshotTaken)
  BY <1>1, <1>2, <1>3
<1>5. snapshot \in Nat /\ asked <= snapshot
  BY <1>1
<1>6. /\ shown' \in Seq(Nat) /\ Len(shown') = Len(shown) + 1 /\ Len(shown) \in Nat
      /\ (\A f \in 1..Len(shown) : shown'[f] = shown[f]) /\ shown'[Len(shown) + 1] = snapshot
  BY <1>1, <1>2, <1>5, AppendProperties, LenProperties
<1>7. ASSUME NEW f \in 1..Len(shown')
      PROVE  shown'[f] \in {asked, snapshot} /\ (inTime' => shown'[f] = asked + 1)
  <2>1. CASE f = Len(shown) + 1
    BY <1>4, <1>6, <2>1 DEF SnapshotTaken
  <2>2. CASE f # Len(shown) + 1
    <3>1. f \in 1..Len(shown)
      BY <1>6, <2>2
    <3>2. shown # <<>>
      BY <3>1
    <3> QED
      BY <1>1, <1>2, <1>6, <3>1, <3>2
  <2> QED
    BY <2>1, <2>2
<1>8. ASSUME NEW f \in 1..Len(shown'), NEW g \in 1..Len(shown'), f < g
      PROVE  shown'[f] <= shown'[g]
  <2>1. f \in 1..Len(shown)
    BY <1>6, <1>8
  <2>2. CASE g = Len(shown) + 1
    <3>1. shown'[f] = shown[f] /\ shown'[g] = snapshot
      BY <1>6, <2>1, <2>2
    <3>2. shown[f] = asked \/ shown[f] = snapshot
      BY <1>1, <2>1
    <3>3. asked <= snapshot /\ snapshot <= snapshot
      BY <1>1
    <3> QED
      BY <3>1, <3>2, <3>3
  <2>3. CASE g # Len(shown) + 1
    <3>1. g \in 1..Len(shown)
      BY <1>6, <2>3
    <3> QED
      BY <1>1, <1>6, <1>8, <2>1, <3>1
  <2> QED
    BY <2>2, <2>3
<1> QED
  BY <1>1, <1>2, <1>3, <1>4, <1>6, <1>7, <1>8 DEF Snapshots

\* install_timer raises the flag before any snapshot has been taken.
LEMMA TimerKeepsSnapshots ==
  ASSUME Program, Snapshots, install_timer
  PROVE  Snapshots'
<1>1. Step("install_timer") /\ regs_update' = TRUE /\ UNCHANGED <<snapshot, asked, inTime, shown, ticked>>
  BY DEF install_timer, driver
<1>2. asked = 0 /\ snapshot = 0
  <2>1. PICK k \in 0..22 : Starting(k)
    BY <1>1, StartSteps DEF Step
  <2>2. k = 18
    BY <1>1, <2>1, StartingWhere DEF Step
  <2> QED
    BY <2>1, <2>2 DEF Starting
<1>3. Loading(todo') => Loading(todo)
  BY <1>1, LoadsNext
<1>4. SnapshotTaken' = SnapshotTaken
  BY <1>1 DEF SnapshotTaken
<1> QED
  BY <1>1, <1>2, <1>3, <1>4 DEF Snapshots
(* The frame an exception leaves: fourteen words, with or without a code from  *)
(* the processor.                                                          *)
Words14 == {"eflags", "cs", "eip", "code", "eax", "ecx", "edx", "ebx", "esp", "ebp", "esi", "edi", "ds"} \cup Int

\* A tuple of eight.
LEMMA Eight ==
  ASSUME NEW S, NEW a \in S, NEW b \in S, NEW c \in S, NEW d \in S, NEW e \in S, NEW f \in S, NEW g \in S, NEW h \in S
  PROVE  <<a, b, c, d, e, f, g, h>> \in Seq(S) /\ Len(<<a, b, c, d, e, f, g, h>>) = 8
OBVIOUS

\* Tuples of one, two and three.
LEMMA Few ==
  ASSUME NEW S, NEW a \in S, NEW b \in S, NEW c \in S
  PROVE  /\ <<a>> \in Seq(S) /\ Len(<<a>>) = 1 /\ <<a>>[1] = a
         /\ <<a, b>> \in Seq(S) /\ Len(<<a, b>>) = 2 /\ <<a, b>>[1] = a /\ <<a, b>>[2] = b
         /\ <<a, b, c>> \in Seq(S) /\ Len(<<a, b, c>>) = 3 /\ <<a, b, c>>[3] = c
OBVIOUS

\* Two sequences put together.
LEMMA Joined ==
  ASSUME NEW S, NEW s \in Seq(S), NEW t \in Seq(S)
  PROVE  /\ s \o t \in Seq(S) /\ Len(s \o t) = Len(s) + Len(t)
         /\ \A i \in 1..Len(s) : (s \o t)[i] = s[i]
         /\ \A i \in 1..Len(t) : (s \o t)[Len(s) + i] = t[i]
<1>1. /\ s \o t \in Seq(S) /\ Len(s \o t) = Len(s) + Len(t)
      /\ \A i \in 1..Len(s) + Len(t) : (s \o t)[i] = IF i <= Len(s) THEN s[i] ELSE t[i - Len(s)]
  BY ConcatProperties
<1>2. ASSUME NEW i \in 1..Len(s) PROVE (s \o t)[i] = s[i]
  BY <1>1
<1>3. ASSUME NEW i \in 1..Len(t) PROVE (s \o t)[Len(s) + i] = t[i]
  <2>1. Len(s) + i \in 1..Len(s) + Len(t) /\ ~(Len(s) + i <= Len(s)) /\ (Len(s) + i) - Len(s) = i
    OBVIOUS
  <2> QED
    BY <1>1, <2>1
<1> QED
  BY <1>1, <1>2, <1>3

\* Where the members of registers_t are, seen from the first word pushed.
LEMMA Mirrored ==
  ASSUME NEW S, NEW s \in Seq(S), Len(s) = 14
  PROVE  Reverse(s)[10] = s[5] /\ Reverse(s)[12] = s[3]
BY DEF Reverse

\* The frame of an exception holds its vector and the instruction in their places.
LEMMA FrameOfException ==
  ASSUME NEW v \in 0..31
  PROVE  int_no(Frame(v)) = v /\ eip(Frame(v)) = "eip"
<1> DEFINE x == <<"eflags", "cs", "eip">>
           code == IF HasCode(v) THEN <<"code">> ELSE <<>>
           p == (x \o code) \o Stub(v)
           r == <<"eax", "ecx", "edx", "ebx", "esp", "ebp", "esi", "edi">>
           d == <<"ds">>
           s == (p \o r) \o d
<1>1. Frame(v) = Reverse(s)
  BY DEF Frame
<1>2. /\ "eflags" \in Words14 /\ "cs" \in Words14 /\ "eip" \in Words14 /\ "code" \in Words14 /\ "eax" \in Words14
      /\ "ecx" \in Words14 /\ "edx" \in Words14 /\ "ebx" \in Words14 /\ "esp" \in Words14 /\ "ebp" \in Words14
      /\ "esi" \in Words14 /\ "edi" \in Words14 /\ "ds" \in Words14 /\ v \in Words14 /\ 0 \in Words14
  BY DEF Words14
<1>3. x \in Seq(Words14) /\ Len(x) = 3 /\ x[3] = "eip"
  BY <1>2, Few
<1>4. r \in Seq(Words14) /\ Len(r) = 8
  BY <1>2, Eight
<1>5. d \in Seq(Words14) /\ Len(d) = 1
  BY <1>2, Few
<1> HIDE DEF x, r, d
<1>6. p \in Seq(Words14) /\ Len(p) = 5 /\ p[3] = "eip" /\ p[5] = v
  <2>1. CASE HasCode(v)
    <3> DEFINE c == <<"code">>
               t == <<v>>
    <3>1. p = (x \o c) \o t
      BY <2>1 DEF Stub
    <3>2. c \in Seq(Words14) /\ Len(c) = 1 /\ t \in Seq(Words14) /\ Len(t) = 1 /\ t[1] = v
      BY <1>2, Few
    <3> HIDE DEF c, t
    <3>3. x \o c \in Seq(Words14) /\ Len(x \o c) = 4 /\ (x \o c)[3] = "eip"
      <4>1. x \in Seq(Words14) /\ c \in Seq(Words14)
        BY <1>3, <3>2
      <4>2. /\ x \o c \in Seq(Words14) /\ Len(x \o c) = Len(x) + Len(c)
            /\ (\A i \in 1..Len(x) : (x \o c)[i] = x[i]) /\ \A i \in 1..Len(c) : (x \o c)[Len(x) + i] = c[i]
        BY <4>1, Joined
      <4>3. Len(x) = 3 /\ Len(c) = 1
        BY <1>3, <3>2
      <4>4. (x \o c)[3] = "eip"
        BY <1>3, <3>2, <4>2, <4>3
      <4> QED
        BY <4>2, <4>3, <4>4
    <3>4. (x \o c) \o t \in Seq(Words14) /\ Len((x \o c) \o t) = 5 /\ ((x \o c) \o t)[3] = "eip" /\ ((x \o c) \o t)[5] = v
      <4>1. x \o c \in Seq(Words14) /\ t \in Seq(Words14)
        BY <3>2, <3>3
      <4>2. /\ (x \o c) \o t \in Seq(Words14) /\ Len((x \o c) \o t) = Len(x \o c) + Len(t)
            /\ (\A i \in 1..Len(x \o c) : ((x \o c) \o t)[i] = (x \o c)[i]) /\ \A i \in 1..Len(t) : ((x \o c) \o t)[Len(x \o c) + i] = t[i]
        BY <4>1, Joined
      <4>3. Len(x \o c) = 4 /\ Len(t) = 1
        BY <3>2, <3>3
      <4>4. ((x \o c) \o t)[3] = "eip"
        BY <3>2, <3>3, <4>2, <4>3
      <4>5. ((x \o c) \o t)[5] = v
        <5>1. ((x \o c) \o t)[Len(x \o c) + 1] = t[1]
          BY <4>2, <4>3
        <5>2. Len(x \o c) + 1 = 5
          BY <4>3
        <5>3. t[1] = v
          BY <3>2
        <5> QED
          BY <5>1, <5>2, <5>3
      <4> QED
        BY <4>2, <4>3, <4>4, <4>5
    <3> QED
      BY <3>1, <3>4
  <2>2. CASE ~HasCode(v)
    <3> DEFINE t == <<0, v>>
    <3>1. p = x \o t
      <4>1. v < 32 /\ ~(v >= 32)
        OBVIOUS
      <4>2. Stub(v) = t
        BY <2>2, <4>1 DEF Stub
      <4>3. code = <<>>
        BY <2>2
      <4>4. x \o <<>> = x
        BY <1>3, ConcatEmptySeq
      <4> QED
        BY <4>2, <4>3, <4>4
    <3>2. t \in Seq(Words14) /\ Len(t) = 2 /\ t[2] = v
      BY <1>2, Few
    <3> HIDE DEF t
    <3>3. x \o t \in Seq(Words14) /\ Len(x \o t) = 5 /\ (x \o t)[3] = "eip" /\ (x \o t)[5] = v
      <4>1. x \in Seq(Words14) /\ t \in Seq(Words14)
        BY <1>3, <3>2
      <4>2. /\ x \o t \in Seq(Words14) /\ Len(x \o t) = Len(x) + Len(t)
            /\ (\A i \in 1..Len(x) : (x \o t)[i] = x[i]) /\ \A i \in 1..Len(t) : (x \o t)[Len(x) + i] = t[i]
        BY <4>1, Joined
      <4>3. Len(x) = 3 /\ Len(t) = 2
        BY <1>3, <3>2
      <4>4. (x \o t)[3] = "eip"
        BY <1>3, <3>2, <4>2, <4>3
      <4>5. (x \o t)[5] = v
        <5>1. (x \o t)[Len(x) + 2] = t[2]
          BY <4>2, <4>3
        <5>2. Len(x) + 2 = 5
          BY <4>3
        <5>3. t[2] = v
          BY <3>2
        <5> QED
          BY <5>1, <5>2, <5>3
      <4> QED
        BY <4>2, <4>3, <4>4, <4>5
    <3> QED
      BY <3>1, <3>3
  <2> QED
    BY <2>1, <2>2
<1> HIDE DEF p
<1>7. p \o r \in Seq(Words14) /\ Len(p \o r) = 13 /\ (p \o r)[3] = "eip" /\ (p \o r)[5] = v
  <2>1. p \in Seq(Words14) /\ r \in Seq(Words14)
    BY <1>4, <1>6
  <2>2. /\ p \o r \in Seq(Words14) /\ Len(p \o r) = Len(p) + Len(r)
        /\ (\A i \in 1..Len(p) : (p \o r)[i] = p[i]) /\ \A i \in 1..Len(r) : (p \o r)[Len(p) + i] = r[i]
    BY <2>1, Joined
  <2>3. Len(p) = 5 /\ Len(r) = 8
    BY <1>4, <1>6
  <2>4. (p \o r)[3] = "eip"
    <3>1. (p \o r)[3] = p[3]
      BY <2>2, <2>3, SMTT(30)
    <3>2. p[3] = "eip"
      BY <1>6
    <3> QED
      BY <3>1, <3>2
  <2>5. (p \o r)[5] = v
    <3>3. 5 \in 1..Len(p)
      BY <2>3
    <3>1. (p \o r)[5] = p[5]
      BY <2>2, <3>3, Zenon
    <3>2. p[5] = v
      BY <1>6
    <3> QED
      BY <3>1, <3>2
  <2> QED
    BY <2>2, <2>3, <2>4, <2>5
<1>8. (p \o r) \o d \in Seq(Words14) /\ Len((p \o r) \o d) = 14 /\ ((p \o r) \o d)[3] = "eip" /\ ((p \o r) \o d)[5] = v
  <2>1. p \o r \in Seq(Words14) /\ d \in Seq(Words14)
    BY <1>5, <1>7
  <2>2. /\ (p \o r) \o d \in Seq(Words14) /\ Len((p \o r) \o d) = Len(p \o r) + Len(d)
        /\ (\A i \in 1..Len(p \o r) : ((p \o r) \o d)[i] = (p \o r)[i]) /\ \A i \in 1..Len(d) : ((p \o r) \o d)[Len(p \o r) + i] = d[i]
    BY <2>1, Joined
  <2>3. Len(p \o r) = 13 /\ Len(d) = 1
    BY <1>5, <1>7
  <2>4. ((p \o r) \o d)[3] = "eip"
    BY <1>5, <1>7, <2>2, <2>3
  <2>5. ((p \o r) \o d)[5] = v
    BY <1>5, <1>7, <2>2, <2>3
  <2> QED
    BY <2>2, <2>3, <2>4, <2>5
<1>10. s = (p \o r) \o d
  OBVIOUS
<1> HIDE DEF s
<1>9. Reverse(s)[10] = s[5] /\ Reverse(s)[12] = s[3]
  BY <1>8, <1>10, Mirrored
<1> QED
  BY <1>1, <1>8, <1>9, <1>10 DEF int_no, eip
(* A fault is reported as it was raised: commands run after the tables are     *)
(* loaded, where every exception's gate leads to its own stub.              *)
LEMMA FaultsKnown ==
  ASSUME Program, FaultKnown, Fault
  PROVE  FaultKnown'
<1>1. PICK v \in Exceptions :
        fault' = [raised |-> v, int_no |-> int_no(Frame(idt[v])),
                  message |-> exception_messages[int_no(Frame(idt[v])) + 1], eip |-> eip(Frame(idt[v]))]
  BY DEF Fault
<1>2. At("fault")
  BY DEF Fault, Step
<1>3. Tables(22)
  <2>1. ~(\E k \in 0..22 : Starting(k))
    BY <1>2, StartingWhere
  <2> QED
    BY <2>1 DEF Program, InSession
<1>4. v \in 0..31 /\ v \in Vectors
  BY KernelAssumption DEF Vectors
<1>5. idt[v] = v
  BY <1>3, <1>4 DEF Tables
<1>6. int_no(Frame(v)) = v /\ eip(Frame(v)) = "eip"
  BY <1>4, FrameOfException
<1> QED
  BY <1>1, <1>5, <1>6 DEF FaultKnown

\* Between two handlers no controller waits for anything.
LEMMA HandlersAlone ==
  ASSUME OnlyThatOne, (\E v \in {IRQ0, IRQ1, IRQ14} : Interrupt(v)) \/ InterruptReturn \/ outb
  PROVE  OnlyThatOne'
<1>1. InKernel = 0 /\ Halted = -1 /\ IRQ0 = 32 /\ IRQ1 = 33 /\ IRQ14 = 46
  BY DEF InKernel, Halted, IRQ0, IRQ1, IRQ14
<1>2. ASSUME NEW v \in {IRQ0, IRQ1, IRQ14}, Interrupt(v) PROVE OnlyThatOne'
  <2>1. cpu = InKernel /\ cpu' = v /\ inService' = InService(v)
    BY <1>2 DEF Interrupt
  <2>2. inService = [master |-> {}, slave |-> {}]
    BY <2>1 DEF OnlyThatOne
  <2>3. inService' = [master |-> {AtMaster(v)}, slave |-> {v} \cap 40..47]
    BY <2>1, <2>2 DEF InService
  <2>4. v \notin {InKernel, Halted}
    BY <1>1
  <2> QED
    BY <2>1, <2>3, <2>4 DEF OnlyThatOne
<1>3. CASE InterruptReturn
  <2>1. cpu \in {IRQ0, IRQ1, IRQ14} /\ cpu' = InKernel
    BY <1>1, <1>3 DEF InterruptReturn, OnlyThatOne
  <2>2. inService = [master |-> {AtMaster(cpu)}, slave |-> {cpu} \cap 40..47]
    BY <1>1, <2>1 DEF OnlyThatOne
  <2>3. inService' = [p \in {"master", "slave"} |->
                        inService[p] \ (IF p \in Eois(cpu) THEN Highest(inService[p]) ELSE {})]
    BY <1>3 DEF InterruptReturn
  <2>4. inService'["master"] = {}
    BY <1>1, <2>1, <2>2, <2>3 DEF Eois, Highest, AtMaster
  <2>5. inService'["slave"] = {}
    <3>1. CASE cpu = IRQ14
      BY <1>1, <2>2, <2>3, <3>1 DEF Eois, Highest
    <3>2. CASE cpu # IRQ14
      <4>1. {cpu} \cap 40..47 = {}
        BY <1>1, <2>1, <3>2
      <4> QED
        BY <2>2, <2>3, <4>1
    <3> QED
      BY <3>1, <3>2
  <2>6. inService' = [master |-> {}, slave |-> {}]
    BY <2>3, <2>4, <2>5
  <2> QED
    BY <2>1, <2>6 DEF OnlyThatOne
<1>4. CASE outb
  <2>1. cpu = InKernel /\ cpu' = cpu
    BY <1>4 DEF outb, Step, At
  <2>2. inService = [master |-> {}, slave |-> {}]
    BY <2>1 DEF OnlyThatOne
  <2>3. ASSUME NEW p, Forgets(p) PROVE inService' = inService
    <3>1. inService = [q \in {"master", "slave"} |-> {}]
      BY <2>2
    <3>2. inService' = [inService EXCEPT ![p] = {}]
      BY <2>3 DEF Forgets
    <3>3. ASSUME NEW f, f = [q \in {"master", "slave"} |-> {}] PROVE [f EXCEPT ![p] = {}] = f
      BY <3>3
    <3> QED
      BY <3>1, <3>2, <3>3
  <2>4. inService' = inService
    BY <1>4, <2>3 DEF outb
  <2> QED
    BY <2>1, <2>2, <2>4 DEF OnlyThatOne
<1> QED
  BY <1>2, <1>3, <1>4

------------------------------------------------------------------------------
(* The invariant holds at the reset, and every step keeps it. *)
LEMMA InitOK == Init => IInv
<1> SUFFICES ASSUME Init PROVE IInv
  OBVIOUS
<1>1. OnlyThatOne
  BY DEF Init, OnlyThatOne, InKernel
<1>2. Snapshots
  <2>1. \A i \in 1..Len(Boot) : Boot[i] # "load"
    <3> SUFFICES ASSUME NEW i \in 1..23 PROVE Boot[i] # "load"
      BY BootIsScript
    <3>1. CASE i \in 5..14
      BY <3>1, BootOuts
    <3>2. CASE i \notin 5..14
      <4>1. i \in {1, 2, 3, 4, 15, 16, 17, 18, 19, 20, 21, 22, 23}
        BY <3>2
      <4> QED
        BY <4>1, BootSteps
    <3> QED
      BY <3>1, <3>2
  <2>2. ~Loading(todo)
    BY <2>1 DEF Init, Loading, BareLoad
  <2>3. shown = <<>> /\ shown \in Seq(Nat) /\ 1..Len(shown) = {}
    BY DEF Init
  <2>4. /\ asked = 0 /\ snapshot = 0 /\ regs_update = FALSE /\ ticked = FALSE /\ inTime = FALSE
    BY DEF Init
  <2>5. asked \in Nat /\ snapshot \in {asked, asked + 1}
    BY <2>4
  <2>6. (\A f \in 1..Len(shown) : shown[f] \in {asked, snapshot} /\ (inTime => shown[f] = asked + 1))
        /\ \A f, g \in 1..Len(shown) : f < g => shown[f] <= shown[g]
    BY <2>3
  <2> QED
    BY <2>2, <2>3, <2>4, <2>5, <2>6 DEF Snapshots
<1>3. Program
  <2>1. todo = Left(Boot, 0)
    BY Whole, BootIsScript DEF Init
  <2>2. Tables(0)
    <3>1. idt = [v \in Vectors |-> IF 0 < (IF v < 32 THEN 4 ELSE 15) THEN NoGate ELSE v]
      <4>1. \A v : 0 < (IF v < 32 THEN 4 ELSE 15)
        OBVIOUS
      <4> QED
        BY <4>1 DEF Init
    <3>2. (0 >= 16) = FALSE /\ 0 < 2 /\ ~(0 > 4) /\ ~(0 > 5) /\ 0 < 4
      OBVIOUS
    <3>3. gdt = "boot" /\ idtr = FALSE /\ outs = 0 /\ enabled = FALSE /\ cpu = InKernel
      BY DEF Init
    <3>4. DOMAIN pic = {"master", "slave"}
      BY DEF Init
    <3>5. WrittenAfter(0) = 0
      BY DEF WrittenAfter
    <3> QED
      BY <3>1, <3>2, <3>3, <3>4, <3>5 DEF Tables
  <2>3. prompts = Shown(LoginPrompt, 21, 0)
    BY DEF Init, Shown
  <2>4. Starting(0)
    BY <2>1, <2>2, <2>3 DEF Init, Starting
  <2>5. 0 \in 0..22
    OBVIOUS
  <2> QED
    BY <2>4, <2>5 DEF Program
<1>4. FaultKnown
  BY DEF Init, FaultKnown
<1> QED
  BY <1>1, <1>2, <1>3, <1>4 DEF IInv

\* Every step keeps the snapshots in order.
LEMMA SnapshotsKept ==
  ASSUME IInv, Next
  PROVE  Snapshots'
<1>1. Program /\ Snapshots
  BY DEF IInv
<1>2. ASSUME NEW step, Step(step), step # "get_current_regs", UNCHANGED regs, UNCHANGED ticked \/ ticked' = FALSE
      PROVE  Snapshots'
  BY <1>1, <1>2, StepKeepsSnapshots
<1>3. ASSUME UNCHANGED <<todo, regs, ticked>> PROVE Snapshots'
  <2>1. ticked \in BOOLEAN
    BY <1>1 DEF Snapshots
  <2> QED
    BY <1>1, <1>3, <2>1, SnapshotsStay DEF regs
<1>4. CASE serialcom_init_port \/ gdt_install \/ set_idt_gate \/ outb \/ set_idt \/ enable
  BY <1>2, <1>4 DEF serialcom_init_port, gdt_install, set_idt_gate, outb, set_idt, enable, driver
<1>5. CASE register_interrupt_handler \/ kbd_discard_last_key
  BY <1>2, <1>5 DEF register_interrupt_handler, kbd_discard_last_key
<1>6. CASE install_timer
  BY <1>1, <1>6, TimerKeepsSnapshots
<1>7. CASE Output
  BY <1>2, <1>7 DEF Output, Quiet, driver
<1>8. CASE Wait \/ Woken
  BY <1>2, <1>8 DEF Wait, Woken, Quiet, driver
<1>9. CASE SetLogin \/ serialcom_write \/ Fault \/ disable \/ halt
  BY <1>2, <1>9 DEF SetLogin, serialcom_write, Fault, disable, halt, driver
<1>10. CASE get_current_regs
  BY <1>1, <1>10, RequestKeepsSnapshots
<1>11. CASE Load
  BY <1>1, <1>11, LoadKeepsSnapshots
<1>12. CASE kernel_main
  <2>1. ~Loading(todo')
    BY <1>1, <1>12, LineTaken
  <2>2. UNCHANGED <<asked, snapshot, regs_update, inTime, shown, ticked>>
    BY <1>12 DEF kernel_main, regs
  <2>3. ticked \in BOOLEAN
    BY <1>1 DEF Snapshots
  <2> QED
    BY <1>1, <2>1, <2>2, <2>3, SnapshotsStay
<1>13. ASSUME NEW v \in {IRQ0, IRQ1, IRQ14}, Interrupt(v) PROVE Snapshots'
  <2>1. UNCHANGED <<todo, asked, inTime, shown>>
    BY <1>13 DEF Interrupt, program
  <2>2. CASE timer_callback
    BY <1>1, <2>1, <2>2, TickKeepsSnapshots
  <2>3. CASE UNCHANGED <<ticked, snapshot, regs_update>>
    BY <1>3, <2>1, <2>3 DEF regs
  <2> QED
    BY <1>13, <2>2, <2>3 DEF Interrupt, keyboard_callback
<1>14. CASE InterruptReturn
  BY <1>3, <1>14 DEF InterruptReturn, program, driver
<1>15. CASE PitTicks \/ OtherLine \/ Transmitted
  BY <1>3, <1>15 DEF PitTicks, OtherLine, Transmitted, program, driver
<1>16. ASSUME NEW l \in Lines, KeyArrives(l) PROVE Snapshots'
  BY <1>3, <1>16 DEF KeyArrives, program, driver
<1>17. CASE Kernel
  BY <1>4, <1>5, <1>6, <1>7, <1>8, <1>9, <1>10, <1>11, <1>12, <1>17 DEF Kernel
<1>18. CASE Interrupts
  BY <1>13, <1>14, <1>18 DEF Interrupts
<1> QED
  BY <1>15, <1>16, <1>17, <1>18 DEF Next

\* Every step leaves the controllers waiting for the running handler only.
LEMMA ServiceKept ==
  ASSUME IInv, Next
  PROVE  OnlyThatOne'
<1>1. OnlyThatOne
  BY DEF IInv
<1>2. ASSUME UNCHANGED inService, cpu' = cpu \/ (cpu = InKernel /\ cpu' = Halted) PROVE OnlyThatOne'
  BY <1>1, <1>2 DEF OnlyThatOne
<1>3. CASE serialcom_init_port \/ gdt_install \/ set_idt_gate \/ set_idt \/ enable
  BY <1>2, <1>3 DEF serialcom_init_port, gdt_install, set_idt_gate, set_idt, enable, machine
<1>4. CASE register_interrupt_handler \/ kbd_discard_last_key \/ install_timer
  BY <1>2, <1>4 DEF register_interrupt_handler, kbd_discard_last_key, install_timer, machine
<1>5. CASE Output \/ Wait \/ Woken \/ SetLogin
  BY <1>2, <1>5 DEF Output, Wait, Woken, SetLogin, Quiet, machine
<1>6. CASE get_current_regs \/ Load \/ serialcom_write \/ kernel_main
  BY <1>2, <1>6 DEF get_current_regs, Load, serialcom_write, kernel_main, machine
<1>7. CASE Fault \/ disable \/ halt
  BY <1>2, <1>7 DEF Fault, disable, halt, Step, At
<1>8. CASE outb \/ (\E v \in {IRQ0, IRQ1, IRQ14} : Interrupt(v)) \/ InterruptReturn
  BY <1>1, <1>8, HandlersAlone
<1>9. CASE PitTicks \/ OtherLine \/ Transmitted
  BY <1>2, <1>9 DEF PitTicks, OtherLine, Transmitted, machine
<1>10. ASSUME NEW l \in Lines, KeyArrives(l) PROVE OnlyThatOne'
  BY <1>2, <1>10 DEF KeyArrives
<1> QED
  BY <1>3, <1>4, <1>5, <1>6, <1>7, <1>8, <1>9, <1>10 DEF Next, Kernel, Interrupts

\* Every step keeps what was reported.
LEMMA FaultKept ==
  ASSUME IInv, Next
  PROVE  FaultKnown'
<1>1. FaultKnown /\ Program
  BY DEF IInv
<1>2. ASSUME UNCHANGED fault PROVE FaultKnown'
  BY <1>1, <1>2 DEF FaultKnown
<1>3. CASE Fault
  BY <1>1, <1>3, FaultsKnown
<1>4. CASE serialcom_init_port \/ gdt_install \/ set_idt_gate \/ outb \/ set_idt \/ enable
  BY <1>2, <1>4 DEF serialcom_init_port, gdt_install, set_idt_gate, outb, set_idt, enable
<1>5. CASE register_interrupt_handler \/ kbd_discard_last_key \/ install_timer
  BY <1>2, <1>5 DEF register_interrupt_handler, kbd_discard_last_key, install_timer
<1>6. CASE Output \/ Wait \/ Woken \/ SetLogin
  BY <1>2, <1>6 DEF Output, Wait, Woken, SetLogin, Quiet
<1>7. CASE get_current_regs \/ Load \/ serialcom_write \/ kernel_main \/ disable \/ halt
  BY <1>2, <1>7 DEF get_current_regs, Load, serialcom_write, kernel_main, disable, halt
<1>8. ASSUME NEW v \in {IRQ0, IRQ1, IRQ14}, Interrupt(v) PROVE FaultKnown'
  BY <1>2, <1>8 DEF Interrupt
<1>9. CASE InterruptReturn \/ PitTicks \/ OtherLine \/ Transmitted
  BY <1>2, <1>9 DEF InterruptReturn, PitTicks, OtherLine, Transmitted
<1>10. ASSUME NEW l \in Lines, KeyArrives(l) PROVE FaultKnown'
  BY <1>2, <1>10 DEF KeyArrives
<1> QED
  BY <1>3, <1>4, <1>5, <1>6, <1>7, <1>8, <1>9, <1>10 DEF Next, Kernel, Interrupts

\* The invariant is inductive.
LEMMA NextOK == IInv /\ [Next]_vars => IInv'
<1> SUFFICES ASSUME IInv, [Next]_vars PROVE IInv'
  OBVIOUS
<1>1. CASE Next
  <2>1. Program'
    <3>1. Program /\ Snapshots
      BY DEF IInv
    <3> QED
      BY <1>1, <3>1, SetUpKeepsProgram, SessionKeepsProgram, InterruptsKeepProgram DEF Next, Kernel, Interrupts
  <2> QED
    BY <1>1, <2>1, SnapshotsKept, ServiceKept, FaultKept DEF IInv
<1>2. CASE UNCHANGED vars
  <2>1. UNCHANGED <<program, driver, regs, fault, tables, machine>>
    BY <1>2 DEF vars
  <2>2. UNCHANGED <<todo, regs, ticked, cpu, enabled, inService, fault>>
    BY <2>1 DEF program, driver, machine
  <2>3. Program'
    BY <2>1, <2>2, ProgramStays DEF IInv, regs
  <2>4. Snapshots'
    <3>1. ticked \in BOOLEAN /\ Snapshots
      BY DEF IInv, Snapshots
    <3> QED
      BY <2>2, <3>1, SnapshotsStay DEF regs
  <2>5. OnlyThatOne' /\ FaultKnown'
    BY <2>2 DEF IInv, OnlyThatOne, FaultKnown
  <2> QED
    BY <2>3, <2>4, <2>5 DEF IInv
<1> QED
  BY <1>1, <1>2

(* The scripts, the tables, the controllers and the snapshots are at every     *)
(* moment what the place reached in the program says.                        *)
THEOREM Invariant == Spec => []IInv
BY InitOK, NextOK, PTL DEF Spec
(* What the invariant says of the properties of Kernel. *)
LEMMA AcknowledgedInv == IInv => AllAcknowledged
BY DEF IInv, OnlyThatOne, AllAcknowledged

\* Loads are of the request's moment: shown holds asked and snapshot, in order.
LEMMA RegsInv == IInv => RegsOfOneMoment
<1> SUFFICES ASSUME IInv PROVE RegsOfOneMoment
  OBVIOUS
<1>1. /\ asked \in Nat /\ snapshot \in {asked, asked + 1} /\ inTime \in BOOLEAN /\ shown \in Seq(Nat)
      /\ (\A f \in 1..Len(shown) : shown[f] \in {asked, snapshot} /\ (inTime => shown[f] = asked + 1))
      /\ (\A f, g \in 1..Len(shown) : f < g => shown[f] <= shown[g])
  BY DEF IInv, Snapshots
<1>2. DOMAIN shown = 1..Len(shown)
  BY <1>1
<1>3. ASSUME NEW f \in 1..Len(shown) PROVE shown[f] \in (IF inTime THEN {} ELSE {asked}) \cup {asked + 1}
  BY <1>1
<1> QED
  BY <1>1, <1>2, <1>3 DEF RegsOfOneMoment

\* At the loop every script has shown the prompt of the reader that comes.
LEMMA PromptInv == IInv => PromptMatches
<1> SUFFICES ASSUME Program, At("loop")
             PROVE  prompts = IF login_active THEN {LoginPrompt} ELSE {CommandPrompt}
  BY DEF IInv, PromptMatches, Waiting
<1>1. ASSUME NEW k \in 0..22, Starting(k) PROVE login_active = TRUE /\ prompts = {LoginPrompt}
  <2>1. k = 22 /\ ~(22 < 21)
    BY <1>1, StartingWhere
  <2> QED
    BY <1>1, <2>1 DEF Starting, Shown
<1>2. ASSUME NEW k \in 0..3, LoggingIn(k) PROVE login_active = FALSE /\ prompts = {CommandPrompt}
  <2>1. k = 3 /\ (3 = 0) = FALSE /\ ~(3 < 3)
    BY <1>2, LoggingInWhere
  <2> QED
    BY <1>2, <2>1 DEF LoggingIn, Shown
<1>3. ASSUME NEW k \in 0..1, Refused(k) PROVE login_active = TRUE /\ prompts = {LoginPrompt}
  <2>1. k = 1 /\ ~(1 < 1)
    BY <1>3, RefusedWhere
  <2> QED
    BY <1>3, <2>1 DEF Refused, Shown
<1>4. ASSUME NEW k \in 0..12, LoggingOut(k) PROVE login_active = TRUE /\ prompts = {LoginPrompt}
  <2>1. k = 12 /\ (12 >= 5) = TRUE /\ ~(12 < 11)
    BY <1>4, LoggingOutWhere
  <2> QED
    BY <1>4, <2>1 DEF LoggingOut, Shown
<1>5. ASSUME Commanded PROVE login_active = FALSE /\ prompts = {CommandPrompt}
  <2>1. "loop" # "after" /\ "loop" \notin PlainSteps
    BY DEF PlainSteps
  <2>2. Len(todo) = 1
    BY <1>5, <2>1, CommandedWhere
  <2>3. prompts = Shown(CommandPrompt, 0, 1 - Len(todo)) /\ login_active = FALSE
    BY <1>5 DEF Commanded
  <2>4. ~(1 - Len(todo) < 0)
    BY <2>2
  <2> QED
    BY <2>3, <2>4 DEF Shown
<1> QED
  BY <1>1, <1>2, <1>3, <1>4, <1>5 DEF Program, InSession

\* Four words for each controller, when all ten writes are done.
LEMMA AllGiven ==
  ASSUME NEW k \in 17..22, Tables(k)
  PROVE  /\ pic["master"] = [i \in 1..4 |-> MasterWords[i]]
         /\ pic["slave"] = [i \in 1..4 |-> SlaveWords[i]]
<1>1. outs = 10 /\ k > 4 /\ k > 5
  BY DEF Tables, WrittenAfter
<1>2. (10 - 1) \div 2 = 4 /\ (10 - 2) \div 2 = 4
  OBVIOUS
<1> QED
  BY <1>1, <1>2 DEF Tables, Given

\* Those words wire the controllers at IRQ0 and eight further on, and unmask them.
LEMMA Wired ==
  ASSUME NEW k \in 17..22, Tables(k)
  PROVE  /\ pic.master[1] = IRQ0 /\ pic.slave[1] = IRQ0 + 8 /\ pic.master[2] = 2 ^ pic.slave[2]
         /\ \A p \in {"master", "slave"} : pic[p][3] = 1 /\ (Len(pic[p]) > 3 => Last(pic[p]) = 0)
<1> DEFINE m == [i \in 1..4 |-> MasterWords[i]]
           s == [i \in 1..4 |-> SlaveWords[i]]
<1>1. pic["master"] = m /\ pic["slave"] = s
  BY AllGiven
<1>2. m[1] = 32 /\ m[2] = 4 /\ m[3] = 1 /\ m[4] = 0 /\ Len(m) = 4
  BY Words
<1>3. s[1] = 40 /\ s[2] = 2 /\ s[3] = 1 /\ s[4] = 0 /\ Len(s) = 4
  BY Words
<1> HIDE DEF m, s
<1>4. IRQ0 = 32 /\ IRQ0 + 8 = 40
  BY DEF IRQ0
<1>5. 2 ^ 2 = 4
  OBVIOUS
<1>6. Last(m) = 0 /\ Last(s) = 0
  BY <1>2, <1>3 DEF Last
<1>7. pic.master[1] = IRQ0 /\ pic.slave[1] = IRQ0 + 8
  BY <1>1, <1>2, <1>3, <1>4
<1>8. pic.master[2] = 2 ^ pic.slave[2]
  <2>1. pic.master[2] = 4 /\ pic.slave[2] = 2
    BY <1>1, <1>2, <1>3
  <2> QED
    BY <1>5, <2>1
<1> QED
  BY <1>1, <1>2, <1>3, <1>6, <1>7, <1>8

\* What follows one element.
LEMMA AfterFirst ==
  ASSUME NEW E, NEW one \in Seq(E), NEW rest \in Seq(E), Len(one) = 1, Len(rest) = 4
  PROVE  (one \o rest)[2] = rest[1] /\ (one \o rest)[3] = rest[2]
<1>1. \A i \in 1..Len(one) + Len(rest) : (one \o rest)[i] = IF i <= Len(one) THEN one[i] ELSE rest[i - Len(one)]
  BY ConcatProperties
<1>2. 2 \in 1..Len(one) + Len(rest) /\ 3 \in 1..Len(one) + Len(rest)
  OBVIOUS
<1>3. (one \o rest)[2] = IF 2 <= Len(one) THEN one[2] ELSE rest[2 - Len(one)]
  BY <1>1, <1>2
<1>4. (one \o rest)[3] = IF 3 <= Len(one) THEN one[3] ELSE rest[3 - Len(one)]
  BY <1>1, <1>2
<1>5. ~(2 <= Len(one)) /\ 2 - Len(one) = 1 /\ ~(3 <= Len(one)) /\ 3 - Len(one) = 2
  OBVIOUS
<1> QED
  BY <1>3, <1>4, <1>5

\* The kernel's segments span four gigabytes from zero.
LEMMA KernelFlat ==
  ASSUME gdt = "kernel"
  PROVE  Flat(KERNEL_CS, 154) /\ Flat(KERNEL_DS, 146)
<1> DEFINE gate(access) == gdt_set_gate(Zero, Ones, access, 207)
<1>1. gdt_entries["kernel"] = <<NullEntry>> \o [s \in 1..4 |-> gate(<<154, 146, 250, 242>>[s])]
  BY DEF gdt_entries
<1>2. ASSUME NEW access \in Nat
      PROVE  gate(access) = [base_low |-> 0, base_mid |-> 0, base_high |-> 0, limit |-> 65535,
                             grand |-> 207, access |-> access]
  <2>1. 0 % 256 = 0 /\ 0 \div 256 = 0 /\ (65535 % 16) + (207 - (207 % 16)) = 207
    OBVIOUS
  <2>2. Zero[1] = 0 /\ Zero[2] = 0 /\ Ones[1] = 65535 /\ Ones[2] = 65535
    BY DEF Zero, Ones
  <2> QED
    BY <2>1, <2>2 DEF gdt_set_gate
<1>3. gdt_entries["kernel"][2] = gate(154) /\ gdt_entries["kernel"][3] = gate(146)
  <2> DEFINE four == [s \in 1..4 |-> gate(<<154, 146, 250, 242>>[s])]
             S == {NullEntry} \cup {gate(a) : a \in {154, 146, 250, 242}}
  <2>0. gdt_entries["kernel"] = <<NullEntry>> \o four
    BY <1>1
  <2>1. <<NullEntry>> \in Seq(S) /\ Len(<<NullEntry>>) = 1
    <3>1. NullEntry \in S
      OBVIOUS
    <3> QED
      BY <3>1, Single
  <2>2. four \in Seq(S) /\ Len(four) = 4
    <3>1. ASSUME NEW s \in 1..4 PROVE <<154, 146, 250, 242>>[s] \in {154, 146, 250, 242}
      OBVIOUS
    <3>2. \A s \in 1..4 : gate(<<154, 146, 250, 242>>[s]) \in S
      BY <3>1
    <3> HIDE DEF gate, S
    <3> QED
      BY <3>2
  <2>3. four[1] = gate(154) /\ four[2] = gate(146)
    <3> HIDE DEF gate
    <3> QED
      OBVIOUS
  <2> HIDE DEF four, S, gate
  <2>4. (<<NullEntry>> \o four)[2] = four[1] /\ (<<NullEntry>> \o four)[3] = four[2]
    <3>1. ASSUME NEW one \in Seq(S), NEW rest \in Seq(S), Len(one) = 1, Len(rest) = 4
          PROVE  (one \o rest)[2] = rest[1] /\ (one \o rest)[3] = rest[2]
      BY <3>1, AfterFirst
    <3>2. <<NullEntry>> \in Seq(S) /\ four \in Seq(S) /\ Len(<<NullEntry>>) = 1 /\ Len(four) = 4
      BY <2>1, <2>2
    <3> QED
      BY <3>1, <3>2, Zenon
  <2> DEFINE all == <<NullEntry>> \o four
  <2>5. gdt_entries["kernel"] = all /\ all[2] = four[1] /\ all[3] = four[2]
    BY <2>0, <2>4
  <2> HIDE DEF all
  <2> QED
    BY <2>3, <2>5
<1> HIDE DEF gate
<1>4. KERNEL_CS \div 8 + 1 = 2 /\ KERNEL_DS \div 8 + 1 = 3
  BY DEF KERNEL_CS, KERNEL_DS
<1>5. 207 \div 64 = 3 /\ (207 % 16) * 65536 + 65535 = 1048575
  OBVIOUS
<1> QED
  BY <1>2, <1>3, <1>4, <1>5 DEF Flat

\* Interrupts are off until all of that is done.
LEMMA VectorsInv == IInv => VectorsReady
<1> SUFFICES ASSUME IInv, enabled
             PROVE  /\ idtr /\ \A v \in Vectors : idt[v] = v
                    /\ pic.master[1] = IRQ0 /\ pic.slave[1] = IRQ0 + 8 /\ pic.master[2] = 2 ^ pic.slave[2]
                    /\ \A p \in {"master", "slave"} : pic[p][3] = 1 /\ (Len(pic[p]) > 3 => Last(pic[p]) = 0)
                    /\ Flat(KERNEL_CS, 154) /\ Flat(KERNEL_DS, 146)
  BY DEF VectorsReady
<1>1. PICK k \in 17..22 : Tables(k)
  <2>1. ASSUME NEW j \in 0..22, Starting(j) PROVE j \in 17..22 /\ Tables(j)
    <3>1. Tables(j)
      BY <2>1 DEF Starting
    <3>2. ~(j < 17)
      BY <3>1 DEF Tables
    <3> QED
      BY <3>1, <3>2
  <2>2. 22 \in 17..22
    OBVIOUS
  <2> QED
    BY <2>1, <2>2, Zenon DEF IInv, Program, InSession
<1>2. idtr
  <2>1. (k >= 16) = TRUE
    OBVIOUS
  <2> QED
    BY <1>1, <2>1 DEF Tables
<1>3. \A v \in Vectors : idt[v] = v
  BY <1>1 DEF Tables
<1>4. gdt = "kernel"
  BY <1>1 DEF Tables
<1> QED
  BY <1>1, <1>2, <1>3, <1>4, Wired, KernelFlat

\* The report names what was raised.
LEMMA FaultInv == IInv => FaultNamed
<1> SUFFICES ASSUME IInv, fault # NoFault
             PROVE  /\ fault.int_no = fault.raised /\ fault.message = exception_messages[fault.raised + 1]
                    /\ fault.eip = "eip"
  BY DEF FaultNamed
<1> QED
  BY DEF IInv, FaultKnown

------------------------------------------------------------------------------
(* No line is blocked by an interrupt already served: irq_handler acknowledges  *)
(* both controllers where it must, for every line and in every order.        *)
THEOREM Acknowledged == Spec => []AllAcknowledged
BY Invariant, AcknowledgedInv, PTL

(* "regs" never mixes registers of more than two snapshots, and none older than *)
(* its request's, however many registers it loads and whenever the ticks come. *)
THEOREM RegistersAgree == Spec => []RegsOfOneMoment
BY Invariant, RegsInv, PTL

(* Whenever interrupts are on, the descriptor tables, the gates and both        *)
(* interrupt controllers are set up: the order of kernel_main and isr_install. *)
THEOREM Ready == Spec => []VectorsReady
BY Invariant, VectorsInv, PTL

(* Where the kernel waits for a line, the prompt on the screen is that of the  *)
(* reader it waits in, for every queue of commands and every user.           *)
THEOREM PromptOfReader == Spec => []PromptMatches
BY Invariant, PromptInv, PTL

(* An exception's report names the vector, its message and the instruction,    *)
(* with or without an error code from the processor.                         *)
THEOREM FaultReported == Spec => []FaultNamed
BY Invariant, FaultInv, PTL
==============================================================================
