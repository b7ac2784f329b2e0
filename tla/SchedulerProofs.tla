--------------------------- MODULE SchedulerProofs --------------------------
(***************************************************************************)
(* Proofs about Scheduler, for a context table of any size and any set of  *)
(* cloning contexts.  The argument turns on SchedInv: while a user context *)
(* has the CPU no other one sleeps, and while one sleeps the swapper has   *)
(* the CPU.  So a tick only ever takes the CPU from the swapper, whose     *)
(* registers are not saved.                                                *)
(***************************************************************************)
EXTENDS Scheduler, TLAPS, WellFoundedInduction

\* A scan of the table stops at a least element of what it looks for.
LEMMA LowestIn ==
    ASSUME NEW S, S \subseteq Pids, S # {}
    PROVE  /\ Lowest(S) \in S
           /\ \A q \in S : Lowest(S) <= q
<1> DEFINE R == OpToRel(<, Nat)
<1>1. IsWellFoundedOn(R, Nat)
  BY NatLessThanWellFounded, Zenon
<1>2. S \subseteq Nat
  BY SchedAssumption DEF Pids
<1> HIDE DEF R
<1>3. \E x \in S : \A y \in S : ~ (<<y, x>> \in R)
  BY <1>1, <1>2, WFMin, Zenon
<1>4. \A x, y \in Nat : y < x => <<y, x>> \in R
  BY Zenon DEF R, OpToRel
<1>5. \E x \in S : \A y \in S : x <= y
  <2>1. \A x, y \in S : ~(y < x) => x <= y
    BY <1>2
  <2> QED
    BY <1>2, <1>3, <1>4, <2>1, Zenon
<1> QED
  BY <1>5, Zenon DEF Lowest

\* The inductive invariant.
SchedInv ==
    /\ state[0] \in {"READY", "RUNNING"}
    /\ system = "up" => state[current] = "RUNNING"
    /\ \A p \in Pids \ {0} : state[p] = "RUNNING" => p = current
    /\ \A p \in Pids \ {0} : state[p] = "WAITING" => current = 0
    /\ \A p, q \in Pids \ {0} : state[p] = "WAITING" /\ state[q] = "WAITING" => p = q
    /\ ResumeExact

\* The boot state is well typed.
LEMMA TypeInit == Init => TypeOK
<1> SUFFICES ASSUME Init PROVE TypeOK
  BY Zenon
<1> PICK f \in Pfns : os_stack_pfn = [p \in Pids |-> f] /\ free_pfns = Pfns \ {f}
  BY Zenon DEF Init
<1> QED
  BY SchedAssumption DEF Init, TypeOK, Pids

\* What exit leaves alone, and what it may do to the rest.
LEMMA ExitEffect ==
    ASSUME TypeOK, NEW p \in Pids, do_exit(p)
    PROVE  \/ /\ state' = [state EXCEPT ![p] = "UNUSED"]
              /\ current' = current
              /\ system' \in {"down", "overrun"}
              /\ system' = "overrun" => /\ Others(p) # {}
                                        /\ pick_next_context(p) = {}
           \/ \E q \in pick_next_context(p) :
                 /\ state' = [state EXCEPT ![p] = "UNUSED", ![q] = "RUNNING"]
                 /\ current' = q
                 /\ system' = "up"
                 /\ \A r \in pick_next_context(p) : q <= r
<1>1. pick_next_context(p) \subseteq Pids
  BY Zenon DEF pick_next_context
<1>2. CASE Others(p) # {} /\ pick_next_context(p) # {}
  BY <1>1, <1>2, LowestIn, Zenon DEF do_exit
<1>3. CASE ~(Others(p) # {} /\ pick_next_context(p) # {})
  BY <1>3, Zenon DEF do_exit
<1> QED
  BY <1>2, <1>3, Zenon

\* What a tick does to the contexts: nothing, or the first sleeper whose ticks
\* are over gets the CPU.
LEMMA TickEffect ==
    ASSUME TypeOK, handle_timer_tick
    PROVE  \/ Expired = {} /\ UNCHANGED <<current, state, regs_exact>>
           \/ \E q \in Expired :
                 /\ save_current_context(FALSE)
                 /\ state' = [state EXCEPT ![current] = "READY", ![q] = "RUNNING"]
                 /\ current' = q
<1>1. Expired \subseteq Pids
  BY Zenon DEF Expired
<1>2. CASE Expired # {}
  BY <1>1, <1>2, LowestIn, Zenon DEF handle_timer_tick
<1>3. CASE Expired = {}
  BY <1>3, Zenon DEF handle_timer_tick
<1> QED
  BY <1>2, <1>3, Zenon

\* Every step keeps the state well typed.
LEMMA TypeNext == TypeOK /\ [Next]_vars => TypeOK'
<1> SUFFICES ASSUME TypeOK, [Next]_vars PROVE TypeOK'
  BY Zenon
<1> USE SchedAssumption
<1>1. CASE handle_timer_tick
  <2>1. /\ current' \in Pids
        /\ state' \in [Pids -> {"UNUSED", "READY", "RUNNING", "WAITING"}]
        /\ regs_exact' \in [Pids -> BOOLEAN]
    BY <1>1, TickEffect, ZenonT(30) DEF TypeOK, Expired, save_current_context
  <2>2. ticks_to_sleep' \in [Pids -> 0 .. MaxSleep]
    BY <1>1 DEF TypeOK, handle_timer_tick, do_sleep_and_alarm_account
  <2>3. /\ ticks_to_alarm' \in [Pids -> 0 .. MaxAlarm]
        /\ alarm_age' \in [Pids -> Nat]
    BY <1>1 DEF TypeOK, handle_timer_tick, CurrentAlarm
  <2> QED
    BY <1>1, <2>1, <2>2, <2>3, Zenon DEF TypeOK, handle_timer_tick, stacks
<1>2. ASSUME NEW p \in Pids, do_exit(p) PROVE TypeOK'
  <2>1. /\ current' \in Pids
        /\ state' \in [Pids -> {"UNUSED", "READY", "RUNNING", "WAITING"}]
        /\ system' \in {"up", "down", "null", "overrun"}
    BY <1>2, ExitEffect DEF TypeOK, pick_next_context
  <2> QED
    BY <1>2, <2>1 DEF TypeOK, do_exit, timers
<1>3. ASSUME NEW p \in Pids, UserCall(p) PROVE TypeOK'
  <2>1. CASE SysExit(p)
    BY <1>2, <2>1, Zenon DEF SysExit
  <2>2. ASSUME NEW sig \in Signals, Fault(p, sig) PROVE TypeOK'
    BY <1>2, <2>2, Zenon DEF Fault, TypeOK, timers, stacks
  <2>3. ASSUME NEW ticks \in 0 .. MaxSleep, do_sleep(p, ticks) PROVE TypeOK'
    <3>1. 0 \in Pids
      BY DEF Pids
    <3>2. /\ state' \in [Pids -> {"UNUSED", "READY", "RUNNING", "WAITING"}]
          /\ ticks_to_sleep' \in [Pids -> 0 .. MaxSleep]
          /\ regs_exact' \in [Pids -> BOOLEAN]
      BY <2>3, <3>1, Zenon DEF do_sleep, TypeOK
    <3> QED
      BY <2>3, <3>1, <3>2, Zenon DEF do_sleep, TypeOK, stacks
  <2>4. ASSUME NEW q \in Pids, CloneInto(q) PROVE TypeOK'
    BY <2>4 DEF CloneInto, os_pfn_alloc, TypeOK
  <2>5. CASE do_clone(p)
    BY <2>4, <2>5, Zenon DEF do_clone, Unused, TypeOK, timers, stacks
  <2>6. ASSUME NEW sig \in Signals, NEW on \in BOOLEAN, do_signal(p, sig, on)
        PROVE  TypeOK'
    BY <2>6, Zenon DEF do_signal, TypeOK, timers, stacks
  <2>7. ASSUME NEW ticks \in 0 .. MaxAlarm, do_alarm(p, ticks) PROVE TypeOK'
    BY <2>7, Zenon DEF do_alarm, TypeOK, stacks
  <2> QED
    BY <1>3, <2>1, <2>2, <2>3, <2>5, <2>6, <2>7, Zenon DEF UserCall
<1>4. CASE UNCHANGED vars
  BY <1>4, Zenon DEF vars, timers, stacks, TypeOK
<1> QED
  BY <1>1, <1>3, <1>4, Zenon DEF Next

\* The variables of schedule.c keep their types; the countdowns stay within
\* what sleep() and alarm() were asked for.
THEOREM TypeCorrect == Spec => []TypeOK
<1> QED
  BY TypeInit, TypeNext, PTL DEF Spec

-----------------------------------------------------------------------------
\* The boot state: init runs, nobody sleeps.
LEMMA SchedInit == Init => SchedInv
  BY SchedAssumption DEF Init, SchedInv, ResumeExact, Pids

\* Under the invariant a sleeper that wakes takes the CPU from the swapper.
LEMMA WakeFromSwapper ==
    ASSUME TypeOK, SchedInv, NEW q \in Expired
    PROVE  q \in Pids \ {0} /\ state[q] = "WAITING" /\ current = 0
  BY Zenon DEF Expired, SchedInv

\* Every step keeps the invariant.
LEMMA SchedNext == TypeOK /\ SchedInv /\ [Next]_vars => SchedInv'
<1> SUFFICES ASSUME TypeOK, SchedInv, [Next]_vars PROVE SchedInv'
  BY Zenon
<1>0. 0 \in Pids
  BY SchedAssumption DEF Pids
<1>1. CASE handle_timer_tick
  <2>1. CASE UNCHANGED <<current, state, regs_exact>>
    BY <1>1, <2>1, Zenon DEF handle_timer_tick, SchedInv, ResumeExact
  <2>2. ASSUME NEW q \in Expired, save_current_context(FALSE), current' = q,
               state' = [state EXCEPT ![current] = "READY", ![q] = "RUNNING"]
        PROVE  SchedInv'
    <3>1. q \in Pids \ {0} /\ state[q] = "WAITING" /\ current = 0
      BY WakeFromSwapper, Zenon
    <3>2. regs_exact' = regs_exact
      BY <2>2, <3>1, Zenon DEF save_current_context
    <3> QED
      BY <1>0, <2>2, <3>1, <3>2 DEF SchedInv, ResumeExact, TypeOK
  <2> QED
    BY <1>1, <2>1, <2>2, TickEffect, Zenon
<1>2. ASSUME NEW p \in Pids, Syscall(p), do_exit(p) PROVE SchedInv'
  <2>1. regs_exact' = regs_exact
    BY <1>2, Zenon DEF do_exit
  <2>2. CASE /\ state' = [state EXCEPT ![p] = "UNUSED"]
             /\ current' = current
             /\ system' \in {"down", "overrun"}
    BY <1>0, <1>2, <2>1, <2>2, Zenon DEF SchedInv, ResumeExact, TypeOK, Syscall
  <2>3. ASSUME NEW q \in pick_next_context(p), current' = q,
               state' = [state EXCEPT ![p] = "UNUSED", ![q] = "RUNNING"]
        PROVE  SchedInv'
    <3>1. q \in Pids \ {0} /\ q # p /\ state[q] = "READY" /\ p # 0
      BY <1>2, SchedAssumption DEF pick_next_context, Pids, Syscall
    <3> QED
      BY <1>0, <1>2, <2>1, <2>3, <3>1 DEF SchedInv, ResumeExact, TypeOK, Syscall
  <2> QED
    BY <1>2, <2>2, <2>3, ExitEffect, Zenon
<1>3. ASSUME NEW p \in Pids, UserCall(p) PROVE SchedInv'
  <2>1. CASE SysExit(p)
    BY <1>2, <2>1, Zenon DEF SysExit
  <2>2. ASSUME NEW sig \in Signals, Fault(p, sig) PROVE SchedInv'
    BY <1>2, <2>2, Zenon DEF Fault, SchedInv, ResumeExact
  <2>3. ASSUME NEW ticks \in 0 .. MaxSleep, do_sleep(p, ticks) PROVE SchedInv'
    BY <1>0, <2>3, Zenon DEF do_sleep, Syscall, SchedInv, ResumeExact, TypeOK
  <2>4. ASSUME NEW q \in Unused, CloneInto(q), Syscall(p) PROVE SchedInv'
    <3>1. q \in Pids \ {0, current} /\ state[q] = "UNUSED"
      BY <2>4, Zenon DEF Unused, SchedInv, Syscall
    <3> QED
      BY <1>0, <2>4, <3>1 DEF CloneInto, SchedInv, ResumeExact, TypeOK
  <2>5. CASE do_clone(p)
    BY <2>4, <2>5, Zenon DEF do_clone, SchedInv, ResumeExact
  <2>6. ASSUME NEW sig \in Signals, NEW on \in BOOLEAN, do_signal(p, sig, on)
        PROVE  SchedInv'
    BY <2>6, Zenon DEF do_signal, SchedInv, ResumeExact
  <2>7. ASSUME NEW ticks \in 0 .. MaxAlarm, do_alarm(p, ticks) PROVE SchedInv'
    BY <2>7, Zenon DEF do_alarm, SchedInv, ResumeExact
  <2> QED
    BY <1>3, <2>1, <2>2, <2>3, <2>5, <2>6, <2>7, Zenon DEF UserCall
<1>4. CASE UNCHANGED vars
  BY <1>4, Zenon DEF vars, SchedInv, ResumeExact
<1> QED
  BY <1>1, <1>3, <1>4, Zenon DEF Next

\* At most one user context is past its first instruction, whatever the
\* contexts do and however many of them clone.
THEOREM OneActive == Spec => []SingleActive
<1>1. SchedInv => SingleActive
  BY Zenon DEF SchedInv, SingleActive
<1> QED
  BY <1>1, TypeInit, TypeNext, SchedInit, SchedNext, PTL DEF Spec

\* schedule_context always resumes a context with the registers it had: the
\* frame that a tick would save wrongly is never saved.
THEOREM ResumesExactly == Spec => []ResumeExact
<1>1. SchedInv => ResumeExact
  BY Zenon DEF SchedInv
<1> QED
  BY <1>1, TypeInit, TypeNext, SchedInit, SchedNext, PTL DEF Spec

-----------------------------------------------------------------------------
\* Kernel stacks: exit gives back a frame that only the exiting context had.
LEMMA StacksNext ==
    TypeOK /\ SchedInv /\ StacksOwned /\ [Next]_vars => StacksOwned'
<1> SUFFICES ASSUME TypeOK, SchedInv, StacksOwned, [Next]_vars PROVE StacksOwned'
  BY Zenon
<1>1. CASE handle_timer_tick
  <2>1. UNCHANGED stacks
    BY <1>1, Zenon DEF handle_timer_tick
  <2>2. CASE UNCHANGED state
    BY <2>1, <2>2, Zenon DEF StacksOwned, stacks
  <2>3. ASSUME NEW q \in Expired,
               state' = [state EXCEPT ![current] = "READY", ![q] = "RUNNING"]
        PROVE  StacksOwned'
    BY <2>1, <2>3, WakeFromSwapper, Zenon DEF StacksOwned, stacks, TypeOK
  <2> QED
    BY <1>1, <2>2, <2>3, TickEffect, Zenon
<1>2. ASSUME NEW p \in Pids, Syscall(p), do_exit(p) PROVE StacksOwned'
  <2>1. p # 0 /\ state[p] = "RUNNING"
    BY <1>2, Zenon DEF Syscall, SchedInv
  <2>2. os_stack_pfn' = os_stack_pfn /\ free_pfns' = free_pfns \cup {os_stack_pfn[p]}
    BY <1>2, Zenon DEF do_exit
  <2>3. \A r \in Pids \ {0} : state'[r] # "UNUSED" => r # p /\ state[r] # "UNUSED"
    <3>1. CASE state' = [state EXCEPT ![p] = "UNUSED"]
      BY <2>1, <3>1, Zenon DEF TypeOK
    <3>2. ASSUME NEW q \in pick_next_context(p),
                 state' = [state EXCEPT ![p] = "UNUSED", ![q] = "RUNNING"]
          PROVE  \A r \in Pids \ {0} :
                     state'[r] # "UNUSED" => r # p /\ state[r] # "UNUSED"
      <4>1. q \in Pids /\ q # p /\ state[q] = "READY"
        BY <2>1, Zenon DEF pick_next_context
      <4> QED
        BY <3>2, <4>1, Zenon DEF TypeOK
    <3> QED
      BY <1>2, <3>1, <3>2, ExitEffect, Zenon
  <2> QED
    BY <2>1, <2>2, <2>3, Zenon DEF StacksOwned
<1>3. ASSUME NEW p \in Pids, UserCall(p) PROVE StacksOwned'
  <2>1. CASE SysExit(p)
    BY <1>2, <2>1, Zenon DEF SysExit
  <2>2. ASSUME NEW sig \in Signals, Fault(p, sig) PROVE StacksOwned'
    BY <1>2, <2>2, Zenon DEF Fault, StacksOwned, stacks
  <2>3. ASSUME NEW ticks \in 0 .. MaxSleep, do_sleep(p, ticks) PROVE StacksOwned'
    BY <2>3, Zenon DEF do_sleep, Syscall, SchedInv, StacksOwned, stacks, TypeOK
  <2>4. ASSUME NEW q \in Unused, CloneInto(q) PROVE StacksOwned'
    BY <2>4 DEF Unused, CloneInto, os_pfn_alloc, StacksOwned, TypeOK
  <2>5. CASE do_clone(p)
    BY <2>4, <2>5, Zenon DEF do_clone, StacksOwned, stacks
  <2>6. ASSUME NEW sig \in Signals, NEW on \in BOOLEAN, do_signal(p, sig, on)
        PROVE  StacksOwned'
    BY <2>6, Zenon DEF do_signal, StacksOwned, stacks
  <2>7. ASSUME NEW ticks \in 0 .. MaxAlarm, do_alarm(p, ticks) PROVE StacksOwned'
    BY <2>7, Zenon DEF do_alarm, StacksOwned, stacks
  <2> QED
    BY <1>3, <2>1, <2>2, <2>3, <2>5, <2>6, <2>7, Zenon DEF UserCall
<1>4. CASE UNCHANGED vars
  BY <1>4, Zenon DEF vars, stacks, StacksOwned
<1> QED
  BY <1>1, <1>3, <1>4, Zenon DEF Next

\* context.h's "Must be unique for every context", through any sequence of
\* clones and exits; a freed frame belongs to no live context.
THEOREM StacksUnique == Spec => []StacksOwned
<1>1. Init => StacksOwned
  BY SchedAssumption DEF Init, StacksOwned, Pids
<1> QED
  BY <1>1, StacksNext, TypeInit, TypeNext, SchedInit, SchedNext, PTL DEF Spec

-----------------------------------------------------------------------------
\* Alarm counting: only a tick, a clone or alarm() touches the counters.
LEMMA AlarmNext ==
    TypeOK /\ SchedInv /\ AlarmAccount /\ [Next]_vars => AlarmAccount'
<1> SUFFICES ASSUME TypeOK, SchedInv, AlarmAccount, [Next]_vars PROVE AlarmAccount'
  OBVIOUS
<1> DEFINE counters == <<ticks_to_alarm, alarm_config_time, alarm_age>>
<1>a. ASSUME UNCHANGED counters,
             \A r \in Pids : state'[r] # "UNUSED" => state[r] # "UNUSED"
      PROVE  AlarmAccount'
  BY <1>a, Zenon DEF AlarmAccount
<1>1. CASE handle_timer_tick
  <2>1. \A r \in Pids : state'[r] # "UNUSED" => state[r] # "UNUSED"
    <3>1. state[current] # "UNUSED"
      BY <1>1, Zenon DEF handle_timer_tick, SchedInv
    <3> QED
      BY <1>1, <3>1, TickEffect, Zenon DEF Expired, TypeOK
  <2> QED
    BY <1>1, <2>1, SchedAssumption
    DEF handle_timer_tick, CurrentAlarm, AlarmExpires, AlarmAccount, TypeOK
<1>2. ASSUME NEW p \in Pids, do_exit(p) PROVE AlarmAccount'
  <2>1. UNCHANGED counters
    BY <1>2, Zenon DEF do_exit, timers
  <2>2. \A r \in Pids : state'[r] # "UNUSED" => state[r] # "UNUSED"
    BY <1>2, ExitEffect, Zenon DEF TypeOK, pick_next_context
  <2> QED
    BY <1>a, <2>1, <2>2, Zenon
<1>3. ASSUME NEW p \in Pids, UserCall(p) PROVE AlarmAccount'
  <2>1. CASE SysExit(p)
    BY <1>2, <2>1, Zenon DEF SysExit
  <2>2. ASSUME NEW sig \in Signals, Fault(p, sig) PROVE AlarmAccount'
    BY <1>2, <2>2, Zenon DEF Fault, AlarmAccount, timers
  <2>3. ASSUME NEW ticks \in 0 .. MaxSleep, do_sleep(p, ticks) PROVE AlarmAccount'
    <3>1. UNCHANGED counters
      BY <2>3, Zenon DEF do_sleep
    <3>2. \A r \in Pids : state'[r] # "UNUSED" => state[r] # "UNUSED"
      BY <2>3, Zenon DEF do_sleep, Syscall, SchedInv, TypeOK
    <3> QED
      BY <1>a, <3>1, <3>2, Zenon
  <2>4. ASSUME NEW q \in Unused, CloneInto(q) PROVE AlarmAccount'
    BY <2>4 DEF Unused, CloneInto, AlarmAccount, TypeOK
  <2>5. CASE do_clone(p)
    BY <2>4, <2>5, Zenon DEF do_clone, AlarmAccount, timers
  <2>6. ASSUME NEW sig \in Signals, NEW on \in BOOLEAN, do_signal(p, sig, on)
        PROVE  AlarmAccount'
    BY <2>6, Zenon DEF do_signal, AlarmAccount, timers
  <2>7. ASSUME NEW ticks \in 0 .. MaxAlarm, do_alarm(p, ticks) PROVE AlarmAccount'
    BY <2>7, SchedAssumption DEF do_alarm, AlarmAccount, TypeOK
  <2> QED
    BY <1>3, <2>1, <2>2, <2>3, <2>5, <2>6, <2>7 DEF UserCall
<1>4. CASE UNCHANGED vars
  BY <1>4, Zenon DEF vars, timers, AlarmAccount
<1> QED
  BY <1>1, <1>3, <1>4 DEF Next

\* No tick of an alarm is lost or counted twice while its context has the CPU.
THEOREM AlarmsAddUp == Spec => []AlarmAccount
<1>1. Init => AlarmAccount
  BY DEF Init, AlarmAccount
<1> QED
  BY <1>1, AlarmNext, TypeInit, TypeNext, SchedInit, SchedNext, PTL DEF Spec

-----------------------------------------------------------------------------
\* With the swapper running, a tick counts down every sleeper.
LEMMA SleepStep ==
    TypeOK /\ SchedInv /\ [Next]_vars =>
        [\A p \in Pids : state[p] = "WAITING" =>
            (state'[p] = "RUNNING" <=> ticks_to_sleep[p] <= 1)]_<<ticks_to_sleep, state>>
<1> SUFFICES ASSUME TypeOK, SchedInv, [Next]_vars,
                    ~ UNCHANGED <<ticks_to_sleep, state>>,
                    NEW p \in Pids, state[p] = "WAITING"
             PROVE  state'[p] = "RUNNING" <=> ticks_to_sleep[p] <= 1
  BY Zenon
<1>1. p # 0 /\ current = 0
  BY Zenon DEF SchedInv
<1>2. handle_timer_tick
  BY <1>1, Zenon DEF Next, UserCall, SysExit, Fault, do_sleep, do_clone, do_signal,
              do_alarm, Syscall, vars, timers
<1>3. p \in Expired <=> ticks_to_sleep[p] <= 1
  BY <1>1, <1>2, SchedAssumption
  DEF handle_timer_tick, do_sleep_and_alarm_account, Expired, TypeOK
<1>4. CASE Expired = {} /\ UNCHANGED state
  BY <1>3, <1>4, Zenon
<1>5. ASSUME NEW q \in Expired,
             state' = [state EXCEPT ![current] = "READY", ![q] = "RUNNING"]
      PROVE  state'[p] = "RUNNING" <=> ticks_to_sleep[p] <= 1
  <2>1. q = p
    BY <1>1, WakeFromSwapper, Zenon DEF SchedInv
  <2> QED
    BY <1>3, <1>5, <2>1, Zenon DEF TypeOK
<1> QED
  BY <1>2, <1>4, <1>5, TickEffect, Zenon

\* sleep(n) takes exactly n ticks: no other sleeper delays a wake-up.
THEOREM SleepsOnTime == Spec => SleepOnTime
<1> QED
  BY SleepStep, TypeInit, TypeNext, SchedInit, SchedNext, PTL DEF Spec, SleepOnTime

-----------------------------------------------------------------------------
\* Only the init process clones: the assumption of the assignment.
InitClones == Cloners \subseteq {1}

\* The active context has the least pid of all live ones, so the upward scan of
\* pick_next_context passes over every other one.
ActiveLowest ==
    /\ NoOverrun
    /\ \A p, q \in Pids \ {0} :
           state[p] \in {"RUNNING", "WAITING"} /\ state[q] # "UNUSED" => p <= q

\* An exit with other contexts alive finds one of them.
LEMMA ExitFinds ==
    ASSUME TypeOK, SchedInv, ActiveLowest, NEW p \in Pids, Syscall(p)
    PROVE  Others(p) \subseteq pick_next_context(p)
<1> SUFFICES ASSUME NEW q \in Others(p) PROVE q \in pick_next_context(p)
  BY Zenon
<1>1. q \in Pids \ {0, p} /\ state[q] # "UNUSED"
  BY Zenon DEF Others
<1>2. state[p] = "RUNNING" /\ current = p /\ p # 0
  BY Zenon DEF Syscall, SchedInv
<1>3. p <= q
  BY <1>1, <1>2, Zenon DEF ActiveLowest
<1>4. state[q] = "READY"
  BY <1>1, <1>2, Zenon DEF SchedInv, TypeOK
<1> QED
  BY <1>1, <1>3, <1>4, SchedAssumption DEF pick_next_context, Pids

\* Every step keeps the order, if init alone clones.
LEMMA LowestNext ==
    ASSUME InitClones
    PROVE  TypeOK /\ SchedInv /\ ActiveLowest /\ [Next]_vars => ActiveLowest'
<1> SUFFICES ASSUME TypeOK, SchedInv, ActiveLowest, [Next]_vars PROVE ActiveLowest'
  BY Zenon
<1>0. 0 \in Pids /\ Pids \subseteq Nat
  BY SchedAssumption DEF Pids
<1>1. CASE handle_timer_tick
  <2>1. UNCHANGED system
    BY <1>1, Zenon DEF handle_timer_tick
  <2>2. CASE UNCHANGED state
    BY <2>1, <2>2, Zenon DEF ActiveLowest, NoOverrun
  <2>3. ASSUME NEW q \in Expired,
               state' = [state EXCEPT ![current] = "READY", ![q] = "RUNNING"]
        PROVE  ActiveLowest'
    BY <1>0, <2>1, <2>3, WakeFromSwapper, Zenon DEF ActiveLowest, NoOverrun, TypeOK
  <2> QED
    BY <1>1, <2>2, <2>3, TickEffect, Zenon
<1>2. ASSUME NEW p \in Pids, Syscall(p), do_exit(p) PROVE ActiveLowest'
  <2>1. Others(p) \subseteq pick_next_context(p)
    BY <1>2, ExitFinds, Zenon
  <2>2. CASE /\ state' = [state EXCEPT ![p] = "UNUSED"]
             /\ system' = "overrun" => /\ Others(p) # {}
                                       /\ pick_next_context(p) = {}
    BY <2>1, <2>2, Zenon DEF ActiveLowest, NoOverrun, TypeOK
  <2>3. ASSUME NEW q \in pick_next_context(p), system' = "up",
               state' = [state EXCEPT ![p] = "UNUSED", ![q] = "RUNNING"],
               \A r \in pick_next_context(p) : q <= r
        PROVE  ActiveLowest'
    <3>1. q \in Pids /\ q # p /\ q # 0
      BY <1>0, <1>2 DEF pick_next_context, Syscall
    <3>2. \A r \in Pids \ {0} : state'[r] # "UNUSED" => r \in pick_next_context(p)
      BY <2>1, <2>3, <3>1, Zenon DEF Others, TypeOK
    <3>3. \A r \in Pids \ {0} : state'[r] \in {"RUNNING", "WAITING"} => r = q
      BY <1>2, <2>3, <3>1, Zenon DEF SchedInv, Syscall, TypeOK
    <3> QED
      BY <2>3, <3>2, <3>3, Zenon DEF ActiveLowest, NoOverrun
  <2> QED
    BY <1>2, <2>2, <2>3, ExitEffect, Zenon
<1>3. ASSUME NEW p \in Pids, UserCall(p) PROVE ActiveLowest'
  <2>1. CASE SysExit(p)
    BY <1>2, <2>1, Zenon DEF SysExit
  <2>2. ASSUME NEW sig \in Signals, Fault(p, sig) PROVE ActiveLowest'
    BY <1>2, <2>2, Zenon DEF Fault, ActiveLowest, NoOverrun
  <2>3. ASSUME NEW ticks \in 0 .. MaxSleep, do_sleep(p, ticks) PROVE ActiveLowest'
    BY <1>0, <2>3, Zenon DEF do_sleep, Syscall, SchedInv, ActiveLowest, NoOverrun, TypeOK
  <2>4. ASSUME NEW q \in Unused, CloneInto(q), Syscall(p), p = 1 PROVE ActiveLowest'
    <3>1. \A r \in Pids \ {0} : state[r] \in {"RUNNING", "WAITING"} => r = 1
      BY <2>4, Zenon DEF SchedInv, Syscall
    <3>2. \A r \in Pids \ {0} : 1 <= r
      BY <1>0
    <3> QED
      BY <2>4, <3>1, <3>2 DEF Unused, CloneInto, ActiveLowest, NoOverrun, TypeOK
  <2>5. CASE do_clone(p)
    BY <2>4, <2>5, Zenon DEF do_clone, InitClones, ActiveLowest, NoOverrun
  <2>6. ASSUME NEW sig \in Signals, NEW on \in BOOLEAN, do_signal(p, sig, on)
        PROVE  ActiveLowest'
    BY <2>6, Zenon DEF do_signal, ActiveLowest, NoOverrun
  <2>7. ASSUME NEW ticks \in 0 .. MaxAlarm, do_alarm(p, ticks) PROVE ActiveLowest'
    BY <2>7, Zenon DEF do_alarm, ActiveLowest, NoOverrun
  <2> QED
    BY <1>3, <2>1, <2>2, <2>3, <2>5, <2>6, <2>7, Zenon DEF UserCall
<1>4. CASE UNCHANGED vars
  BY <1>4, Zenon DEF vars, ActiveLowest, NoOverrun
<1> QED
  BY <1>1, <1>3, <1>4, Zenon DEF Next

\* While only init clones, pick_next_context stays inside the context table,
\* although its scan adds the pid to an index that already spans the table.
THEOREM ExitInTable ==
    ASSUME InitClones
    PROVE  Spec => []NoOverrun
<1>1. Init => ActiveLowest
  BY SchedAssumption DEF Init, ActiveLowest, NoOverrun, Pids
<1>2. ActiveLowest => NoOverrun
  BY Zenon DEF ActiveLowest
<1>3. TypeOK /\ SchedInv /\ ActiveLowest /\ [Next]_vars => ActiveLowest'
  BY LowestNext, Zenon
<1> QED
  BY <1>1, <1>2, <1>3, TypeInit, TypeNext, SchedInit, SchedNext, PTL DEF Spec
=============================================================================
