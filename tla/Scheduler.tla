----------------------------- MODULE Scheduler ------------------------------
(***************************************************************************)
(* The gemOS scheduler of assignment 3 (schedule.c): the execution         *)
(* contexts, the timer tick, sleep, alarm, signal, clone and exit.  There  *)
(* is one CPU and a handler runs to completion, so each is one action.     *)
(* User data is left out, except for whether the registers saved for a     *)
(* context are the ones it had when it lost the CPU.  save_current_context *)
(* reads them at the top of the kernel stack, where a system call lays     *)
(* them out; a timer tick pushes them elsewhere in its own frame, so what  *)
(* a tick saves is taken to be wrong.  (rax, which no path saves, is not   *)
(* part of this.)                                                          *)
(***************************************************************************)
EXTENDS Integers

CONSTANTS
    MAX_PROCESSES,  \* size of the context table, swapper included
    Cloners,        \* pids whose code calls clone() (the init process only)
    MaxSleep,       \* bound on the argument of sleep()
    MaxAlarm,       \* bound on the argument of alarm()
    Signals,        \* SIGSEGV, SIGFPE and SIGALRM
    SIGALRM,
    Pfns            \* page frames for kernel stacks

ASSUME SchedAssumption ==
    /\ MAX_PROCESSES \in Nat
    /\ MAX_PROCESSES >= 2
    /\ MaxSleep \in Nat
    /\ MaxAlarm \in Nat
    /\ SIGALRM \in Signals

Pids == 0 .. MAX_PROCESSES - 1

VARIABLES
    current,            \* pid of the current context; 0 is the swapper
    state,
    ticks_to_sleep,
    alarm_config_time,
    ticks_to_alarm,
    sighandlers,        \* the signals each context has a handler for
    os_stack_pfn,
    free_pfns,
    regs_exact,         \* ctx->regs is the user state at the loss of the CPU
    alarm_age,          \* history: ticks since alarm() or the last SIGALRM
    system              \* "up"; "down" after do_cleanup; "null" after a NULL
                        \* dereference, "overrun" after a read past the table

timers == <<ticks_to_sleep, alarm_config_time, ticks_to_alarm, alarm_age>>
stacks == <<os_stack_pfn, free_pfns>>
vars == <<current, state, timers, sighandlers, stacks, regs_exact, system>>

Lowest(S) == CHOOSE p \in S : \A q \in S : p <= q

\* The boot code hands over with the swapper initialised and the init process,
\* pid 1, running.
Init ==
    /\ current = 1
    /\ state = [p \in Pids |-> IF p = 0 THEN "READY"
                             ELSE IF p = 1 THEN "RUNNING" ELSE "UNUSED"]
    /\ ticks_to_sleep = [p \in Pids |-> 0]
    /\ alarm_config_time = [p \in Pids |-> 0]
    /\ ticks_to_alarm = [p \in Pids |-> 0]
    /\ alarm_age = [p \in Pids |-> 0]
    /\ sighandlers = [p \in Pids |-> {}]
    /\ \E f \in Pfns :
          /\ os_stack_pfn = [p \in Pids |-> f]
          /\ free_pfns = Pfns \ {f}
    /\ regs_exact = [p \in Pids |-> TRUE]
    /\ system = "up"

\* Whether what save_current_context copies is exact depends on its caller.
save_current_context(exact) ==
    regs_exact' = IF current = 0 \/ state[current] = "UNUSED"
                  THEN regs_exact
                  ELSE [regs_exact EXCEPT ![current] = exact]

\* A system call by the running user context p.
Syscall(p) ==
    /\ system = "up"
    /\ current = p
    /\ p # 0

(***************************************************************************)
(* The timer tick.                                                         *)
(***************************************************************************)
\* Mutant: the test for a positive count is missing.
account_unguarded ==
    ticks_to_sleep' = [p \in Pids |->
        IF p # current THEN ticks_to_sleep[p] - 1 ELSE ticks_to_sleep[p]]

\* Mutant: sleep is not accounted while the swapper runs.
account_busy_only ==
    ticks_to_sleep' = [p \in Pids |->
        IF p # current /\ current # 0 /\ ticks_to_sleep[p] > 0
        THEN ticks_to_sleep[p] - 1 ELSE ticks_to_sleep[p]]

do_sleep_and_alarm_account ==
    ticks_to_sleep' = [p \in Pids |->
        IF p # current /\ ticks_to_sleep[p] > 0
        THEN ticks_to_sleep[p] - 1 ELSE ticks_to_sleep[p]]

AlarmExpires(p) == ticks_to_alarm[p] = 0 /\ alarm_config_time[p] > 0

\* Only the alarm of the current context is counted.  The signal itself is
\* delivered, or ignored, by invoke_sync_signal, which changes user state only.
CurrentAlarm ==
    /\ ticks_to_alarm' = [ticks_to_alarm EXCEPT ![current] =
          IF ticks_to_alarm[current] > 0 THEN ticks_to_alarm[current] - 1
          ELSE alarm_config_time[current]]
    /\ alarm_age' = [alarm_age EXCEPT ![current] =
          IF alarm_config_time[current] = 0 \/ AlarmExpires(current) THEN 0
          ELSE alarm_age[current] + 1]

\* Mutant: a tick also switches to a context that is merely ready.
ExpiredOrReady == {p \in Pids : /\ state[p] \in {"WAITING", "READY"}
                                /\ ticks_to_sleep'[p] = 0}

\* Mutant: the sleepers are looked at before the tick is accounted.
ExpiredBefore == {p \in Pids : state[p] = "WAITING" /\ ticks_to_sleep[p] = 0}

Expired == {p \in Pids : state[p] = "WAITING" /\ ticks_to_sleep'[p] = 0}

\* handle_timer_tick switches to the first context whose sleep is over, and
\* otherwise returns to the interrupted one.
handle_timer_tick ==
    /\ system = "up"
    /\ do_sleep_and_alarm_account
    /\ CurrentAlarm
    /\ IF Expired = {}
       THEN UNCHANGED <<current, state, regs_exact>>
       ELSE /\ save_current_context(FALSE)
            /\ state' = [state EXCEPT ![current] = "READY",
                                      ![Lowest(Expired)] = "RUNNING"]
            /\ current' = Lowest(Expired)
    /\ UNCHANGED <<alarm_config_time, sighandlers, stacks, system>>

(***************************************************************************)
(* exit, and the default action of SIGSEGV and SIGFPE.                     *)
(***************************************************************************)
Others(p) == {q \in Pids \ {0, p} : state[q] # "UNUSED"}

\* Mutant: the scan starts one entry too far.
pick_from_second(p) == {q \in Pids : q > p + 1 /\ state[q] = "READY"}

\* pick_next_context looks at the table upwards from the current pid and does
\* not wrap around: with no ready context above, it reads past the table.
pick_next_context(p) == {q \in Pids : q > p /\ state[q] = "READY"}

do_exit(p) ==
    LET others == Others(p)
        ready == pick_next_context(p)
    IN  /\ free_pfns' = free_pfns \cup {os_stack_pfn[p]}
        /\ IF others # {} /\ ready # {}
           THEN /\ state' = [state EXCEPT ![p] = "UNUSED",
                                          ![Lowest(ready)] = "RUNNING"]
                /\ current' = Lowest(ready)
           ELSE /\ state' = [state EXCEPT ![p] = "UNUSED"]
                /\ UNCHANGED current
        /\ system' = IF others = {} THEN "down"
                     ELSE IF ready = {} THEN "overrun" ELSE "up"
        /\ UNCHANGED <<timers, sighandlers, os_stack_pfn, regs_exact>>

SysExit(p) ==
    /\ Syscall(p)
    /\ do_exit(p)

\* A division by zero or a bad access: invoke_sync_signal either redirects the
\* user code to the handler or exits.
Fault(p, sig) ==
    /\ Syscall(p)
    /\ IF sig \in sighandlers[p]
       THEN UNCHANGED <<current, state, timers, sighandlers, stacks, regs_exact, system>>
       ELSE do_exit(p)

(***************************************************************************)
(* The other system calls.                                                 *)
(***************************************************************************)
\* The context is WAITING before it is saved, so the save is never skipped.
do_sleep(p, ticks) ==
    /\ Syscall(p)
    /\ ticks_to_sleep' = [ticks_to_sleep EXCEPT ![p] = ticks]
    /\ state' = [state EXCEPT ![p] = "WAITING", ![0] = "RUNNING"]
    /\ regs_exact' = [regs_exact EXCEPT ![p] = TRUE]
    /\ current' = 0
    /\ UNCHANGED <<alarm_config_time, ticks_to_alarm, alarm_age, sighandlers,
                   stacks, system>>

Unused == {q \in Pids : state[q] = "UNUSED"}

\* os_pfn_alloc, from how do_clone uses it: some free frame.
os_pfn_alloc(q) ==
    \E f \in free_pfns :
        /\ os_stack_pfn' = [os_stack_pfn EXCEPT ![q] = f]
        /\ free_pfns' = free_pfns \ {f}

\* Mutant: the new context keeps the kernel stack of its parent.
CloneSharesStack(q) ==
    /\ os_stack_pfn' = [os_stack_pfn EXCEPT ![q] = os_stack_pfn[current]]
    /\ ticks_to_sleep' = [ticks_to_sleep EXCEPT ![q] = 0]
    /\ alarm_config_time' = [alarm_config_time EXCEPT ![q] = 0]
    /\ ticks_to_alarm' = [ticks_to_alarm EXCEPT ![q] = 0]
    /\ alarm_age' = [alarm_age EXCEPT ![q] = 0]
    /\ regs_exact' = [regs_exact EXCEPT ![q] = TRUE]
    /\ state' = [state EXCEPT ![q] = "READY"]
    /\ UNCHANGED <<current, sighandlers, system, free_pfns>>

\* Mutant: the new context is marked as running.
CloneRunning(q) ==
    /\ os_pfn_alloc(q)
    /\ ticks_to_sleep' = [ticks_to_sleep EXCEPT ![q] = 0]
    /\ alarm_config_time' = [alarm_config_time EXCEPT ![q] = 0]
    /\ ticks_to_alarm' = [ticks_to_alarm EXCEPT ![q] = 0]
    /\ alarm_age' = [alarm_age EXCEPT ![q] = 0]
    /\ regs_exact' = [regs_exact EXCEPT ![q] = TRUE]
    /\ state' = [state EXCEPT ![q] = "RUNNING"]
    /\ UNCHANGED <<current, sighandlers, system>>

\* The entry that get_new_ctx returned is filled in; the handlers are left as
\* the last user of the entry had them.
CloneInto(q) ==
    /\ os_pfn_alloc(q)
    /\ ticks_to_sleep' = [ticks_to_sleep EXCEPT ![q] = 0]
    /\ alarm_config_time' = [alarm_config_time EXCEPT ![q] = 0]
    /\ ticks_to_alarm' = [ticks_to_alarm EXCEPT ![q] = 0]
    /\ alarm_age' = [alarm_age EXCEPT ![q] = 0]
    /\ regs_exact' = [regs_exact EXCEPT ![q] = TRUE]
    /\ state' = [state EXCEPT ![q] = "READY"]
    /\ UNCHANGED <<current, sighandlers, system>>

\* get_new_ctx returns some unused entry, or NULL when there is none, which
\* do_clone dereferences all the same.
do_clone(p) ==
    /\ Syscall(p)
    /\ p \in Cloners
    /\ \/ \E q \in Unused : CloneInto(q)
       \/ /\ Unused = {}
          /\ system' = "null"
          /\ UNCHANGED <<current, state, timers, sighandlers, stacks, regs_exact>>

\* signal(): a zero handler unregisters.
do_signal(p, sig, on) ==
    /\ Syscall(p)
    /\ sighandlers' = [sighandlers EXCEPT ![p] =
                          IF on THEN @ \cup {sig} ELSE @ \ {sig}]
    /\ UNCHANGED <<current, state, timers, stacks, regs_exact, system>>

\* Mutant: alarm() does not record the period.
do_alarm_once(p, ticks) ==
    /\ Syscall(p)
    /\ ticks_to_alarm' = [ticks_to_alarm EXCEPT ![p] = ticks]
    /\ alarm_age' = [alarm_age EXCEPT ![p] = 0]
    /\ UNCHANGED <<current, state, ticks_to_sleep, alarm_config_time, sighandlers,
                   stacks, regs_exact, system>>

do_alarm(p, ticks) ==
    /\ Syscall(p)
    /\ ticks_to_alarm' = [ticks_to_alarm EXCEPT ![p] = ticks]
    /\ alarm_config_time' = [alarm_config_time EXCEPT ![p] = ticks]
    /\ alarm_age' = [alarm_age EXCEPT ![p] = 0]
    /\ UNCHANGED <<current, state, ticks_to_sleep, sighandlers, stacks,
                   regs_exact, system>>

UserCall(p) ==
    \/ SysExit(p)
    \/ \E sig \in Signals \ {SIGALRM} : Fault(p, sig)
    \/ \E ticks \in 0 .. MaxSleep : do_sleep(p, ticks)
    \/ do_clone(p)
    \/ \E sig \in Signals, on \in BOOLEAN : do_signal(p, sig, on)
    \/ \E ticks \in 0 .. MaxAlarm : do_alarm(p, ticks)

Next ==
    \/ handle_timer_tick
    \/ \E p \in Pids : UserCall(p)

Spec == Init /\ [][Next]_vars

\* The APIC timer keeps interrupting; nothing is assumed of user code.
FairSpec == Spec /\ WF_vars(handle_timer_tick)

-----------------------------------------------------------------------------

\* Every variable has its type, and no countdown wraps below zero.
TypeOK ==
    /\ current \in Pids
    /\ state \in [Pids -> {"UNUSED", "READY", "RUNNING", "WAITING"}]
    /\ ticks_to_sleep \in [Pids -> 0 .. MaxSleep]
    /\ alarm_config_time \in [Pids -> 0 .. MaxAlarm]
    /\ ticks_to_alarm \in [Pids -> 0 .. MaxAlarm]
    /\ alarm_age \in [Pids -> Nat]
    /\ sighandlers \in [Pids -> SUBSET Signals]
    /\ os_stack_pfn \in [Pids -> Pfns]
    /\ free_pfns \subseteq Pfns
    /\ regs_exact \in [Pids -> BOOLEAN]
    /\ system \in {"up", "down", "null", "overrun"}

\* At most one context is between its first instruction and its exit, and it
\* is the one that runs or, while the swapper runs, the one that sleeps.
SingleActive ==
    \A p, q \in Pids \ {0} :
        state[p] \in {"RUNNING", "WAITING"} /\ state[q] \in {"RUNNING", "WAITING"}
            => p = q

\* A context that is to be resumed will be resumed with the registers it had
\* when it lost the CPU: the stale frame of a tick is never saved.
ResumeExact ==
    \A p \in Pids \ {0} : state[p] \in {"READY", "WAITING"} => regs_exact[p]

\* An exit that leaves other contexts alive finds one of them: the scan of
\* pick_next_context, which cannot wrap, never reads past the table.
NoOverrun == system # "overrun"

\* context.h: "Must be unique for every context", and not in the free pool.
StacksOwned ==
    \A p, q \in Pids \ {0} :
        state[p] # "UNUSED" /\ state[q] # "UNUSED" =>
            /\ os_stack_pfn[p] \notin free_pfns
            /\ os_stack_pfn[p] = os_stack_pfn[q] => p = q

\* The tick count of an alarm: what is left and what has passed add up to what
\* alarm() asked for, across sleeps and re-arming.
AlarmAccount ==
    \A p \in Pids :
        state[p] # "UNUSED" => ticks_to_alarm[p] + alarm_age[p] = alarm_config_time[p]

\* sleep(n) ends with the n-th tick, neither earlier nor later (with the first
\* one for n = 0).
SleepOnTime ==
    [][\A p \in Pids : state[p] = "WAITING" =>
          (state'[p] = "RUNNING" <=> ticks_to_sleep[p] <= 1)]_<<ticks_to_sleep, state>>

\* A sleeping context runs again.
SleeperWakes == \A p \in Pids : state[p] = "WAITING" ~> state[p] = "RUNNING"

\* The timer handler "should account timer ticks [...] and invoke schedule":
\* a context that is ready gets the CPU.
ReadyRuns == \A p \in Pids \ {0} : state[p] = "READY" ~> state[p] = "RUNNING"

=============================================================================
