-------------------------------- MODULE Wrr --------------------------------
(***************************************************************************)
(* Weighted round robin of Lab 2 (Task 2.1): scheduler() and the rest of   *)
(* kernel/proc.c, the timer path of kernel/trap.c, and setpriority.        *)
(*                                                                         *)
(* Every CPU loops over the process table.  A process's lock is held from  *)
(* the moment the scheduler finds it RUNNABLE until the process, switched  *)
(* to, releases it; and from the moment the process gives up the CPU until *)
(* the scheduler, switched back to, releases it.  The critical sections    *)
(* that do not span a switch are one action.                               *)
(***************************************************************************)
EXTENDS Integers, FiniteSets

CONSTANTS NPROC,             \* size of the process table
          CPU,               \* the CPUs
          DEFAULT_PRIORITY, MAX_PRIORITY,
          None               \* no process, no CPU

ASSUME WrrAssumption ==
  /\ NPROC \in Nat \ {0}
  /\ DEFAULT_PRIORITY \in Nat /\ MAX_PRIORITY \in Nat
  /\ 1 <= DEFAULT_PRIORITY /\ DEFAULT_PRIORITY <= MAX_PRIORITY
  /\ None \notin CPU /\ None \notin 1 .. NPROC

Proc == 1 .. NPROC
initproc == 1

VARIABLES state, priority, ticks,   \* the fields of struct proc
          lock,       \* the CPU that holds p->lock across a switch, or None
          cpu,        \* pc of each CPU, c->proc, and the scheduler's p and found
          ran,        \* history: timer ticks a RUNNING process has had since it was
                      \*   dispatched or last called setpriority
          watch,      \* history: a process, and while it stays RUNNABLE,
          passed      \*   the dispatches <<CPU, process>> it has waited through

vars == <<state, priority, ticks, lock, cpu, ran, watch, passed>>

\* A CPU at pc with c->proc, the scheduler's p and its found.
Cpu(pc, proc, p, found) == [pc |-> pc, proc |-> proc, p |-> p, found |-> found]

\* After userinit: the first process is RUNNABLE, every CPU in scheduler().
Init ==
  /\ state = [p \in Proc |-> IF p = initproc THEN "RUNNABLE" ELSE "UNUSED"]
  /\ priority = [p \in Proc |-> IF p = initproc THEN DEFAULT_PRIORITY ELSE 0]
  /\ ticks = [p \in Proc |-> 0]
  /\ lock = [p \in Proc |-> None]
  /\ cpu = [c \in CPU |-> Cpu("scan", None, 1, FALSE)]
  /\ ran = [p \in Proc |-> 0]
  /\ watch \in Proc
  /\ passed = {}

\* What the watched process has waited through, after a step that makes the
\* states st and in which the CPUs and processes ds are dispatched.
Watched(st, ds) == IF st[watch] = "RUNNABLE" THEN passed \cup ds ELSE {}

-----------------------------------------------------------------------------
(* scheduler(): one action per iteration over the table *)

\* Mutants: the scan starts over after a process has run; it leaves out the
\* last entry of the table.
AdvanceRestart(r) ==
  IF r.found THEN Cpu("scan", None, 1, FALSE)
  ELSE IF r.p = NPROC THEN Cpu("wfi", None, 1, FALSE)
  ELSE Cpu("scan", None, r.p + 1, r.found)

AdvanceShort(r) ==
  IF r.p >= NPROC - 1 THEN Cpu(IF r.found THEN "scan" ELSE "wfi", None, 1, FALSE)
  ELSE Cpu("scan", None, r.p + 1, r.found)

\* The next entry of the table, or the end of the scan.
Advance(r) ==
  IF r.p = NPROC THEN Cpu(IF r.found THEN "scan" ELSE "wfi", None, 1, FALSE)
  ELSE Cpu("scan", None, r.p + 1, r.found)

\* The process at hand is not RUNNABLE.
skip(c) ==
  /\ cpu[c].pc = "scan"
  /\ lock[cpu[c].p] = None /\ state[cpu[c].p] # "RUNNABLE"
  /\ cpu' = [cpu EXCEPT ![c] = Advance(@)]
  /\ UNCHANGED <<state, priority, ticks, lock, ran, watch, passed>>

dispatch(c) ==
  LET p == cpu[c].p
  IN  /\ cpu[c].pc = "scan"
      /\ lock[p] = None /\ state[p] = "RUNNABLE"
      /\ ticks' = [ticks EXCEPT ![p] = priority[p]]
      /\ state' = [state EXCEPT ![p] = "RUNNING"]
      /\ cpu' = [cpu EXCEPT ![c] = Cpu("start", p, p, cpu[c].found)]
      /\ lock' = [lock EXCEPT ![p] = c]
      /\ passed' = Watched(state', {<<c, p>>})
      /\ UNCHANGED <<priority, ran, watch>>

\* The process, back in yield or sleep or new in forkret, releases its lock.
start(c) ==
  /\ cpu[c].pc = "start"
  /\ lock' = [lock EXCEPT ![cpu[c].proc] = None]
  /\ cpu' = [cpu EXCEPT ![c].pc = "run"]
  /\ UNCHANGED <<state, priority, ticks, ran, watch, passed>>

\* The scheduler, back from the process, releases the lock and goes on.
back(c) ==
  /\ cpu[c].pc = "back"
  /\ lock' = [lock EXCEPT ![cpu[c].proc] = None]
  /\ cpu' = [cpu EXCEPT ![c] = Advance(Cpu("back", None, cpu[c].p, TRUE))]
  /\ UNCHANGED <<state, priority, ticks, ran, watch, passed>>

\* A CPU that found nothing to run waits for an interrupt.
interrupt(c) ==
  /\ cpu[c].pc = "wfi"
  /\ cpu' = [cpu EXCEPT ![c].pc = "scan"]
  /\ UNCHANGED <<state, priority, ticks, lock, ran, watch, passed>>

-----------------------------------------------------------------------------
(* The running process *)

\* p gives up CPU c in state st, holding its lock: yield, sleep, exit.
Leave(c, st) ==
  LET p == cpu[c].proc
  IN  /\ lock[p] = None
      /\ state' = [state EXCEPT ![p] = st]
      /\ lock' = [lock EXCEPT ![p] = c]
      /\ cpu' = [cpu EXCEPT ![c].pc = "back"]
      /\ ran' = [ran EXCEPT ![p] = 0]
      /\ passed' = Watched(state', {})

\* Mutant: one tick too late.
QuantumUsedLate(p, t) == t > priority[p]

QuantumUsed(p, t) == t >= priority[p]

\* The timer interrupt in usertrap and kerneltrap, which treat it alike: the
\* process on a CPU that takes interrupts is RUNNING.
timer(c) ==
  LET p == cpu[c].proc
      t == ticks[p] + 1
  IN  /\ cpu[c].pc = "run"
      /\ \/ /\ QuantumUsed(p, t)
            /\ ticks' = [ticks EXCEPT ![p] = 0]
            /\ Leave(c, "RUNNABLE")
         \/ /\ ~QuantumUsed(p, t)
            /\ ticks' = [ticks EXCEPT ![p] = t]
            /\ ran' = [ran EXCEPT ![p] = @ + 1]
            /\ UNCHANGED <<state, lock, cpu, passed>>
      /\ UNCHANGED <<priority, watch>>

\* Mutant: the argument is not checked.
SetUnchecked(c, n) ==
  /\ cpu[c].pc = "run" /\ lock[cpu[c].proc] = None
  /\ priority' = [priority EXCEPT ![cpu[c].proc] = n]
  /\ ticks' = [ticks EXCEPT ![cpu[c].proc] = 0]
  /\ ran' = [ran EXCEPT ![cpu[c].proc] = 0]
  /\ UNCHANGED <<state, lock, cpu, watch, passed>>

\* n outside 1 .. MAX_PRIORITY is refused.
sys_setpriority(c, n) ==
  LET p == cpu[c].proc
  IN  /\ cpu[c].pc = "run" /\ lock[p] = None
      /\ 1 <= n /\ n <= MAX_PRIORITY
      /\ priority' = [priority EXCEPT ![p] = n]
      /\ ticks' = [ticks EXCEPT ![p] = 0]
      /\ ran' = [ran EXCEPT ![p] = 0]
      /\ UNCHANGED <<state, lock, cpu, watch, passed>>

\* The slot of a new process: the first that is UNUSED.  When memory runs out,
\* allocproc and fork free it again.
allocproc(np) == state[np] = "UNUSED" /\ \A q \in Proc : q < np => state[q] # "UNUSED"

\* The child inherits the priority.
fork(c) ==
  /\ cpu[c].pc = "run"
  /\ \E np \in Proc :
       /\ allocproc(np)
       /\ state' = [state EXCEPT ![np] = "RUNNABLE"]
       /\ priority' = [priority EXCEPT ![np] = priority[cpu[c].proc]]
       /\ ticks' = [ticks EXCEPT ![np] = 0]
  /\ UNCHANGED <<lock, cpu, ran, watch, passed>>

sleep(c) ==
  /\ cpu[c].pc = "run"
  /\ Leave(c, "SLEEPING")
  /\ UNCHANGED <<priority, ticks, watch>>

\* From acquire(&p->lock) on; the wakeups of exit are wakeup steps before it.
exit(c) ==
  /\ cpu[c].pc = "run" /\ cpu[c].proc # initproc
  /\ Leave(c, "ZOMBIE")
  /\ UNCHANGED <<priority, ticks, watch>>

\* p->priority and p->ticks stay.
freeproc(p) == state' = [state EXCEPT ![p] = "UNUSED"] /\ UNCHANGED <<priority, ticks>>

\* Some process waits for p.
wait(p) ==
  /\ state[p] = "ZOMBIE" /\ lock[p] = None
  /\ freeproc(p)
  /\ UNCHANGED <<lock, cpu, ran, watch, passed>>

\* A wakeup or a kill.
wakeup(p) ==
  /\ state[p] = "SLEEPING" /\ lock[p] = None
  /\ state' = [state EXCEPT ![p] = "RUNNABLE"]
  /\ UNCHANGED <<priority, ticks, lock, cpu, ran, watch, passed>>

\* The steps a CPU takes by itself, and those its process may choose to take.
CpuStep(c) == skip(c) \/ dispatch(c) \/ start(c) \/ back(c) \/ interrupt(c) \/ timer(c)

Next ==
  \/ \E c \in CPU : CpuStep(c) \/ fork(c) \/ sleep(c) \/ exit(c)
  \/ \E c \in CPU, n \in 0 .. (MAX_PRIORITY + 1) : sys_setpriority(c, n)
  \/ \E p \in Proc : wait(p) \/ wakeup(p)

Spec == Init /\ [][Next]_vars

\* Every CPU runs, and its timer keeps interrupting it.
FairSpec == Spec /\ \A c \in CPU : WF_vars(CpuStep(c))

-----------------------------------------------------------------------------
(* Properties. *)

\* Types; ticks stays within 0 .. MAX_PRIORITY.
TypeOK ==
  /\ state \in [Proc -> {"UNUSED", "RUNNABLE", "RUNNING", "SLEEPING", "ZOMBIE"}]
  /\ priority \in [Proc -> 0 .. MAX_PRIORITY]
  /\ ticks \in [Proc -> 0 .. MAX_PRIORITY]
  /\ lock \in [Proc -> CPU \cup {None}]
  /\ cpu \in [CPU -> [pc : {"scan", "start", "run", "back", "wfi"},
                      proc : Proc \cup {None}, p : Proc, found : BOOLEAN]]
  /\ ran \in [Proc -> Nat]
  /\ watch \in Proc
  /\ passed \subseteq CPU \X Proc

\* A process runs at most priority ticks at a stretch, counted from its dispatch
\* or its last setpriority.
QuantumIsBounded == \A p \in Proc : state[p] = "RUNNING" => ran[p] < priority[p]

\* Round robin: while a process waits RUNNABLE, no CPU gives any other process
\* a second turn, whatever the priorities.
NoSecondTurn ==
  [][\A c \in CPU : dispatch(c) => <<c, cpu[c].p>> \notin passed]_vars

\* A RUNNABLE process gets the CPU, unless setpriority is called over and over:
\* each call gives the caller a new quantum, so that it may never be preempted.
NoStarvation ==
  <>[][\A c \in CPU, n \in 1 .. MAX_PRIORITY : ~sys_setpriority(c, n)]_vars
    => \A p \in Proc : (state[p] = "RUNNABLE") ~> (state[p] = "RUNNING")

\* "Preempt only when quantum is consumed." (trap.c): the timer takes the CPU
\* away from a process that has run for as many ticks as its priority.
PreemptOnlyWhenQuantumConsumed ==
  [][\A c \in CPU : timer(c) /\ cpu'[c].pc = "back"
                     => ran[cpu[c].proc] + 1 >= priority[cpu[c].proc]]_vars
=============================================================================
