------------------------------ MODULE Lottery ------------------------------
(***************************************************************************)
(* Lottery scheduling of Lab 2 (Task 2.2): scheduler() of kernel/proc.c,   *)
(* rand32, settickets, and the rest of proc.c as far as it moves processes *)
(* between states.                                                         *)
(*                                                                         *)
(* Every CPU adds up the tickets of the RUNNABLE processes in a first pass *)
(* over the table, draws a ticket, and looks for its owner in a second     *)
(* pass.  No lock is held from one process to the next: the other CPUs go  *)
(* on meanwhile.  Locks across a switch are as in the Wrr module.  int and *)
(* uint have the same number of bits and wrap around, as the generated     *)
(* code does.                                                              *)
(***************************************************************************)
EXTENDS Integers, FiniteSets

CONSTANTS NPROC,      \* size of the process table
          CPU,        \* the CPUs
          None,       \* no process, no CPU
          Half,       \* INT_MAX + 1 (2^31): half as many values as an int has
          Default,    \* tickets of a new process (10)
          Tickets     \* arguments of settickets

\* The process table has an entry, a new process a ticket, and settickets an int.
ConstantsOK ==
  /\ NPROC \in Nat \ {0}
  /\ None \notin CPU /\ None \notin 1 .. NPROC
  /\ Half \in Nat /\ Half >= 2
  /\ Default \in 1 .. (Half - 1)
  /\ Tickets \subseteq -Half .. (Half - 1)

ASSUME LotteryAssumption == ConstantsOK

Proc == 1 .. NPROC
initproc == 1

VARIABLES state, tickets,   \* the fields of struct proc
          lock,    \* the CPU that holds p->lock across a switch, or None
          cpu,     \* pc of each CPU, c->proc, and the locals of scheduler()
          calm     \* history: the CPUs that saw no process become or cease to be
                   \*   RUNNABLE since they began to add up

vars == <<state, tickets, lock, cpu, calm>>

uint(x) == x % (2 * Half)

\* rand32() drops one bit; the remainder by zero is the dividend.
Draws(total) ==
  {IF uint(total) = 0 THEN r ELSE r % uint(total) : r \in 0 .. (Half - 1)}

\* A CPU in one of the passes of scheduler(), and one with process p.
Scan(pc, p, found, total, winner, prefix) ==
  [pc |-> pc, proc |-> None, p |-> p, found |-> found, total |-> total,
   winner |-> winner, prefix |-> prefix]

Runs(pc, p) == [pc |-> pc, proc |-> p, p |-> 1, found |-> FALSE, total |-> 0,
                winner |-> 0, prefix |-> 0]

\* At the top of the loop.
Top == Scan("sum", 1, FALSE, 0, 0, 0)

Wfi == Scan("wfi", 1, FALSE, 0, 0, 0)

Init ==
  /\ state = [p \in Proc |-> IF p = initproc THEN "RUNNABLE" ELSE "UNUSED"]
  /\ tickets = [p \in Proc |-> IF p = initproc THEN Default ELSE 0]
  /\ lock = [p \in Proc |-> None]
  /\ cpu = [c \in CPU |-> Top]
  /\ calm = CPU

\* t, the tickets a RUNNABLE process takes part with.
Weight(p) == IF tickets[p] < 1 THEN 1 ELSE tickets[p]

-----------------------------------------------------------------------------
(* scheduler() *)

\* One iteration of the first pass; after the last one, nothing to run or a draw.
add_up(c) ==
  LET r == cpu[c]
      runnable == state[r.p] = "RUNNABLE"
      found == r.found \/ runnable
      total == IF runnable THEN uint(r.total + Weight(r.p)) ELSE r.total
  IN  /\ r.pc = "sum" /\ lock[r.p] = None
      /\ \/ /\ r.p < NPROC
            /\ cpu' = [cpu EXCEPT ![c] = Scan("sum", r.p + 1, found, total, 0, 0)]
         \/ /\ r.p = NPROC /\ ~found
            /\ cpu' = [cpu EXCEPT ![c] = Wfi]
         \/ /\ r.p = NPROC /\ found
            /\ \E w \in Draws(total) :
                 cpu' = [cpu EXCEPT ![c] = Scan("pick", 1, FALSE, total, w, 0)]
      /\ calm' = IF r.p = 1 THEN calm \cup {c} ELSE calm
      /\ UNCHANGED <<state, tickets, lock>>

\* Mutants: the test is too generous; too strict.
WinsBeyond(r) == r.winner < uint(r.prefix + Weight(r.p) + 1)
WinsShort(r) == r.winner < uint(r.prefix + Weight(r.p) - 2)

\* The test of the second pass.
Wins(r) == r.winner < uint(r.prefix + Weight(r.p) - 1)

\* One iteration of the second pass that does not find the winner.
pass_over(c) ==
  LET r == cpu[c]
      runnable == state[r.p] = "RUNNABLE"
  IN  /\ r.pc = "pick" /\ lock[r.p] = None
      /\ ~(runnable /\ Wins(r))
      /\ cpu' = [cpu EXCEPT ![c] =
           IF r.p = NPROC THEN Wfi
           ELSE Scan("pick", r.p + 1, FALSE, r.total, r.winner,
                     IF runnable THEN uint(r.prefix + Weight(r.p)) ELSE r.prefix)]
      /\ UNCHANGED <<state, tickets, lock, calm>>

dispatch(c) ==
  LET r == cpu[c]
  IN  /\ r.pc = "pick" /\ lock[r.p] = None
      /\ state[r.p] = "RUNNABLE" /\ Wins(r)
      /\ state' = [state EXCEPT ![r.p] = "RUNNING"]
      /\ lock' = [lock EXCEPT ![r.p] = c]
      /\ cpu' = [cpu EXCEPT ![c] = Runs("start", r.p)]
      /\ calm' = {}
      /\ UNCHANGED tickets

\* The process, back in yield or sleep or new in forkret, releases its lock.
start(c) ==
  /\ cpu[c].pc = "start"
  /\ lock' = [lock EXCEPT ![cpu[c].proc] = None]
  /\ cpu' = [cpu EXCEPT ![c].pc = "run"]
  /\ UNCHANGED <<state, tickets, calm>>

\* The scheduler, back from the process, releases the lock and starts over.
back(c) ==
  /\ cpu[c].pc = "back"
  /\ lock' = [lock EXCEPT ![cpu[c].proc] = None]
  /\ cpu' = [cpu EXCEPT ![c] = Top]
  /\ UNCHANGED <<state, tickets, calm>>

\* A CPU that has scheduled nothing waits for an interrupt.
interrupt(c) ==
  /\ cpu[c].pc = "wfi"
  /\ cpu' = [cpu EXCEPT ![c] = Top]
  /\ UNCHANGED <<state, tickets, lock, calm>>

-----------------------------------------------------------------------------
(* The running process *)

\* Mutant: the lock is not held across the switch.
LeaveUnlocked(c, st) ==
  /\ cpu[c].pc = "run" /\ lock[cpu[c].proc] = None
  /\ state' = [state EXCEPT ![cpu[c].proc] = st]
  /\ cpu' = [cpu EXCEPT ![c].pc = "back"]
  /\ calm' = {}
  /\ UNCHANGED <<tickets, lock>>

\* The process on CPU c gives it up in state st, holding its lock.
Leave(c, st) ==
  LET p == cpu[c].proc
  IN  /\ cpu[c].pc = "run" /\ lock[p] = None
      /\ state' = [state EXCEPT ![p] = st]
      /\ lock' = [lock EXCEPT ![p] = c]
      /\ cpu' = [cpu EXCEPT ![c].pc = "back"]
      /\ calm' = {}
      /\ UNCHANGED tickets

\* On every timer interrupt.
yield(c) == Leave(c, "RUNNABLE")

sleep(c) == Leave(c, "SLEEPING")

\* From acquire(&p->lock) on; the wakeups of exit are wakeup steps before it.
exit(c) == cpu[c].proc # initproc /\ Leave(c, "ZOMBIE")

\* Mutant: the argument is not checked.
SetUnchecked(c, n) ==
  /\ cpu[c].pc = "run" /\ lock[cpu[c].proc] = None
  /\ tickets' = [tickets EXCEPT ![cpu[c].proc] = n]
  /\ UNCHANGED <<state, lock, cpu, calm>>

\* n < 1 is refused.
sys_settickets(c, n) ==
  /\ cpu[c].pc = "run" /\ lock[cpu[c].proc] = None
  /\ n >= 1
  /\ tickets' = [tickets EXCEPT ![cpu[c].proc] = n]
  /\ UNCHANGED <<state, lock, cpu, calm>>

\* The slot of a new process: the first that is UNUSED.  When memory runs out,
\* allocproc and fork free it again.
allocproc(np) == state[np] = "UNUSED" /\ \A q \in Proc : q < np => state[q] # "UNUSED"

\* The child inherits the tickets.
fork(c) ==
  /\ cpu[c].pc = "run"
  /\ \E np \in Proc :
       /\ allocproc(np)
       /\ state' = [state EXCEPT ![np] = "RUNNABLE"]
       /\ tickets' = [tickets EXCEPT ![np] = tickets[cpu[c].proc]]
  /\ calm' = {}
  /\ UNCHANGED <<lock, cpu>>

\* p->tickets stays.
freeproc(p) == state' = [state EXCEPT ![p] = "UNUSED"] /\ UNCHANGED tickets

\* Some process waits for p.
wait(p) ==
  /\ state[p] = "ZOMBIE" /\ lock[p] = None
  /\ freeproc(p)
  /\ UNCHANGED <<lock, cpu, calm>>

\* A wakeup or a kill.
wakeup(p) ==
  /\ state[p] = "SLEEPING" /\ lock[p] = None
  /\ state' = [state EXCEPT ![p] = "RUNNABLE"]
  /\ calm' = {}
  /\ UNCHANGED <<tickets, lock, cpu>>

Next ==
  \/ \E c \in CPU :
       \/ add_up(c) \/ pass_over(c) \/ dispatch(c) \/ start(c) \/ back(c) \/ interrupt(c)
       \/ yield(c) \/ sleep(c) \/ exit(c) \/ fork(c)
  \/ \E c \in CPU, n \in Tickets : sys_settickets(c, n)
  \/ \E p \in Proc : wait(p) \/ wakeup(p)

Spec == Init /\ [][Next]_vars

-----------------------------------------------------------------------------
(* Properties. *)

\* Types; a process of the table has a ticket, so the floor of one ticket in
\* scheduler() is never needed.
TypeOK ==
  /\ state \in [Proc -> {"UNUSED", "RUNNABLE", "RUNNING", "SLEEPING", "ZOMBIE"}]
  /\ tickets \in [Proc -> Nat]
  /\ \A p \in Proc : state[p] # "UNUSED" => tickets[p] >= 1
  /\ lock \in [Proc -> CPU \cup {None}]
  /\ cpu \in [CPU -> [pc : {"sum", "pick", "start", "run", "back", "wfi"},
                      proc : Proc \cup {None}, p : Proc, found : BOOLEAN,
                      total : 0 .. (2 * Half - 1), winner : 0 .. (Half - 1),
                      prefix : 0 .. (2 * Half - 1)]]
  /\ calm \subseteq CPU

\* A process is on one CPU at a time, and it is RUNNING exactly while that CPU
\* executes it: of two CPUs whose draws fall on the same process one gets it.
RunningIsOnItsCpu ==
  /\ \A c, d \in CPU : cpu[c].proc = cpu[d].proc /\ cpu[c].proc # None => c = d
  /\ \A p \in Proc : state[p] = "RUNNING" <=>
       \E c \in CPU : cpu[c].proc = p /\ cpu[c].pc \in {"start", "run"}

\* The process that scheduler() dispatches holds the ticket after the one drawn,
\* counted over the processes of its second pass, even when the sum of the
\* first pass has overflown or other CPUs have changed the table since.
DispatchHoldsNextTicket ==
  [][\A c \in CPU : dispatch(c) =>
       LET r == cpu[c]
       IN  r.prefix <= r.winner + 1 /\ r.winner + 1 < r.prefix + tickets[r.p]]_vars

\* A draw finds nobody only for the last ticket, or when a process has become
\* or ceased to be RUNNABLE since scheduler() began to add up.
WastedOnlyOnLastTicket ==
  [][\A c \in CPU : pass_over(c) /\ cpu'[c].pc = "wfi" /\ c \in calm
       => cpu[c].winner + 1 = cpu[c].total]_vars

\* edit_info.txt of Task 2.2: the scheduler "selects the one whose ticket range
\* contains `winner`".
DispatchHoldsWinner ==
  [][\A c \in CPU : dispatch(c) =>
       LET r == cpu[c]
       IN  r.prefix <= r.winner /\ r.winner < r.prefix + tickets[r.p]]_vars
=============================================================================
