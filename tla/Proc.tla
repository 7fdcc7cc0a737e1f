-------------------------------- MODULE Proc --------------------------------
(***************************************************************************)
(* The process table of kernel/proc.c (Task 3.1; those of Tasks 2.1 and    *)
(* 2.2 have the same functions): fork, exit, wait, kill, and pause with    *)
(* the clock.                                                              *)
(*                                                                         *)
(* wait_lock protects the parents, and is held from the scan of kwait to   *)
(* the moment the caller is SLEEPING; tickslock does the same for pause    *)
(* and the clock; p->lock protects the rest.  What is done under one of    *)
(* them is an action.  RUNNABLE and RUNNING are one state here (Wrr and    *)
(* Lottery tell them apart).                                               *)
(***************************************************************************)
EXTENDS Integers, FiniteSets

CONSTANTS NPROC,    \* size of the process table
          MaxPid,   \* bound on the pids that allocpid hands out
          MaxPause, \* bound on the ticks that pause is asked for
          Pauser    \* bound: the processes that call pause

ASSUME ProcAssumption ==
  /\ NPROC \in Nat \ {0} /\ MaxPid \in Nat \ {0} /\ MaxPause \in Nat
  /\ Pauser \subseteq 1 .. NPROC

Proc == 1 .. NPROC
initproc == 1

VARIABLES state, parent, pid, killed,   \* the fields of struct proc
          aim,        \* history: the pid that the kill which set killed was given
          nextpid,
          wait_lock, tickslock,  \* who holds it between two actions, or 0
          left,       \* the ticks a pause has still to wait: n - (ticks - ticks0)
          pc,         \* where a process is in which call
          np          \* the child that a kfork is making

vars == <<state, parent, pid, killed, aim, nextpid, wait_lock, tickslock, left, pc, np>>
clock == <<tickslock, left>>

\* After userinit; process 0 is none.
Init ==
  /\ state = [p \in Proc |-> IF p = initproc THEN "RUNNABLE" ELSE "UNUSED"]
  /\ parent = [p \in Proc |-> 0]
  /\ pid = [p \in Proc |-> IF p = initproc THEN 1 ELSE 0]
  /\ killed = [p \in Proc |-> 0] /\ aim = [p \in Proc |-> 0]
  /\ nextpid = 2
  /\ wait_lock = 0 /\ tickslock = 0
  /\ left = [p \in Proc |-> 0]
  /\ pc = [p \in Proc |-> "user"]
  /\ np = [p \in Proc |-> 0]

At(p, at) == state[p] = "RUNNABLE" /\ pc[p] = at

\* usertrap: who was killed makes no further call.
Enters(p) == At(p, "user") /\ killed[p] = 0

Goto(p, at) == pc' = [pc EXCEPT ![p] = at]

Children(p) == {c \in Proc : parent[c] = p}
Zombies(p) == {c \in Children(p) : state[c] = "ZOMBIE"}

\* What p sleeps on, if it does: &ticks, here 0, in pause, and itself in kwait.
Chan(p) == IF pc[p] = "pause" THEN 0 ELSE p

\* The states after the wakeups of the channels in C.
wakeup(C) ==
  [p \in Proc |-> IF state[p] = "SLEEPING" /\ Chan(p) \in C THEN "RUNNABLE" ELSE state[p]]

-----------------------------------------------------------------------------
(* kfork *)

\* The slot allocproc takes: the first UNUSED one.
allocproc(c) == state[c] = "UNUSED" /\ \A q \in Proc : q < c => state[q] # "UNUSED"

\* allocproc and the copy of the parent, under the lock of the new process.
\* When memory runs out the slot is UNUSED again and only the pid is spent.
kfork(p) ==
  /\ Enters(p) /\ nextpid <= MaxPid
  /\ \E c \in Proc :
       /\ allocproc(c)
       /\ nextpid' = nextpid + 1
       /\ \/ /\ state' = [state EXCEPT ![c] = "USED"]
             /\ pid' = [pid EXCEPT ![c] = nextpid]
             /\ np' = [np EXCEPT ![p] = c]
             /\ Goto(p, "fork_parent")
             /\ UNCHANGED <<killed, aim>>
          \/ /\ killed' = [killed EXCEPT ![c] = 0] /\ aim' = [aim EXCEPT ![c] = 0]
             /\ UNCHANGED <<state, pid, np, pc>>
  /\ UNCHANGED <<parent, wait_lock, clock>>

fork_parent(p) ==
  /\ At(p, "fork_parent") /\ wait_lock = 0
  /\ parent' = [parent EXCEPT ![np[p]] = p]
  /\ Goto(p, "fork_run")
  /\ UNCHANGED <<state, pid, killed, aim, nextpid, wait_lock, np, clock>>

fork_run(p) ==
  /\ At(p, "fork_run")
  /\ state' = [state EXCEPT ![np[p]] = "RUNNABLE"]
  /\ np' = [np EXCEPT ![p] = 0]
  /\ Goto(p, "user")
  /\ UNCHANGED <<parent, pid, killed, aim, nextpid, wait_lock, clock>>

-----------------------------------------------------------------------------
(* kexit *)

\* Mutant: the children stay with p.
ReparentNothing(p) == parent

\* The parents once p's children are given to init.
reparent(p) == [c \in Proc |-> IF parent[c] = p THEN initproc ELSE parent[c]]

\* Mutant: init is not woken for the children it is given.
WokenParent(p) == {parent[p]}

\* The channels that kexit and reparent wake.
Woken(p) == {parent[p]} \cup (IF Children(p) = {} THEN {} ELSE {initproc})

\* From acquire(&wait_lock) on.  usertrap calls it, too, for a process that was
\* killed.
kexit(p) ==
  /\ At(p, "user") /\ wait_lock = 0 /\ p # initproc
  /\ parent' = reparent(p)
  /\ state' = [wakeup(Woken(p)) EXCEPT ![p] = "ZOMBIE"]
  /\ UNCHANGED <<pid, killed, aim, nextpid, wait_lock, pc, np, clock>>

-----------------------------------------------------------------------------
(* kwait *)

\* Mutant: killed is not reset.
FreeprocKilled(c) ==
  /\ state' = [state EXCEPT ![c] = "UNUSED"]
  /\ pid' = [pid EXCEPT ![c] = 0]
  /\ parent' = [parent EXCEPT ![c] = 0]
  /\ UNCHANGED <<killed, aim>>

freeproc(c) ==
  /\ state' = [state EXCEPT ![c] = "UNUSED"]
  /\ pid' = [pid EXCEPT ![c] = 0]
  /\ parent' = [parent EXCEPT ![c] = 0]
  /\ killed' = [killed EXCEPT ![c] = 0] /\ aim' = [aim EXCEPT ![c] = 0]

sys_wait(p) ==
  /\ Enters(p)
  /\ Goto(p, "wait")
  /\ UNCHANGED <<state, parent, pid, killed, aim, nextpid, wait_lock, np, clock>>

\* One round of the loop, at the call or after a wakeup.  The first ZOMBIE child
\* is freed, unless copyout of its status fails (init asks for none); without
\* children, or killed, the caller returns; else it will sleep.
kwait(p) ==
  /\ At(p, "wait") /\ wait_lock = 0
  /\ \/ /\ Zombies(p) # {}
        /\ \/ /\ \E c \in Zombies(p) : (\A d \in Zombies(p) : c <= d) /\ freeproc(c)
              /\ Goto(p, "user")
           \/ /\ p # initproc
              /\ Goto(p, "user")
              /\ UNCHANGED <<state, pid, parent, killed, aim>>
        /\ UNCHANGED wait_lock
     \/ /\ Zombies(p) = {} /\ (Children(p) = {} \/ killed[p] = 1)
        /\ Goto(p, "user")
        /\ UNCHANGED <<state, pid, parent, killed, aim, wait_lock>>
     \/ /\ Zombies(p) = {} /\ Children(p) # {} /\ killed[p] = 0
        /\ wait_lock' = p
        /\ Goto(p, "wait_sleep")
        /\ UNCHANGED <<state, pid, parent, killed, aim>>
  /\ UNCHANGED <<nextpid, np, clock>>

\* Mutant: the lock is kept.
ReleaseNot(p) == p

\* release(lk) in sleep.
release(p) == 0

\* sleep(p, &wait_lock).
wait_sleep(p) ==
  /\ At(p, "wait_sleep")
  /\ state' = [state EXCEPT ![p] = "SLEEPING"]
  /\ wait_lock' = release(p)
  /\ Goto(p, "wait")
  /\ UNCHANGED <<parent, pid, killed, aim, nextpid, np, clock>>

-----------------------------------------------------------------------------
(* sys_pause and the clock *)

\* The test of the loop, with n ticks left, under tickslock.
PauseTry(p, n) ==
  /\ tickslock = 0
  /\ \/ /\ n = 0 \/ killed[p] = 1
        /\ left' = [left EXCEPT ![p] = 0]
        /\ Goto(p, "user")
        /\ UNCHANGED tickslock
     \/ /\ n > 0 /\ killed[p] = 0
        /\ left' = [left EXCEPT ![p] = n]
        /\ tickslock' = p
        /\ Goto(p, "pause_sleep")
  /\ UNCHANGED <<state, parent, pid, killed, aim, nextpid, wait_lock, np>>

\* (n < 0 is taken for 0.)
sys_pause(p, n) == Enters(p) /\ p \in Pauser /\ PauseTry(p, n)

pause_again(p) == At(p, "pause") /\ PauseTry(p, left[p])

\* sleep(&ticks, &tickslock).
pause_sleep(p) ==
  /\ At(p, "pause_sleep")
  /\ state' = [state EXCEPT ![p] = "SLEEPING"]
  /\ tickslock' = release(p)
  /\ Goto(p, "pause")
  /\ UNCHANGED <<parent, pid, killed, aim, nextpid, wait_lock, left, np>>

\* Mutant: the tick does not wake anyone.
TickWakes == {}

\* The channel that clockintr wakes.
TickChan == {0}

\* ticks++ and wakeup(&ticks).
clockintr ==
  /\ tickslock = 0
  /\ left' = [p \in Proc |-> IF left[p] > 0 THEN left[p] - 1 ELSE 0]
  /\ state' = wakeup(TickChan)
  /\ UNCHANGED <<parent, pid, killed, aim, nextpid, wait_lock, tickslock, pc, np>>

-----------------------------------------------------------------------------
\* q kills the first process with pid n: not init, whose end is a panic.  A slot
\* that is UNUSED has pid 0, and is no less marked than the others.
kkill(q, n) ==
  /\ Enters(q)
  /\ \E p \in Proc \ {initproc} :
       /\ pid[p] = n /\ \A r \in Proc : r < p => pid[r] # n
       /\ killed' = [killed EXCEPT ![p] = 1] /\ aim' = [aim EXCEPT ![p] = n]
       /\ state' = [state EXCEPT ![p] = IF @ = "SLEEPING" THEN "RUNNABLE" ELSE @]
  /\ UNCHANGED <<parent, pid, nextpid, wait_lock, pc, np, clock>>

Next ==
  \/ clockintr
  \/ \E p \in Proc :
       \/ kfork(p) \/ fork_parent(p) \/ fork_run(p) \/ kexit(p)
       \/ sys_wait(p) \/ kwait(p) \/ wait_sleep(p)
       \/ pause_again(p) \/ pause_sleep(p)
       \/ \E n \in 0 .. MaxPid : kkill(p, n)
       \/ \E n \in 0 .. MaxPause : sys_pause(p, n)

Spec == Init /\ [][Next]_vars

\* init, once it has no more to do, waits for children for ever, and goes on with
\* the call it is in; so does who holds wait_lock or pauses.
FairSpec ==
  /\ Spec
  /\ \A p \in Proc : WF_vars(wait_sleep(p))
  /\ WF_vars(fork_parent(initproc)) /\ WF_vars(fork_run(initproc))
  /\ SF_vars(kwait(initproc)) /\ SF_vars(sys_wait(initproc))
  /\ \A p \in Pauser : WF_vars(pause_sleep(p)) /\ SF_vars(pause_again(p))
  /\ SF_vars(clockintr)

-----------------------------------------------------------------------------
(* Properties. *)

\* Types; wait_lock is held exactly between the scan of kwait and its sleep.
TypeOK ==
  /\ state \in [Proc -> {"UNUSED", "USED", "RUNNABLE", "SLEEPING", "ZOMBIE"}]
  /\ parent \in [Proc -> 0 .. NPROC]
  /\ pid \in [Proc -> 0 .. MaxPid]
  /\ killed \in [Proc -> {0, 1}] /\ aim \in [Proc -> 0 .. MaxPid]
  /\ nextpid \in 1 .. (MaxPid + 1)
  /\ left \in [Proc -> 0 .. MaxPause]
  /\ pc \in [Proc -> {"user", "fork_parent", "fork_run", "wait", "wait_sleep", "pause", "pause_sleep"}]
  /\ np \in [Proc -> 0 .. NPROC]
  /\ {p \in Proc : pc[p] = "wait_sleep"} = {wait_lock} \ {0}
  /\ {p \in Proc : pc[p] = "pause_sleep"} = {tickslock} \ {0}

\* Every process but init has a parent that can still wait for it: one that has
\* exited, or whose slot is UNUSED or was given to another, is no one's parent.
ParentsAreAlive ==
  /\ \A c \in Proc : parent[c] # 0 =>
       state[parent[c]] \in {"RUNNABLE", "SLEEPING"} /\ state[c] # "UNUSED"
  /\ \A c \in Proc \ {initproc} : state[c] \in {"RUNNABLE", "SLEEPING", "ZOMBIE"} => parent[c] # 0

\* No lost wakeup: a process that sleeps in kwait has children and none of them
\* is a ZOMBIE, although children exit, and init is given new ones, at any time;
\* one that sleeps in pause has ticks left to wait, whatever the clock did
\* between its test and its sleep.
SleepersHaveCause ==
  \A p \in Proc : state[p] = "SLEEPING" =>
    \/ pc[p] = "wait" /\ Children(p) # {} /\ Zombies(p) = {}
    \/ pc[p] = "pause" /\ left[p] > 0

\* A kill reaches no process but the one whose pid it names: a slot comes back
\* from freeproc without pid, parent or kill, even when the kill came after the
\* exit.  The exception is kill(0), which names the UNUSED slots: allocproc does
\* not reset killed, and the next process in the slot is born killed.
FreshSlots ==
  \A p \in Proc : /\ state[p] = "UNUSED" => pid[p] = 0 /\ parent[p] = 0
                  /\ killed[p] = 1 => aim[p] \in {0, pid[p]}

\* A ZOMBIE whose parent is init, from the beginning or by reparent, is freed.
InitReaps ==
  \A c \in Proc \ {initproc} : (state[c] = "ZOMBIE" /\ parent[c] = initproc) ~> (state[c] = "UNUSED")

\* A pause ends, by the clock or by a kill, even one that comes between the test
\* of killed(p) and the sleep and wakes nobody.
PauseEnds ==
  \A p \in Pauser : pc[p] \in {"pause", "pause_sleep"} ~> pc[p] = "user"
=============================================================================
