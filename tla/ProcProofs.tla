----------------------------- MODULE ProcProofs -----------------------------
(***************************************************************************)
(* Proofs about Proc, for process tables and bounds of any size.           *)
(***************************************************************************)
EXTENDS Proc, TLAPS

Alive(p) == state[p] \in {"RUNNABLE", "SLEEPING"}

\* A process makes at most one child at a time, and no two make the same.
ForkInv ==
  /\ \A p \in Proc : np[p] = 0 \/ pc[p] \in {"fork_parent", "fork_run"}
  /\ \A p \in Proc : pc[p] = "fork_parent" =>
       np[p] \in Proc /\ state[np[p]] = "USED" /\ parent[np[p]] = 0
  /\ \A p \in Proc : pc[p] = "fork_run" =>
       np[p] \in Proc /\ state[np[p]] = "USED" /\ parent[np[p]] = p
  /\ \A p, q \in Proc : np[p] = np[q] /\ np[p] # 0 => p = q
  /\ \A c \in Proc : state[c] = "USED" /\ parent[c] # 0 => np[parent[c]] = c

\* Who is in a call can run or sleeps in it; init is always there.
CallInv ==
  /\ \A p \in Proc : pc[p] # "user" => Alive(p)
  /\ Alive(initproc) /\ parent[initproc] = 0

\* The cause that a process found, under the lock, is still there when it comes
\* to sleep.
CauseInv ==
  /\ \A p \in Proc : pc[p] = "wait_sleep" => Children(p) # {} /\ Zombies(p) = {}
  /\ \A p \in Proc : pc[p] = "pause_sleep" => left[p] > 0

IInv == TypeOK /\ ForkInv /\ CallInv /\ ParentsAreAlive /\ CauseInv /\ SleepersHaveCause /\ FreshSlots

\* Who the children of a process are.
LEMMA ChildrenFacts ==
  ASSUME NEW p \in Proc
  PROVE  /\ Children(p) = {} <=> \A c \in Proc : parent[c] # p
         /\ Zombies(p) = {} <=> \A c \in Proc : ~ (parent[c] = p /\ state[c] = "ZOMBIE")
         /\ Children(p)' = {} <=> \A c \in Proc : parent'[c] # p
         /\ Zombies(p)' = {} <=> \A c \in Proc : ~ (parent'[c] = p /\ state'[c] = "ZOMBIE")
BY Zenon DEF Children, Zombies

\* A process keeps its cause for waiting in a step that takes no child from it and
\* makes none of its children a ZOMBIE.
LEMMA CauseStays ==
  ASSUME NEW q \in Proc, Children(q) # {}, Zombies(q) = {},
         \A c \in Proc : parent[c] = q => parent'[c] = q,
         \A c \in Proc : parent'[c] = q /\ state'[c] = "ZOMBIE" => parent[c] = q /\ state[c] = "ZOMBIE"
  PROVE  Children(q)' # {} /\ Zombies(q)' = {}
BY ChildrenFacts, Zenon

\* Process 0 is none, and init is a process.
LEMMA ProcFacts == Proc \subseteq Nat /\ 0 \notin Proc /\ initproc \in Proc /\ 0 .. NPROC = Proc \cup {0}
BY ProcAssumption DEF Proc, initproc
-----------------------------------------------------------------------------
(* Types. *)

\* The states after a wakeup.
LEMMA WakeupType ==
  ASSUME TypeOK, NEW C
  PROVE  wakeup(C) \in [Proc -> {"UNUSED", "USED", "RUNNABLE", "SLEEPING", "ZOMBIE"}]
BY Zenon DEF wakeup, TypeOK

\* Moves that neither come to nor leave the points where a lock is held.
LEMMA GotoType ==
  ASSUME TypeOK, NEW p \in Proc, NEW at \in {"user", "fork_parent", "fork_run", "wait"}, Goto(p, at),
         pc[p] \notin {"wait_sleep", "pause_sleep"}
  PROVE  /\ pc' \in [Proc -> {"user", "fork_parent", "fork_run", "wait", "wait_sleep", "pause", "pause_sleep"}]
         /\ {q \in Proc : pc'[q] = "wait_sleep"} = {q \in Proc : pc[q] = "wait_sleep"}
         /\ {q \in Proc : pc'[q] = "pause_sleep"} = {q \in Proc : pc[q] = "pause_sleep"}
BY ZenonT(30) DEF Goto, TypeOK

\* Every step of every process, and of the clock, keeps the types.
LEMMA TypeStep == TypeOK /\ [Next]_vars => TypeOK'
<1> SUFFICES ASSUME TypeOK, [Next]_vars PROVE TypeOK'
  BY Zenon
<1> USE ProcAssumption, ProcFacts
<1>1. CASE UNCHANGED vars
  BY <1>1 DEF TypeOK, vars
<1>2. ASSUME clockintr PROVE TypeOK'
  BY <1>2, WakeupType DEF clockintr, TypeOK
<1>3. ASSUME NEW p \in Proc, kfork(p) PROVE TypeOK'
  <2>1. PICK c \in Proc :
          /\ nextpid' = nextpid + 1
          /\ \/ /\ state' = [state EXCEPT ![c] = "USED"] /\ pid' = [pid EXCEPT ![c] = nextpid]
                /\ np' = [np EXCEPT ![p] = c] /\ Goto(p, "fork_parent") /\ UNCHANGED <<killed, aim>>
             \/ /\ killed' = [killed EXCEPT ![c] = 0] /\ aim' = [aim EXCEPT ![c] = 0]
                /\ UNCHANGED <<state, pid, np, pc>>
    BY <1>3, Zenon DEF kfork
  <2>2. /\ nextpid <= MaxPid /\ pc[p] = "user"
        /\ UNCHANGED <<parent, wait_lock, tickslock, left>>
    BY <1>3, Zenon DEF kfork, Enters, At, clock
  <2>3. CASE /\ killed' = [killed EXCEPT ![c] = 0] /\ aim' = [aim EXCEPT ![c] = 0]
             /\ UNCHANGED <<state, pid, np, pc>>
    BY <2>1, <2>2, <2>3 DEF TypeOK
  <2>4. CASE /\ state' = [state EXCEPT ![c] = "USED"] /\ pid' = [pid EXCEPT ![c] = nextpid]
             /\ np' = [np EXCEPT ![p] = c] /\ Goto(p, "fork_parent") /\ UNCHANGED <<killed, aim>>
    <3>1. nextpid \in 0 .. MaxPid /\ nextpid' \in 1 .. (MaxPid + 1) /\ c \in 0 .. NPROC
      BY <2>1, <2>2 DEF TypeOK
    <3>2. /\ state' \in [Proc -> {"UNUSED", "USED", "RUNNABLE", "SLEEPING", "ZOMBIE"}]
          /\ pid' \in [Proc -> 0 .. MaxPid] /\ killed' \in [Proc -> {0, 1}]
          /\ aim' \in [Proc -> 0 .. MaxPid]
          /\ np' \in [Proc -> 0 .. NPROC]
      BY <2>4, <3>1, Zenon DEF TypeOK
    <3> QED
      BY <2>2, <2>4, <3>1, <3>2, GotoType, Zenon DEF TypeOK
  <2> QED
    BY <2>1, <2>3, <2>4, Zenon
<1>4. ASSUME NEW p \in Proc, fork_parent(p) PROVE TypeOK'
  <2>1. Goto(p, "fork_run") /\ pc[p] = "fork_parent"
    BY <1>4, Zenon DEF fork_parent, At
  <2> QED
    BY <1>4, <2>1, GotoType, Zenon DEF fork_parent, TypeOK, clock
<1>5. ASSUME NEW p \in Proc, fork_run(p) PROVE TypeOK'
  <2>1. Goto(p, "user") /\ pc[p] = "fork_run"
    BY <1>5, Zenon DEF fork_run, At
  <2>2. /\ state' = [state EXCEPT ![np[p]] = "RUNNABLE"] /\ np' = [np EXCEPT ![p] = 0]
        /\ UNCHANGED <<parent, pid, killed, aim, nextpid, wait_lock, tickslock, left>>
    BY <1>5, Zenon DEF fork_run, clock
  <2> QED
    BY <2>1, <2>2, GotoType, Zenon DEF TypeOK
<1>6. ASSUME NEW p \in Proc, kexit(p) PROVE TypeOK'
  BY <1>6, WakeupType DEF kexit, reparent, TypeOK, clock
<1>7. ASSUME NEW p \in Proc, sys_wait(p) PROVE TypeOK'
  BY <1>7 DEF sys_wait, Enters, At, Goto, TypeOK, clock
<1>8. ASSUME NEW p \in Proc, kwait(p) PROVE TypeOK'
  <2>1. pc[p] = "wait" /\ wait_lock = 0 /\ UNCHANGED <<nextpid, np, tickslock, left>>
    BY <1>8, Zenon DEF kwait, At, clock
  <2>2. ASSUME NEW c \in Proc, freeproc(c), Goto(p, "user"), UNCHANGED wait_lock PROVE TypeOK'
    BY <2>1, <2>2, GotoType DEF freeproc, TypeOK
  <2>3. CASE Goto(p, "user") /\ UNCHANGED <<state, pid, parent, killed, aim, wait_lock>>
    BY <2>1, <2>3, GotoType, Zenon DEF TypeOK
  <2>4. CASE wait_lock' = p /\ Goto(p, "wait_sleep") /\ UNCHANGED <<state, pid, parent, killed, aim>>
    BY <2>1, <2>4 DEF Goto, TypeOK
  <2> QED
    BY <1>8, <2>2, <2>3, <2>4, Zenon DEF kwait, Zombies, Children
<1>9. ASSUME NEW p \in Proc, wait_sleep(p) PROVE TypeOK'
  BY <1>9 DEF wait_sleep, release, At, Goto, TypeOK, clock
<1>10. ASSUME NEW p \in Proc, NEW n \in 0 .. MaxPause, PauseTry(p, n), pc[p] \in {"user", "pause"} PROVE TypeOK'
  BY <1>10 DEF PauseTry, Goto, TypeOK
<1>11. ASSUME NEW p \in Proc, pause_sleep(p) PROVE TypeOK'
  BY <1>11 DEF pause_sleep, release, At, Goto, TypeOK
<1>12. ASSUME NEW p \in Proc, NEW n \in 0 .. MaxPid, kkill(p, n) PROVE TypeOK'
  BY <1>12 DEF kkill, TypeOK, clock
<1> QED
  BY <1>1, <1>2, <1>3, <1>4, <1>5, <1>6, <1>7, <1>8, <1>9, <1>10, <1>11, <1>12, Zenon
  DEF Next, sys_pause, pause_again, Enters, At, TypeOK

\* The types hold after userinit.
LEMMA TypeInit == Init => TypeOK
BY ProcAssumption, ProcFacts DEF Init, TypeOK, initproc
-----------------------------------------------------------------------------
(* The inductive invariant. *)

\* The invariant holds after userinit: init is the only process.
LEMMA InvInit == Init => IInv
<1> SUFFICES ASSUME Init PROVE IInv
  BY Zenon
<1>1. TypeOK
  BY TypeInit, Zenon
<1> USE ProcFacts
<1>2. ForkInv /\ CallInv /\ CauseInv
  BY Zenon DEF Init, ForkInv, CallInv, CauseInv, Alive
<1>3. ParentsAreAlive /\ SleepersHaveCause /\ FreshSlots
  BY Zenon DEF Init, ParentsAreAlive, SleepersHaveCause, FreshSlots
<1> QED
  BY <1>1, <1>2, <1>3, Zenon DEF IInv

\* Every step keeps the invariant.
LEMMA InvStep == IInv /\ [Next]_vars => IInv'
<1> SUFFICES ASSUME IInv, [Next]_vars PROVE IInv'
  BY Zenon
<1> DEFINE Rest == ForkInv /\ CallInv /\ ParentsAreAlive /\ CauseInv /\ SleepersHaveCause /\ FreshSlots
<1> USE ProcFacts
<1>0. TypeOK /\ TypeOK' /\ Rest
  BY TypeStep, Zenon DEF IInv
<1>1. ASSUME UNCHANGED vars PROVE Rest'
  <2>1. ForkInv' /\ CallInv' /\ ParentsAreAlive' /\ FreshSlots'
    BY <1>0, <1>1 DEF vars, ForkInv, CallInv, Alive, ParentsAreAlive, FreshSlots
  <2>2. \A q \in Proc : Children(q)' = Children(q) /\ Zombies(q)' = Zombies(q)
    BY <1>1, Zenon DEF vars, Children, Zombies
  <2>3. CauseInv' /\ SleepersHaveCause'
    BY <1>0, <1>1, <2>2, Zenon DEF vars, CauseInv, SleepersHaveCause
  <2> QED
    BY <2>1, <2>3, Zenon
<1>2. ASSUME clockintr PROVE Rest'
  <2>1. ForkInv' /\ CallInv'
    BY <1>0, <1>2 DEF clockintr, wakeup, ForkInv, CallInv, Alive, TypeOK
  <2>2. ParentsAreAlive' /\ FreshSlots'
    BY <1>0, <1>2 DEF clockintr, wakeup, ParentsAreAlive, FreshSlots, TypeOK
  <2>3. CauseInv' /\ SleepersHaveCause'
    <3>1. UNCHANGED <<parent, pc>> /\ \A q \in Proc : pc[q] # "pause_sleep"
      BY <1>0, <1>2 DEF clockintr, TypeOK
    <3>2. \A q \in Proc : /\ state'[q] = "ZOMBIE" => state[q] = "ZOMBIE"
                          /\ state'[q] = "SLEEPING" => state[q] = "SLEEPING" /\ pc[q] # "pause"
      BY <1>2, Zenon DEF clockintr, wakeup, Chan, TickChan
    <3>3. \A q \in Proc : Children(q) # {} /\ Zombies(q) = {} => Children(q)' # {} /\ Zombies(q)' = {}
      BY <3>1, <3>2, CauseStays, Zenon
    <3> QED
      BY <1>0, <3>1, <3>2, <3>3, Zenon DEF CauseInv, SleepersHaveCause
  <2> QED
    BY <2>1, <2>2, <2>3, Zenon
<1>3. ASSUME NEW p \in Proc, kfork(p) PROVE Rest'
  <2>0. At(p, "user") /\ np[p] = 0 /\ UNCHANGED <<parent, wait_lock, tickslock, left>>
    BY <1>0, <1>3, Zenon DEF kfork, Enters, At, ForkInv, clock
  <2>1. ForkInv'
    <3>1. CASE UNCHANGED <<state, pid, np, pc>>
      BY <1>0, <2>0, <3>1 DEF ForkInv
    <3>2. ASSUME NEW c \in Proc, state[c] = "UNUSED", state' = [state EXCEPT ![c] = "USED"],
                 np' = [np EXCEPT ![p] = c], Goto(p, "fork_parent")
          PROVE  ForkInv'
      <4>1. c # p /\ parent[c] = 0 /\ \A q \in Proc : np[q] # c
        BY <1>0, <2>0, <3>2 DEF At, ForkInv, FreshSlots, TypeOK
      <4> QED
        BY <1>0, <2>0, <3>2, <4>1 DEF At, Goto, ForkInv, TypeOK
    <3> QED
      BY <1>3, <3>1, <3>2, Zenon DEF kfork, allocproc
  <2>2. CallInv'
    <3>1. \A q \in Proc : state[q] # "UNUSED" => state'[q] = state[q]
      BY <1>0, <1>3 DEF kfork, allocproc, TypeOK
    <3>2. \A q \in Proc : pc'[q] = pc[q] \/ q = p
      BY <1>0, <1>3 DEF kfork, Goto, TypeOK
    <3> QED
      BY <1>0, <2>0, <3>1, <3>2, ProcFacts, Zenon DEF At, CallInv, Alive
  <2>3. ParentsAreAlive' /\ FreshSlots'
    <3>1. \A q \in Proc : IF state[q] = "UNUSED" THEN state'[q] \in {"UNUSED", "USED"} ELSE state'[q] = state[q]
      BY <1>0, <1>3 DEF kfork, allocproc, TypeOK
    <3>2. \A q \in Proc : (state'[q] = "UNUSED" \/ state[q] # "UNUSED") => pid'[q] = pid[q]
      BY <1>0, <1>3 DEF kfork, allocproc, TypeOK
    <3>3. \A q \in Proc : killed'[q] = 1 => killed[q] = 1 /\ aim'[q] = aim[q]
      BY <1>0, <1>3 DEF kfork, TypeOK
    <3>4. \A q \in Proc : state'[q] = "UNUSED" => pid'[q] = 0 /\ parent'[q] = 0
      BY <1>0, <2>0, <3>1, <3>2, Zenon DEF FreshSlots
    <3>5. \A q \in Proc : killed'[q] = 1 => aim'[q] \in {0, pid'[q]}
      BY <1>0, <3>2, <3>3, Zenon DEF FreshSlots
    <3>6. FreshSlots'
      BY <3>4, <3>5, Zenon DEF FreshSlots
    <3>7. ParentsAreAlive'
      BY <1>0, <2>0, <3>1 DEF ParentsAreAlive, TypeOK
    <3> QED
      BY <3>6, <3>7, Zenon
  <2>4. CauseInv' /\ SleepersHaveCause'
    <3>1. \A c \in Proc : state'[c] = "ZOMBIE" => state[c] = "ZOMBIE"
      BY <1>0, <1>3 DEF kfork, TypeOK
    <3>2. \A q \in Proc : Children(q) # {} /\ Zombies(q) = {} => Children(q)' # {} /\ Zombies(q)' = {}
      BY <2>0, <3>1, CauseStays, Zenon
    <3>3. \A q \in Proc : /\ state'[q] = "SLEEPING" => state[q] = "SLEEPING" /\ pc'[q] = pc[q]
                          /\ pc'[q] \in {"wait_sleep", "pause_sleep"} => pc'[q] = pc[q]
      BY <1>0, <1>3, <2>0 DEF kfork, At, Goto, TypeOK
    <3> QED
      BY <1>0, <2>0, <3>2, <3>3, Zenon DEF CauseInv, SleepersHaveCause
  <2> QED
    BY <2>1, <2>2, <2>3, <2>4, Zenon
<1>4. ASSUME NEW p \in Proc, fork_parent(p) PROVE Rest'
  <2>1. ForkInv' /\ CallInv'
    BY <1>0, <1>4 DEF fork_parent, At, Goto, ForkInv, CallInv, Alive, TypeOK
  <2>2. ParentsAreAlive' /\ FreshSlots'
    BY <1>0, <1>4 DEF fork_parent, At, Goto, ForkInv, ParentsAreAlive, FreshSlots, TypeOK
  <2>3. CauseInv' /\ SleepersHaveCause'
    <3>0. /\ np[p] \in Proc /\ state[np[p]] = "USED" /\ parent[np[p]] = 0 /\ p \in Nat \ {0}
          /\ UNCHANGED <<state, tickslock, left, wait_lock, killed, aim>>
          /\ parent' = [parent EXCEPT ![np[p]] = p]
      BY <1>0, <1>4, ProcFacts, Zenon DEF fork_parent, At, ForkInv, clock
    <3>1. \A c \in Proc : c # np[p] => parent'[c] = parent[c]
      BY <1>0, <3>0 DEF TypeOK
    <3>2. \A q \in Proc : Children(q) # {} /\ Zombies(q) = {} => Children(q)' # {} /\ Zombies(q)' = {}
      <4>1. \A q, c \in Proc : parent[c] = q => parent'[c] = q
        BY <3>0, <3>1, ProcFacts, Zenon
      <4>2. \A q, c \in Proc : parent'[c] = q /\ state'[c] = "ZOMBIE" => parent[c] = q /\ state[c] = "ZOMBIE"
        BY <3>0, <3>1, Zenon
      <4> QED
        BY <4>1, <4>2, CauseStays, Zenon
    <3>3. \A q \in Proc : pc'[q] \in {"wait_sleep", "pause_sleep"} \/ state[q] = "SLEEPING" => pc'[q] = pc[q]
      BY <1>0, <1>4 DEF fork_parent, At, Goto, TypeOK
    <3> QED
      BY <1>0, <3>0, <3>2, <3>3, Zenon DEF CauseInv, SleepersHaveCause
  <2> QED
    BY <2>1, <2>2, <2>3, Zenon
<1>5. ASSUME NEW p \in Proc, fork_run(p) PROVE Rest'
  <2>1. ForkInv' /\ CallInv'
    BY <1>0, <1>5 DEF fork_run, At, Goto, ForkInv, CallInv, Alive, TypeOK
  <2>2. ParentsAreAlive' /\ FreshSlots'
    BY <1>0, <1>5 DEF fork_run, At, Goto, ForkInv, ParentsAreAlive, FreshSlots, TypeOK
  <2>3. CauseInv' /\ SleepersHaveCause'
    <3>1. \A c \in Proc : state'[c] = "ZOMBIE" => state[c] = "ZOMBIE"
      BY <1>0, <1>5 DEF fork_run, TypeOK
    <3>2. \A q \in Proc : Children(q) # {} /\ Zombies(q) = {} => Children(q)' # {} /\ Zombies(q)' = {}
      BY <1>5, <3>1, CauseStays, Zenon DEF fork_run
    <3>3. \A q \in Proc : /\ state'[q] = "SLEEPING" => state[q] = "SLEEPING" /\ pc'[q] = pc[q]
                          /\ pc'[q] \in {"wait_sleep", "pause_sleep"} => pc'[q] = pc[q]
      BY <1>0, <1>5 DEF fork_run, At, Goto, TypeOK
    <3> QED
      BY <1>0, <1>5, <3>2, <3>3, Zenon DEF fork_run, clock, CauseInv, SleepersHaveCause
  <2> QED
    BY <2>1, <2>2, <2>3, Zenon
<1>6. ASSUME NEW p \in Proc, kexit(p) PROVE Rest'
  <2>1. ForkInv' /\ CallInv'
    BY <1>0, <1>6 DEF kexit, At, wakeup, reparent, ForkInv, CallInv, Alive, TypeOK
  <2>2. ParentsAreAlive' /\ FreshSlots'
    BY <1>0, <1>6 DEF kexit, At, wakeup, reparent, CallInv, Alive, ParentsAreAlive, FreshSlots, TypeOK
  <2>3. CauseInv'
    BY <1>0, <1>6, Zenon DEF kexit, At, clock, CauseInv, TypeOK
  <2>4. SleepersHaveCause'
    <3> SUFFICES ASSUME NEW q \in Proc, state'[q] = "SLEEPING"
                 PROVE  \/ pc'[q] = "wait" /\ Children(q)' # {} /\ Zombies(q)' = {}
                        \/ pc'[q] = "pause" /\ left'[q] > 0
      BY Zenon DEF SleepersHaveCause
    <3>1. state[q] = "SLEEPING" /\ q # p /\ Chan(q) \notin Woken(p) /\ UNCHANGED <<pc, left>>
      BY <1>0, <1>6, Zenon DEF kexit, wakeup, clock, TypeOK
    <3>2. CASE pc[q] = "pause"
      BY <1>0, <3>1, <3>2, Zenon DEF SleepersHaveCause
    <3>3. CASE pc[q] = "wait"
      <4>1. Children(q) # {} /\ Zombies(q) = {} /\ Chan(q) = q
        BY <1>0, <3>1, <3>3, Zenon DEF SleepersHaveCause, Chan
      <4>2. parent[p] # q /\ (q = initproc => \A c \in Proc : parent[c] # p)
        BY <3>1, <4>1, ChildrenFacts, Zenon DEF Woken
      <4>3. \A c \in Proc : parent[c] = q <=> parent'[c] = q
        BY <1>6, <3>1, <4>2, Zenon DEF kexit, reparent
      <4>4. \A c \in Proc : parent[c] = q /\ state'[c] = "ZOMBIE" => state[c] = "ZOMBIE"
        BY <1>0, <1>6, <4>2, Zenon DEF kexit, wakeup, TypeOK
      <4> QED
        BY <3>1, <3>3, <4>1, <4>3, <4>4, CauseStays, Zenon
    <3> QED
      BY <1>0, <3>1, <3>2, <3>3, Zenon DEF SleepersHaveCause
  <2> QED
    BY <2>1, <2>2, <2>3, <2>4, Zenon
<1>7. ASSUME NEW p \in Proc, sys_wait(p) PROVE Rest'
  <2>1. ForkInv' /\ CallInv' /\ ParentsAreAlive' /\ FreshSlots'
    BY <1>0, <1>7 DEF sys_wait, Enters, At, Goto, ForkInv, CallInv, Alive, ParentsAreAlive, FreshSlots, TypeOK
  <2>2. CauseInv' /\ SleepersHaveCause'
    <3>1. state[p] # "SLEEPING" /\ UNCHANGED <<state, parent, left>>
      BY <1>7, Zenon DEF sys_wait, Enters, At, clock
    <3>2. \A q \in Proc : Children(q) # {} /\ Zombies(q) = {} => Children(q)' # {} /\ Zombies(q)' = {}
      BY <3>1, CauseStays, Zenon
    <3>3. pc'[p] = "wait" /\ \A q \in Proc \ {p} : pc'[q] = pc[q]
      BY <1>0, <1>7 DEF sys_wait, Goto, TypeOK
    <3> QED
      BY <1>0, <3>1, <3>2, <3>3, Zenon DEF CauseInv, SleepersHaveCause
  <2> QED
    BY <2>1, <2>2, Zenon
<1>8. ASSUME NEW p \in Proc, kwait(p) PROVE Rest'
  <2>1. At(p, "wait") /\ wait_lock = 0 /\ UNCHANGED <<nextpid, np, left, tickslock>>
    BY <1>8, Zenon DEF kwait, clock
  <2>2. ASSUME NEW c \in Zombies(p), freeproc(c), Goto(p, "user"), UNCHANGED wait_lock PROVE Rest'
    <3>0. c \in Proc /\ parent[c] = p /\ state[c] = "ZOMBIE"
      BY Zenon DEF Zombies, Children
    <3>1. ForkInv' /\ CallInv'
      BY <1>0, <2>1, <2>2, <3>0 DEF freeproc, At, Goto, ForkInv, CallInv, Alive, TypeOK
    <3>2. ParentsAreAlive' /\ FreshSlots'
      BY <1>0, <2>1, <2>2, <3>0 DEF freeproc, At, Goto, ParentsAreAlive, FreshSlots, TypeOK
    <3>3. CauseInv' /\ SleepersHaveCause'
      <4>1. \A q \in Proc : q # p /\ Children(q) # {} /\ Zombies(q) = {} => Children(q)' # {} /\ Zombies(q)' = {}
        <5>1. \A d \in Proc : d # c => parent'[d] = parent[d] /\ state'[d] = state[d]
          BY <1>0, <2>2, <3>0 DEF freeproc, TypeOK
        <5>2. parent'[c] = 0 /\ state'[c] = "UNUSED"
          BY <1>0, <2>2, <3>0 DEF freeproc, TypeOK
        <5> QED
          BY <3>0, <5>1, <5>2, CauseStays, ProcFacts, Zenon
      <4>2. \A q \in Proc : /\ state'[q] = "SLEEPING" => state[q] = "SLEEPING" /\ pc'[q] = pc[q] /\ q # p
                            /\ pc'[q] \in {"wait_sleep", "pause_sleep"} => pc'[q] = pc[q] /\ q # p
        BY <1>0, <2>1, <2>2, <3>0 DEF freeproc, At, Goto, TypeOK
      <4> QED
        BY <1>0, <2>1, <4>1, <4>2, Zenon DEF CauseInv, SleepersHaveCause
    <3> QED
      BY <3>1, <3>2, <3>3, Zenon
  <2>3. ASSUME UNCHANGED <<state, pid, parent, killed, aim>>,
               \/ Goto(p, "user")
               \/ /\ Zombies(p) = {} /\ Children(p) # {}
                  /\ Goto(p, "wait_sleep")
        PROVE  Rest'
    <3>1. ForkInv' /\ CallInv' /\ ParentsAreAlive' /\ FreshSlots'
      BY <1>0, <2>1, <2>3 DEF At, Goto, ForkInv, CallInv, Alive, ParentsAreAlive, FreshSlots, TypeOK
    <3>2. CauseInv' /\ SleepersHaveCause'
      <4>1. \A q \in Proc : Children(q) # {} /\ Zombies(q) = {} => Children(q)' # {} /\ Zombies(q)' = {}
        BY <2>3, CauseStays, Zenon
      <4>2. \A q \in Proc \ {p} : pc'[q] = pc[q]
        BY <1>0, <2>3 DEF Goto, TypeOK
      <4>3. state[p] # "SLEEPING" /\ (pc'[p] = "user" \/ (pc'[p] = "wait_sleep" /\ Children(p)' # {} /\ Zombies(p)' = {}))
        BY <1>0, <2>1, <2>3, <4>1 DEF At, Goto, TypeOK
      <4> QED
        BY <1>0, <2>1, <2>3, <4>1, <4>2, <4>3, Zenon DEF CauseInv, SleepersHaveCause
    <3> QED
      BY <3>1, <3>2, Zenon
  <2> QED
    BY <1>8, <2>2, <2>3, Zenon DEF kwait
<1>9. ASSUME NEW p \in Proc, wait_sleep(p) PROVE Rest'
  <2>1. ForkInv' /\ CallInv' /\ ParentsAreAlive' /\ FreshSlots'
    BY <1>0, <1>9 DEF wait_sleep, At, Goto, ForkInv, CallInv, Alive, ParentsAreAlive, FreshSlots, TypeOK
  <2>2. CauseInv' /\ SleepersHaveCause'
    <3>1. \A q \in Proc : Children(q) # {} /\ Zombies(q) = {} => Children(q)' # {} /\ Zombies(q)' = {}
      BY <1>0, <1>9, CauseStays, Zenon DEF wait_sleep, TypeOK
    <3>2. pc[p] = "wait_sleep" /\ pc'[p] = "wait" /\ UNCHANGED left
      BY <1>0, <1>9 DEF wait_sleep, At, Goto, clock, TypeOK
    <3>3. \A q \in Proc \ {p} : state'[q] = state[q] /\ pc'[q] = pc[q]
      BY <1>0, <1>9 DEF wait_sleep, Goto, TypeOK
    <3>4. CauseInv'
      BY <1>0, <3>1, <3>2, <3>3, Zenon DEF CauseInv
    <3>5. SleepersHaveCause'
      BY <1>0, <3>1, <3>2, <3>3, Zenon DEF CauseInv, SleepersHaveCause
    <3> QED
      BY <3>4, <3>5, Zenon
  <2> QED
    BY <2>1, <2>2, Zenon
<1>10. ASSUME NEW p \in Proc, NEW n \in 0 .. MaxPause, PauseTry(p, n), pc[p] \in {"user", "pause"},
              state[p] = "RUNNABLE"
       PROVE  Rest'
  <2>1. ForkInv' /\ CallInv' /\ ParentsAreAlive' /\ FreshSlots'
    <3>1. ForkInv' /\ CallInv'
      BY <1>0, <1>10 DEF PauseTry, Goto, ForkInv, CallInv, Alive, TypeOK
    <3>2. ParentsAreAlive' /\ FreshSlots'
      BY <1>0, <1>10, Zenon DEF PauseTry, ParentsAreAlive, FreshSlots
    <3> QED
      BY <3>1, <3>2, Zenon
  <2>2. CauseInv' /\ SleepersHaveCause'
    <3>1. \A q \in Proc : Children(q) # {} /\ Zombies(q) = {} => Children(q)' # {} /\ Zombies(q)' = {}
      BY <1>10, CauseStays, Zenon DEF PauseTry
    <3>2. UNCHANGED state /\ \A q \in Proc \ {p} : pc'[q] = pc[q] /\ left'[q] = left[q]
      BY <1>0, <1>10 DEF PauseTry, Goto, TypeOK
    <3>3. pc'[p] = "user" \/ (pc'[p] = "pause_sleep" /\ left'[p] > 0)
      BY <1>0, <1>10 DEF PauseTry, Goto, TypeOK
    <3> QED
      BY <1>0, <1>10, <3>1, <3>2, <3>3, Zenon DEF CauseInv, SleepersHaveCause
  <2> QED
    BY <2>1, <2>2, Zenon
<1>11. ASSUME NEW p \in Proc, pause_sleep(p) PROVE Rest'
  <2>1. ForkInv' /\ CallInv' /\ ParentsAreAlive' /\ FreshSlots'
    BY <1>0, <1>11 DEF pause_sleep, At, Goto, ForkInv, CallInv, Alive, ParentsAreAlive, FreshSlots, TypeOK
  <2>2. CauseInv' /\ SleepersHaveCause'
    <3>1. \A q \in Proc : Children(q) # {} /\ Zombies(q) = {} => Children(q)' # {} /\ Zombies(q)' = {}
      BY <1>0, <1>11, CauseStays, Zenon DEF pause_sleep, TypeOK
    <3>2. left[p] > 0 /\ pc'[p] = "pause" /\ UNCHANGED left
      BY <1>0, <1>11 DEF pause_sleep, At, Goto, CauseInv, TypeOK
    <3>3. \A q \in Proc \ {p} : state'[q] = state[q] /\ pc'[q] = pc[q]
      BY <1>0, <1>11 DEF pause_sleep, Goto, TypeOK
    <3>4. CauseInv'
      BY <1>0, <3>1, <3>2, <3>3, Zenon DEF CauseInv
    <3>5. SleepersHaveCause'
      BY <1>0, <3>1, <3>2, <3>3, Zenon DEF SleepersHaveCause
    <3> QED
      BY <3>4, <3>5, Zenon
  <2> QED
    BY <2>1, <2>2, Zenon
<1>12. ASSUME NEW q \in Proc, NEW n \in 0 .. MaxPid, kkill(q, n) PROVE Rest'
  <2>1. ForkInv' /\ CallInv' /\ ParentsAreAlive' /\ FreshSlots'
    BY <1>0, <1>12 DEF kkill, ForkInv, CallInv, Alive, ParentsAreAlive, FreshSlots, TypeOK
  <2>2. CauseInv' /\ SleepersHaveCause'
    <3>1. \A c \in Proc : state'[c] = state[c] \/ state'[c] = "RUNNABLE"
      BY <1>0, <1>12 DEF kkill, TypeOK
    <3>2. UNCHANGED <<parent, pc, left>>
      BY <1>12, Zenon DEF kkill, clock
    <3>3. \A c \in Proc : /\ state'[c] = "ZOMBIE" => state[c] = "ZOMBIE"
                          /\ state'[c] = "SLEEPING" => state[c] = "SLEEPING"
      BY <3>1, Zenon
    <3>4. \A r \in Proc : Children(r) # {} /\ Zombies(r) = {} => Children(r)' # {} /\ Zombies(r)' = {}
      BY <3>2, <3>3, CauseStays, Zenon
    <3> QED
      BY <1>0, <3>2, <3>3, <3>4, Zenon DEF CauseInv, SleepersHaveCause
  <2> QED
    BY <2>1, <2>2, Zenon
<1>13. \A p \in Proc : pause_again(p) \/ (\E n \in 0 .. MaxPause : sys_pause(p, n)) => Rest'
  BY <1>0, <1>10 DEF sys_pause, pause_again, Enters, At, TypeOK
<1>14. Rest'
  <2> HIDE DEF Rest
  <2> QED
    BY <1>1, <1>2, <1>3, <1>4, <1>5, <1>6, <1>7, <1>8, <1>9, <1>11, <1>12, <1>13, Zenon
    DEF Next
<1> QED
  BY <1>0, <1>14, Zenon DEF IInv

\* Types; wait_lock and tickslock are held exactly from the test of a loop to its
\* sleep.
THEOREM TypeCorrect == Spec => []TypeOK
BY TypeInit, TypeStep, PTL DEF Spec

\* The inductive invariant holds throughout.
LEMMA ProcInv == Spec => []IInv
BY InvInit, InvStep, PTL DEF Spec

\* kfork, kexit with reparent, and kwait keep the processes a tree: every process
\* but init has a parent, which has not been reaped.
THEOREM ParentsLive == Spec => []ParentsAreAlive
<1>1. IInv => ParentsAreAlive
  BY Zenon DEF IInv
<1> QED
  BY <1>1, ProcInv, PTL

\* No wakeup of kwait or sys_pause is lost: whoever sleeps there has a reason to.
THEOREM NoLostWakeup == Spec => []SleepersHaveCause
<1>1. IInv => SleepersHaveCause
  BY Zenon DEF IInv
<1> QED
  BY <1>1, ProcInv, PTL

\* allocproc finds a slot without parent or pid, and a kill reaches no process but
\* the one it names, unless it is a kill(0).
THEOREM SlotsAreFresh == Spec => []FreshSlots
<1>1. IInv => FreshSlots
  BY Zenon DEF IInv
<1> QED
  BY <1>1, ProcInv, PTL
=============================================================================
