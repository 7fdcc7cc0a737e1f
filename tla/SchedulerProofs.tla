-------------------------- MODULE SchedulerProofs --------------------------
(***************************************************************************)
(* Proofs about the two schedulers of Lab 2, for any number of processes   *)
(* and CPUs.                                                               *)
(*                                                                         *)
(* Wrr, for any range of priorities: processes and CPUs match, the quantum *)
(* is a bound, and the scan of the table is a round robin.                 *)
(*                                                                         *)
(* Lottery, for any width of int: processes and CPUs match, and the        *)
(* process dispatched holds the ticket after the one drawn.  Its kernel    *)
(* has functions of the same names, so it is the instance L, and what it   *)
(* assumes of its constants is a hypothesis, L!ConstantsOK.                *)
(***************************************************************************)
EXTENDS Wrr, TLAPS

-----------------------------------------------------------------------------
(* Weighted round robin *)


CpuSet == [pc : {"scan", "start", "run", "back", "wfi"}, proc : Proc \cup {None}, p : Proc,
           found : BOOLEAN]

\* A CPU has a process between its dispatch and its return, no two have the
\* same, and each holds the lock of its process on the way in and out.
CpuInv ==
  /\ \A c \in CPU : cpu[c].pc \in {"start", "run", "back"} => cpu[c].proc = cpu[c].p
  /\ \A c \in CPU : cpu[c].pc \in {"scan", "wfi"} => cpu[c].proc = None
  /\ \A c \in CPU : cpu[c].pc \in {"start", "run"} => state[cpu[c].proc] = "RUNNING"
  /\ \A c \in CPU : cpu[c].pc \in {"start", "back"} => lock[cpu[c].proc] = c
  /\ \A c, d \in CPU : cpu[c].proc = cpu[d].proc /\ cpu[c].proc # None => c = d

\* What is left of the quantum of a RUNNING process, and none runs without one.
TickInv ==
  \A p \in Proc : /\ state[p] # "UNUSED" => priority[p] >= 1
                  /\ state[p] # "RUNNING" => ran[p] = 0
                  /\ state[p] = "RUNNING" => \/ ticks[p] = priority[p] /\ ran[p] = 0
                                             \/ ran[p] <= ticks[p] /\ ticks[p] < priority[p]

\* Entry q is one that a scan from entry w + 1 on has seen when it is at p.
Seen(w, q, p) == IF w < p THEN w < q /\ q < p ELSE w < q \/ q < p

\* A CPU has dispatched, while the watched process waited, only processes that
\* its scan has met since it last went past the watched one.
PassedInv ==
  /\ state[watch] # "RUNNABLE" => passed = {}
  /\ \A c \in CPU, q \in Proc : <<c, q>> \in passed =>
       \/ cpu[c].pc \in {"scan", "wfi"} /\ Seen(watch, q, cpu[c].p)
       \/ /\ cpu[c].pc \in {"start", "run", "back"} /\ cpu[c].p # watch
          /\ q = cpu[c].p \/ Seen(watch, q, cpu[c].p)

IInv == TypeOK /\ CpuInv /\ TickInv /\ PassedInv
-----------------------------------------------------------------------------

\* Entries of the table are numbers; no process and no CPU is None.
LEMMA ProcFacts ==
  /\ \A p \in Proc : p \in Int /\ 1 <= p /\ p <= NPROC /\ p # None
  /\ 1 \in Proc /\ initproc \in Proc
  /\ \A c \in CPU : c # None
BY WrrAssumption DEF Proc, initproc

\* Where the scan of scheduler() goes on after entry r.p.
LEMMA AdvanceFacts ==
  ASSUME NEW r, r.p \in Proc, r.found \in BOOLEAN
  PROVE  /\ Advance(r) \in CpuSet
         /\ Advance(r).pc \in {"scan", "wfi"} /\ Advance(r).proc = None
         /\ Advance(r).p = IF r.p = NPROC THEN 1 ELSE r.p + 1
<1>1. CASE r.p = NPROC
  <2> DEFINE at == IF r.found THEN "scan" ELSE "wfi"
  <2>1. Advance(r) = [pc |-> at, proc |-> None, p |-> 1, found |-> FALSE]
    BY <1>1, Zenon DEF Advance, Cpu
  <2>2. at \in {"scan", "wfi"}
    BY Zenon
  <2> HIDE DEF at
  <2> QED
    BY <1>1, <2>1, <2>2, ProcFacts DEF CpuSet
<1>2. CASE r.p # NPROC
  <2>1. Advance(r) = [pc |-> "scan", proc |-> None, p |-> r.p + 1, found |-> r.found]
    BY <1>2, Zenon DEF Advance, Cpu
  <2>2. r.p + 1 \in Proc
    BY <1>2, WrrAssumption DEF Proc
  <2> QED
    BY <1>2, <2>1, <2>2 DEF CpuSet
<1> QED
  BY <1>1, <1>2, Zenon

\* A scan that goes on from an entry other than the watched one has seen that
\* entry, and what it had seen before.
LEMMA SeenAdvances ==
  ASSUME NEW w \in Proc, NEW p \in Proc, p # w
  PROVE  LET n == IF p = NPROC THEN 1 ELSE p + 1
         IN  Seen(w, p, n) /\ \A q \in Proc : Seen(w, q, p) => Seen(w, q, n)
BY ProcFacts, WrrAssumption DEF Seen

\* The entry at which a scan stands is not among those it has seen.
LEMMA NotSeenYet ==
  ASSUME NEW w \in Proc, NEW p \in Proc
  PROVE  ~Seen(w, p, p)
BY ProcFacts DEF Seen

\* The types and the invariant hold when the CPUs enter scheduler().
LEMMA InvInit == Init => IInv
<1> SUFFICES ASSUME Init PROVE IInv
  BY Zenon
<1>1. /\ \A c \in CPU : cpu[c].pc = "scan" /\ cpu[c].proc = None
      /\ \A p \in Proc : ran[p] = 0 /\ state[p] \in {"UNUSED", "RUNNABLE"}
      /\ \A p \in Proc : state[p] = "RUNNABLE" => priority[p] = DEFAULT_PRIORITY
      /\ passed = {}
  BY Zenon DEF Init, Cpu
<1>2. CpuInv
  BY <1>1, Zenon DEF CpuInv
<1>3. TickInv
  BY <1>1, WrrAssumption, Zenon DEF TickInv
<1>4. PassedInv
  BY <1>1, Zenon DEF PassedInv
<1>5. TypeOK
  <2>1. Cpu("scan", None, 1, FALSE) \in CpuSet
    BY ProcFacts, Zenon DEF Cpu, CpuSet
  <2>2. cpu \in [CPU -> CpuSet]
    BY <2>1, Zenon DEF Init
  <2>3. 0 \in 0 .. MAX_PRIORITY /\ DEFAULT_PRIORITY \in 0 .. MAX_PRIORITY
    BY WrrAssumption
  <2> QED
    BY <2>2, <2>3, Zenon DEF Init, TypeOK, CpuSet
<1> QED
  BY <1>2, <1>3, <1>4, <1>5, Zenon DEF IInv

\* A step that only moves the scan of CPU c to the next entry, past a process
\* that is not RUNNABLE (skip) or after the one it has run (back).
LEMMA ScanKeepsPassed ==
  ASSUME TypeOK, CpuInv, PassedInv, NEW c \in CPU, NEW r \in CpuSet,
         cpu' = [cpu EXCEPT ![c] = r], r.pc \in {"scan", "wfi"}, r.proc = None,
         \/ cpu[c].pc = "scan" /\ state[cpu[c].p] # "RUNNABLE"
         \/ cpu[c].pc = "back",
         r.p = IF cpu[c].p = NPROC THEN 1 ELSE cpu[c].p + 1,
         UNCHANGED <<state, watch, passed>>
  PROVE  PassedInv'
<1>1. /\ cpu \in [CPU -> CpuSet] /\ cpu[c].p \in Proc /\ watch \in Proc
      /\ passed \subseteq CPU \X Proc
  BY Zenon DEF TypeOK, CpuSet
<1>2. cpu'[c] = r /\ \A d \in CPU \ {c} : cpu'[d] = cpu[d]
  BY <1>1, Zenon
<1>3. ASSUME NEW q \in Proc, <<c, q>> \in passed PROVE Seen(watch, q, r.p)
  <2>1. state[watch] = "RUNNABLE"
    BY <1>3, Zenon DEF PassedInv
  <2>2. cpu[c].p # watch
    BY <1>3, <2>1, Zenon DEF PassedInv
  <2>3. q = cpu[c].p \/ Seen(watch, q, cpu[c].p)
    BY <1>3, Zenon DEF PassedInv
  <2> QED
    BY <1>1, <2>2, <2>3, SeenAdvances, Zenon
<1> QED
  BY <1>2, <1>3 DEF PassedInv

\* A step in which no CPU moves in its scan and nobody is dispatched.
LEMMA StayKeepsPassed ==
  ASSUME TypeOK, PassedInv, watch' = watch, passed' \subseteq passed,
         state'[watch] # "RUNNABLE" => passed' = {},
         \A c \in CPU : /\ cpu'[c].p = cpu[c].p
                        /\ \/ cpu'[c].pc = cpu[c].pc
                           \/ cpu[c].pc \in {"scan", "wfi"} /\ cpu'[c].pc \in {"scan", "wfi"}
                           \/ /\ cpu[c].pc \in {"start", "run", "back"}
                              /\ cpu'[c].pc \in {"start", "run", "back"}
  PROVE  PassedInv'
BY Zenon DEF PassedInv

\* The CPU records of the state, and the entries they name.
LEMMA CpuTypes ==
  ASSUME TypeOK, CpuInv, NEW c \in CPU
  PROVE  /\ cpu \in [CPU -> CpuSet] /\ cpu[c] \in CpuSet /\ cpu[c].p \in Proc /\ cpu[c].found \in BOOLEAN
         /\ cpu[c].pc \in {"start", "run", "back"} => cpu[c].proc \in Proc /\ cpu[c].proc = cpu[c].p
BY Zenon DEF TypeOK, CpuInv, CpuSet

\* The steps of scheduler() that dispatch nobody.
LEMMA ScanStep ==
  ASSUME IInv, NEW c \in CPU, skip(c) \/ back(c) \/ interrupt(c)
  PROVE  IInv'
<1>1. /\ TypeOK /\ CpuInv /\ TickInv /\ PassedInv
      /\ UNCHANGED <<state, priority, ticks, ran, watch, passed>>
  BY Zenon DEF IInv, skip, back, interrupt
<1>2. TickInv'
  BY <1>1, Zenon DEF TickInv
<1>3. CASE skip(c)
  <2>1. /\ cpu' = [cpu EXCEPT ![c] = Advance(cpu[c])] /\ lock' = lock /\ cpu[c].pc = "scan"
        /\ state[cpu[c].p] # "RUNNABLE"
    BY <1>3, Zenon DEF skip
  <2> DEFINE r == Advance(cpu[c])
  <2>2. /\ r \in CpuSet /\ r.pc \in {"scan", "wfi"} /\ r.proc = None
        /\ r.p = IF cpu[c].p = NPROC THEN 1 ELSE cpu[c].p + 1
    BY <1>1, CpuTypes, AdvanceFacts, Zenon
  <2> HIDE DEF r
  <2>3. cpu' = [cpu EXCEPT ![c] = r] /\ cpu'[c] = r /\ \A d \in CPU \ {c} : cpu'[d] = cpu[d]
    BY <1>1, <2>1, CpuTypes, Zenon DEF r
  <2>4. PassedInv'
    BY <1>1, <2>1, <2>2, <2>3, ScanKeepsPassed, Zenon
  <2>5. CpuInv'
    BY <1>1, <2>1, <2>2, <2>3 DEF CpuInv
  <2>6. TypeOK'
    BY <1>1, <2>1, <2>2, <2>3 DEF TypeOK, CpuSet
  <2> QED
    BY <1>2, <2>4, <2>5, <2>6, Zenon DEF IInv
<1>4. CASE back(c)
  <2> DEFINE b == Cpu("back", None, cpu[c].p, TRUE)
  <2> DEFINE r == Advance(b)
  <2>1. /\ cpu' = [cpu EXCEPT ![c] = r] /\ cpu[c].pc = "back"
        /\ lock' = [lock EXCEPT ![cpu[c].proc] = None]
    BY <1>4, Zenon DEF back
  <2>2. b.p = cpu[c].p /\ b.found \in BOOLEAN
    BY Zenon DEF Cpu
  <2> HIDE DEF b
  <2>3. /\ r \in CpuSet /\ r.pc \in {"scan", "wfi"} /\ r.proc = None
        /\ r.p = IF cpu[c].p = NPROC THEN 1 ELSE cpu[c].p + 1
    <3>1. cpu[c].p \in Proc
      BY <1>1, CpuTypes, Zenon
    <3> QED
      BY <2>2, <3>1, AdvanceFacts, Zenon
  <2> HIDE DEF r
  <2>4. cpu'[c] = r /\ \A d \in CPU \ {c} : cpu'[d] = cpu[d]
    BY <1>1, <2>1, CpuTypes, Zenon
  <2>5. PassedInv'
    BY <1>1, <2>1, <2>3, ScanKeepsPassed, Zenon
  <2>6. cpu[c].proc \in Proc /\ \A p \in Proc : p # cpu[c].proc => lock'[p] = lock[p]
    BY <1>1, <2>1, CpuTypes, Zenon DEF TypeOK
  <2>7. CpuInv'
    <3>1. \A d \in CPU \ {c} : cpu[d].proc # cpu[c].proc
      BY <1>1, <2>6, ProcFacts, Zenon DEF CpuInv
    <3>2. \A d \in CPU \ {c} : cpu[d].pc \in {"start", "back"} => cpu[d].proc \in Proc
      BY <1>1, CpuTypes, Zenon
    <3> QED
      BY <1>1, <2>3, <2>4, <2>6, <3>1, <3>2 DEF CpuInv
  <2>8. TypeOK'
    BY <1>1, <2>1, <2>3, <2>6, Zenon DEF TypeOK, CpuSet
  <2> QED
    BY <1>2, <2>5, <2>7, <2>8, Zenon DEF IInv
<1>5. CASE interrupt(c)
  <2>1. cpu' = [cpu EXCEPT ![c].pc = "scan"] /\ cpu[c].pc = "wfi" /\ lock' = lock
    BY <1>5, Zenon DEF interrupt
  <2>2. /\ \A d \in CPU \ {c} : cpu'[d] = cpu[d]
        /\ cpu'[c].pc = "scan" /\ cpu'[c].proc = cpu[c].proc /\ cpu'[c].p = cpu[c].p
    BY <1>1, <2>1, CpuTypes, Zenon DEF CpuSet
  <2>3. PassedInv'
    BY <1>1, <2>1, <2>2, StayKeepsPassed, ZenonT(30) DEF PassedInv
  <2>4. CpuInv'
    BY <1>1, <2>1, <2>2 DEF CpuInv
  <2>5. TypeOK'
    <3>1. [cpu[c] EXCEPT !.pc = "scan"] \in CpuSet
      BY <1>1, CpuTypes, Zenon DEF CpuSet
    <3>2. cpu' \in [CPU -> CpuSet]
      BY <1>1, <2>1, <3>1, CpuTypes, Zenon
    <3> QED
      BY <1>1, <2>1, <3>2, Zenon DEF TypeOK, CpuSet
  <2> QED
    BY <1>2, <2>3, <2>4, <2>5, Zenon DEF IInv
<1> QED
  BY <1>3, <1>4, <1>5, Zenon

\* scheduler() switches to a RUNNABLE process and gives it its quantum.
LEMMA DispatchStep ==
  ASSUME IInv, NEW c \in CPU, dispatch(c)
  PROVE  IInv' /\ <<c, cpu[c].p>> \notin passed
<1> DEFINE p == cpu[c].p
           r == Cpu("start", p, p, cpu[c].found)
<1>1. TypeOK /\ CpuInv /\ TickInv /\ PassedInv
  BY Zenon DEF IInv
<1>2. /\ p \in Proc /\ cpu[c].found \in BOOLEAN /\ watch \in Proc
      /\ cpu \in [CPU -> CpuSet] /\ state \in [Proc -> {"UNUSED", "RUNNABLE", "RUNNING", "SLEEPING", "ZOMBIE"}]
      /\ ticks \in [Proc -> 0 .. MAX_PRIORITY] /\ priority \in [Proc -> 0 .. MAX_PRIORITY]
      /\ lock \in [Proc -> CPU \cup {None}] /\ passed \subseteq CPU \X Proc
  BY <1>1, CpuTypes, Zenon DEF TypeOK
<1>3. r \in CpuSet /\ r.pc = "start" /\ r.proc = p /\ r.p = p
  BY <1>2, Zenon DEF Cpu, CpuSet
<1> HIDE DEF r
<1>4. /\ cpu[c].pc = "scan" /\ lock[p] = None /\ state[p] = "RUNNABLE"
      /\ ticks' = [ticks EXCEPT ![p] = priority[p]]
      /\ state' = [state EXCEPT ![p] = "RUNNING"]
      /\ cpu' = [cpu EXCEPT ![c] = r]
      /\ lock' = [lock EXCEPT ![p] = c]
      /\ passed' = Watched(state', {<<c, p>>})
      /\ UNCHANGED <<priority, ran, watch>>
  BY Zenon DEF dispatch, r
<1> HIDE DEF p
<1>5. /\ cpu'[c] = r /\ \A d \in CPU \ {c} : cpu'[d] = cpu[d]
      /\ ticks'[p] = priority[p] /\ state'[p] = "RUNNING" /\ lock'[p] = c
      /\ \A q \in Proc \ {p} : ticks'[q] = ticks[q] /\ state'[q] = state[q] /\ lock'[q] = lock[q]
  BY <1>2, <1>4, Zenon
<1>6. <<c, p>> \notin passed
  <2>1. SUFFICES ASSUME <<c, p>> \in passed PROVE FALSE
    BY Zenon
  <2>2. Seen(watch, p, p)
    BY <1>1, <1>2, <1>4, <2>1, Zenon DEF PassedInv, p
  <2> QED
    BY <1>2, <2>2, NotSeenYet, Zenon
<1>7. TypeOK'
  <2>1. passed' \subseteq CPU \X Proc
    BY <1>2, <1>4 DEF Watched
  <2>2. cpu' \in [CPU -> CpuSet]
    BY <1>2, <1>3, <1>4, Zenon
  <2> QED
    BY <1>1, <1>2, <1>4, <2>1, <2>2, Zenon DEF TypeOK, CpuSet
<1>8. TickInv'
  BY <1>1, <1>2, <1>4, <1>5, ZenonT(30) DEF TickInv
<1>9. CpuInv'
  <2>1. \A d \in CPU \ {c} : cpu[d].proc # p
    <3>1. \A d \in CPU : cpu[d].proc = p => cpu[d].pc \in {"start", "run", "back"}
      BY <1>1, <1>2, ProcFacts, ZenonT(30) DEF CpuInv, TypeOK
    <3> QED
      BY <1>1, <1>4, <3>1, ProcFacts DEF CpuInv
  <2>2. \A d \in CPU \ {c} : cpu[d].pc \in {"start", "run", "back"} => cpu[d].proc \in Proc
    BY <1>1, CpuTypes, Zenon
  <2> QED
    BY <1>1, <1>3, <1>5, <2>1, <2>2 DEF CpuInv
<1>10. PassedInv'
  <2>1. CASE p = watch
    <3>1. passed' = {}
      BY <1>4, <1>5, <2>1, Zenon DEF Watched
    <3> QED
      BY <3>1, Zenon DEF PassedInv
  <2>2. CASE p # watch
    <3>1. state'[watch] = state[watch] /\ passed' \subseteq passed \cup {<<c, p>>}
          /\ (state'[watch] # "RUNNABLE" => passed' = {})
      BY <1>2, <1>4, <1>5, <2>2, Zenon DEF Watched
    <3>2. \A q \in Proc : <<c, q>> \in passed => Seen(watch, q, p)
      BY <1>1, <1>4, Zenon DEF PassedInv, p
    <3>3. \A d \in CPU \ {c}, q \in Proc : <<d, q>> \in passed' => <<d, q>> \in passed
      BY <3>1, Zenon
    <3>4. \A q \in Proc : <<c, q>> \in passed' => q = p \/ Seen(watch, q, p)
      BY <3>1, <3>2, Zenon
    <3>5. cpu'[c].pc = "start" /\ cpu'[c].p = p /\ watch' = watch
      BY <1>3, <1>4, <1>5, Zenon
    <3>6. \A d \in CPU \ {c}, q \in Proc : <<d, q>> \in passed' =>
            \/ cpu'[d].pc \in {"scan", "wfi"} /\ Seen(watch, q, cpu'[d].p)
            \/ /\ cpu'[d].pc \in {"start", "run", "back"} /\ cpu'[d].p # watch
               /\ q = cpu'[d].p \/ Seen(watch, q, cpu'[d].p)
      BY <1>1, <1>5, <3>3 DEF PassedInv
    <3> QED
      BY <2>2, <3>1, <3>4, <3>5, <3>6, ZenonT(30) DEF PassedInv
  <2> QED
    BY <2>1, <2>2, Zenon
<1> QED
  BY <1>6, <1>7, <1>8, <1>9, <1>10, Zenon DEF IInv, p

\* The process on CPU c gives it up in a state other than RUNNING.
LEMMA LeaveStep ==
  ASSUME IInv, NEW c \in CPU, cpu[c].pc = "run", NEW st \in {"RUNNABLE", "SLEEPING", "ZOMBIE"},
         Leave(c, st), UNCHANGED <<priority, watch>>,
         ticks' \in [Proc -> 0 .. MAX_PRIORITY],
         \A q \in Proc \ {cpu[c].proc} : ticks'[q] = ticks[q]
  PROVE  IInv'
<1> DEFINE p == cpu[c].proc
<1>1. TypeOK /\ CpuInv /\ TickInv /\ PassedInv
  BY Zenon DEF IInv
<1>2. /\ p \in Proc /\ p = cpu[c].p /\ cpu[c] \in CpuSet /\ cpu \in [CPU -> CpuSet]
      /\ state \in [Proc -> {"UNUSED", "RUNNABLE", "RUNNING", "SLEEPING", "ZOMBIE"}]
      /\ lock \in [Proc -> CPU \cup {None}] /\ ran \in [Proc -> Nat] /\ watch \in Proc
      /\ passed \subseteq CPU \X Proc
  BY <1>1, CpuTypes, Zenon DEF TypeOK
<1>3. /\ state' = [state EXCEPT ![p] = st] /\ lock' = [lock EXCEPT ![p] = c]
      /\ cpu' = [cpu EXCEPT ![c].pc = "back"] /\ ran' = [ran EXCEPT ![p] = 0]
      /\ passed' = Watched(state', {}) /\ state[p] = "RUNNING"
  BY <1>1, Zenon DEF Leave, CpuInv
<1> HIDE DEF p
<1>4. /\ \A q \in Proc \ {p} : state'[q] = state[q] /\ lock'[q] = lock[q] /\ ran'[q] = ran[q]
      /\ state'[p] = st /\ lock'[p] = c /\ ran'[p] = 0
      /\ \A d \in CPU \ {c} : cpu'[d] = cpu[d]
  BY <1>2, <1>3, ZenonT(30)
<1>5. cpu'[c].pc = "back" /\ cpu'[c].proc = p /\ cpu'[c].p = cpu[c].p
  BY <1>2, <1>3, Zenon DEF CpuSet, p
<1>6. TypeOK'
  <2>1. [cpu[c] EXCEPT !.pc = "back"] \in CpuSet
    BY <1>2, Zenon DEF CpuSet
  <2>2. cpu' \in [CPU -> CpuSet]
    BY <1>2, <1>3, <2>1, Zenon
  <2>3. passed' \subseteq CPU \X Proc
    BY <1>2, <1>3, Zenon DEF Watched
  <2> QED
    BY <1>1, <1>2, <1>3, <2>2, <2>3, Zenon DEF TypeOK, CpuSet
<1>7. CpuInv'
  <2>1. \A d \in CPU \ {c} : cpu[d].proc # p
    BY <1>1, <1>2, ProcFacts, Zenon DEF CpuInv, p
  <2>2. \A d \in CPU \ {c} : cpu[d].pc \in {"start", "run", "back"} => cpu[d].proc \in Proc
    BY <1>1, CpuTypes, Zenon
  <2> QED
    BY <1>1, <1>2, <1>4, <1>5, <2>1, <2>2 DEF CpuInv
<1>8. TickInv'
  <2>1. priority[p] >= 1
    BY <1>1, <1>2, <1>3, Zenon DEF TickInv
  <2> QED
    BY <1>1, <1>4, <2>1 DEF TickInv, p
<1>9. PassedInv'
  <2>1. passed' \subseteq passed /\ (state'[watch] # "RUNNABLE" => passed' = {})
    BY <1>3, Zenon DEF Watched
  <2>2. \A d \in CPU : /\ cpu'[d].p = cpu[d].p
                       /\ \/ cpu'[d].pc = cpu[d].pc
                          \/ /\ cpu[d].pc \in {"start", "run", "back"}
                             /\ cpu'[d].pc \in {"start", "run", "back"}
    BY <1>4, <1>5, Zenon
  <2> QED
    BY <1>1, <2>1, <2>2, StayKeepsPassed, Zenon
<1> QED
  BY <1>6, <1>7, <1>8, <1>9, Zenon DEF IInv

\* The timer interrupt: the process goes on with one more tick, or yields.
LEMMA TimerStep ==
  ASSUME IInv, NEW c \in CPU, timer(c)
  PROVE  IInv'
<1> DEFINE p == cpu[c].proc
           t == ticks[p] + 1
<1>1. TypeOK /\ CpuInv /\ TickInv /\ PassedInv /\ cpu[c].pc = "run"
  BY Zenon DEF IInv, timer
<1>2. /\ p \in Proc /\ state[p] = "RUNNING" /\ ticks \in [Proc -> 0 .. MAX_PRIORITY]
      /\ priority \in [Proc -> 0 .. MAX_PRIORITY] /\ ran \in [Proc -> Nat]
      /\ UNCHANGED <<priority, watch>>
  BY <1>1, CpuTypes, Zenon DEF TypeOK, CpuInv, timer
<1>3. CASE ticks' = [ticks EXCEPT ![p] = 0] /\ Leave(c, "RUNNABLE")
  <2>1. ticks' \in [Proc -> 0 .. MAX_PRIORITY] /\ \A q \in Proc \ {p} : ticks'[q] = ticks[q]
    BY <1>2, <1>3, WrrAssumption
  <2> HIDE DEF t
  <2> QED
    BY <1>1, <1>2, <1>3, <2>1, LeaveStep, Zenon
<1>4. CASE /\ ~QuantumUsed(p, t) /\ ticks' = [ticks EXCEPT ![p] = t]
           /\ ran' = [ran EXCEPT ![p] = @ + 1] /\ UNCHANGED <<state, lock, cpu, passed>>
  <2>1. t < priority[p] /\ t \in 0 .. MAX_PRIORITY
    BY <1>2, <1>4, WrrAssumption DEF QuantumUsed
  <2>2. TypeOK'
    BY <1>1, <1>2, <1>4, <2>1, SMTT(30) DEF TypeOK
  <2>3. CpuInv' /\ PassedInv'
    BY <1>1, <1>2, <1>4, ZenonT(30) DEF CpuInv, PassedInv
  <2>4. ticks[p] \in Nat /\ priority[p] \in Nat /\ ran[p] \in Nat
    BY <1>2, WrrAssumption
  <2>5. ran[p] <= ticks[p]
    BY <1>1, <1>2, <2>1, <2>4 DEF TickInv
  <2>6. TickInv'
    <3>1. /\ ticks'[p] = t /\ ran'[p] = ran[p] + 1
          /\ \A q \in Proc \ {p} : ticks'[q] = ticks[q] /\ ran'[q] = ran[q]
      BY <1>2, <1>4, Zenon
    <3>2. ran'[p] <= ticks'[p] /\ ticks'[p] < priority'[p] /\ priority'[p] >= 1
      BY <1>2, <2>1, <2>4, <2>5, <3>1
    <3> QED
      BY <1>1, <1>2, <1>4, <3>1, <3>2, Zenon DEF TickInv
  <2> QED
    BY <2>2, <2>3, <2>6, Zenon DEF IInv
<1> QED
  BY <1>3, <1>4, Zenon DEF timer

\* A process that has got the CPU releases its lock.
LEMMA StartStep ==
  ASSUME IInv, NEW c \in CPU, start(c)
  PROVE  IInv'
<1> DEFINE p == cpu[c].proc
<1>1. TypeOK /\ CpuInv /\ TickInv /\ PassedInv /\ cpu[c].pc = "start"
  BY Zenon DEF IInv, start
<1>2. /\ p \in Proc /\ cpu[c] \in CpuSet /\ cpu \in [CPU -> CpuSet]
      /\ lock \in [Proc -> CPU \cup {None}]
  BY <1>1, CpuTypes, Zenon DEF TypeOK
<1>3. /\ lock' = [lock EXCEPT ![p] = None] /\ cpu' = [cpu EXCEPT ![c].pc = "run"]
      /\ UNCHANGED <<state, priority, ticks, ran, watch, passed>>
  BY Zenon DEF start
<1>4. /\ \A q \in Proc \ {p} : lock'[q] = lock[q]
      /\ \A d \in CPU \ {c} : cpu'[d] = cpu[d]
      /\ cpu'[c].pc = "run" /\ cpu'[c].proc = p /\ cpu'[c].p = cpu[c].p
  BY <1>2, <1>3, Zenon DEF CpuSet
<1>5. TypeOK'
  <2>1. [cpu[c] EXCEPT !.pc = "run"] \in CpuSet
    BY <1>2, Zenon DEF CpuSet
  <2>2. cpu' \in [CPU -> CpuSet]
    BY <1>2, <1>3, <2>1, Zenon
  <2> QED
    BY <1>1, <1>2, <1>3, <2>2, Zenon DEF TypeOK, CpuSet
<1>6. CpuInv'
  <2>1. \A d \in CPU \ {c} : cpu[d].proc # p
    BY <1>1, <1>2, ProcFacts, Zenon DEF CpuInv
  <2>2. \A d \in CPU \ {c} : cpu[d].pc \in {"start", "run", "back"} => cpu[d].proc \in Proc
    BY <1>1, CpuTypes, Zenon
  <2> QED
    BY <1>1, <1>3, <1>4, <2>1, <2>2 DEF CpuInv
<1>7. TickInv'
  BY <1>1, <1>3, Zenon DEF TickInv
<1>8. PassedInv'
  <2>1. \A d \in CPU : /\ cpu'[d].p = cpu[d].p
                       /\ \/ cpu'[d].pc = cpu[d].pc
                          \/ /\ cpu[d].pc \in {"start", "run", "back"}
                             /\ cpu'[d].pc \in {"start", "run", "back"}
    BY <1>1, <1>4, Zenon
  <2> QED
    BY <1>1, <1>3, <2>1, StayKeepsPassed, Zenon DEF PassedInv
<1> QED
  BY <1>5, <1>6, <1>7, <1>8, Zenon DEF IInv

\* setpriority starts a new quantum of n ticks.
LEMMA SetStep ==
  ASSUME IInv, NEW c \in CPU, NEW n \in 0 .. (MAX_PRIORITY + 1), sys_setpriority(c, n)
  PROVE  IInv'
<1> DEFINE p == cpu[c].proc
<1>1. /\ TypeOK /\ CpuInv /\ TickInv /\ PassedInv /\ cpu[c].pc = "run"
      /\ n \in 1 .. MAX_PRIORITY
      /\ priority' = [priority EXCEPT ![p] = n] /\ ticks' = [ticks EXCEPT ![p] = 0]
      /\ ran' = [ran EXCEPT ![p] = 0] /\ UNCHANGED <<state, lock, cpu, watch, passed>>
  BY WrrAssumption DEF IInv, sys_setpriority
<1>2. p \in Proc /\ state[p] = "RUNNING"
  BY <1>1, CpuTypes, Zenon DEF CpuInv
<1>3. TypeOK'
  BY <1>1, <1>2, WrrAssumption DEF TypeOK
<1>4. CpuInv' /\ PassedInv'
  BY <1>1, ZenonT(30) DEF CpuInv, PassedInv
<1>5. TickInv'
  <2>1. /\ priority'[p] = n /\ ticks'[p] = 0 /\ ran'[p] = 0
        /\ \A q \in Proc \ {p} : /\ priority'[q] = priority[q] /\ ticks'[q] = ticks[q]
                                 /\ ran'[q] = ran[q]
    BY <1>1, <1>2, Zenon DEF TypeOK
  <2>2. n >= 1 /\ 0 <= 0 /\ 0 < n
    BY <1>1, WrrAssumption
  <2> QED
    BY <1>1, <1>2, <2>1, <2>2 DEF TickInv
<1> QED
  BY <1>3, <1>4, <1>5, Zenon DEF IInv

\* The caller of fork hands on its priority.
LEMMA ForkStep ==
  ASSUME IInv, NEW c \in CPU, fork(c)
  PROVE  IInv'
<1>1. TypeOK /\ CpuInv /\ TickInv /\ PassedInv /\ cpu[c].pc = "run"
  BY Zenon DEF IInv, fork
<1>2. PICK np \in Proc : /\ state[np] = "UNUSED" /\ state' = [state EXCEPT ![np] = "RUNNABLE"]
                         /\ priority' = [priority EXCEPT ![np] = priority[cpu[c].proc]]
                         /\ ticks' = [ticks EXCEPT ![np] = 0]
  BY Zenon DEF fork, allocproc
<1>3. /\ cpu[c].proc \in Proc /\ state[cpu[c].proc] = "RUNNING"
      /\ UNCHANGED <<lock, cpu, ran, watch, passed>> /\ watch \in Proc
  BY <1>1, CpuTypes, Zenon DEF CpuInv, fork, TypeOK
<1>4. /\ state'[np] = "RUNNABLE" /\ priority'[np] = priority[cpu[c].proc]
      /\ \A q \in Proc \ {np} : /\ state'[q] = state[q] /\ priority'[q] = priority[q]
                                /\ ticks'[q] = ticks[q]
  BY <1>1, <1>2, Zenon DEF TypeOK
<1>5. TypeOK'
  BY <1>1, <1>2, <1>3, WrrAssumption DEF TypeOK
<1>6. CpuInv'
  <2>1. \A d \in CPU : cpu[d].pc \in {"start", "run"} => cpu[d].proc \in Proc \ {np}
    BY <1>1, <1>2, CpuTypes, Zenon DEF CpuInv
  <2> QED
    BY <1>1, <1>3, <1>4, <2>1 DEF CpuInv
<1>7. TickInv'
  BY <1>1, <1>2, <1>3, <1>4 DEF TickInv
<1>8. PassedInv'
  <2>1. state'[watch] # "RUNNABLE" => passed = {}
    BY <1>1, <1>3, <1>4, Zenon DEF PassedInv
  <2> QED
    BY <1>1, <1>3, <2>1, StayKeepsPassed, Zenon
<1> QED
  BY <1>5, <1>6, <1>7, <1>8, Zenon DEF IInv

\* wait frees a ZOMBIE; a wakeup or a kill makes a sleeper RUNNABLE.
LEMMA OtherStep ==
  ASSUME IInv, NEW p \in Proc, wait(p) \/ wakeup(p)
  PROVE  IInv'
<1>1. /\ TypeOK /\ CpuInv /\ TickInv /\ PassedInv
      /\ UNCHANGED <<priority, ticks, lock, cpu, ran, watch, passed>>
  BY Zenon DEF IInv, wait, freeproc, wakeup
<1>2. PICK st \in {"UNUSED", "RUNNABLE"} : state' = [state EXCEPT ![p] = st]
  BY Zenon DEF wait, freeproc, wakeup
<1>3. /\ state[p] \in {"ZOMBIE", "SLEEPING"} /\ state'[p] = st
      /\ \A q \in Proc \ {p} : state'[q] = state[q]
  BY <1>1, <1>2, Zenon DEF wait, freeproc, wakeup, TypeOK
<1>4. TypeOK'
  BY <1>1, <1>2, Zenon DEF TypeOK
<1>5. CpuInv'
  <2>1. \A d \in CPU : cpu[d].pc \in {"start", "run"} => cpu[d].proc \in Proc \ {p}
    BY <1>1, <1>3, CpuTypes, Zenon DEF CpuInv
  <2> QED
    BY <1>1, <1>3, <2>1, Zenon DEF CpuInv
<1>6. TickInv'
  BY <1>1, <1>3, Zenon DEF TickInv
<1>7. PassedInv'
  <2>1. watch \in Proc
    BY <1>1, Zenon DEF TypeOK
  <2>2. state'[watch] # "RUNNABLE" => passed = {}
    BY <1>1, <1>3, <2>1, Zenon DEF PassedInv
  <2> QED
    BY <1>1, <2>2, StayKeepsPassed, Zenon
<1> QED
  BY <1>4, <1>5, <1>6, <1>7, Zenon DEF IInv

\* Every step of every CPU and process keeps the invariant.
LEMMA InvStep == IInv /\ [Next]_vars => IInv'
<1> SUFFICES ASSUME IInv, [Next]_vars PROVE IInv'
  BY Zenon
<1>1. CASE UNCHANGED vars
  <2>1. UNCHANGED <<state, priority, ticks, lock, cpu, ran, watch, passed>>
    BY <1>1, Zenon DEF vars
  <2>2. TypeOK' /\ CpuInv'
    BY <2>1, Zenon DEF IInv, TypeOK, CpuInv
  <2>3. TickInv' /\ PassedInv'
    BY <2>1, Zenon DEF IInv, TickInv, PassedInv
  <2> QED
    BY <2>2, <2>3, Zenon DEF IInv
<1>2. ASSUME NEW c \in CPU, sleep(c) \/ exit(c) PROVE IInv'
  <2>1. /\ UNCHANGED <<priority, ticks, watch>> /\ cpu[c].pc = "run"
        /\ ticks \in [Proc -> 0 .. MAX_PRIORITY]
    BY <1>2, Zenon DEF sleep, exit, IInv, TypeOK
  <2>2. CASE Leave(c, "SLEEPING")
    BY <2>1, <2>2, LeaveStep, Zenon
  <2>3. CASE Leave(c, "ZOMBIE")
    BY <2>1, <2>3, LeaveStep, Zenon
  <2> QED
    BY <1>2, <2>2, <2>3, Zenon DEF sleep, exit
<1> QED
  BY <1>1, <1>2, ScanStep, DispatchStep, TimerStep, StartStep, SetStep, ForkStep, OtherStep, Zenon
     DEF Next, CpuStep

\* Types hold always: the ticks of a process never exceed MAX_PRIORITY.
THEOREM WrrTypes == Spec => []TypeOK
<1>1. IInv => TypeOK
  BY Zenon DEF IInv
<1> QED
  BY InvInit, InvStep, <1>1, PTL DEF Spec

\* However the CPUs interleave, trap.c never lets a process run beyond as many
\* timer ticks at a stretch as its priority.
THEOREM QuantumHolds == Spec => []QuantumIsBounded
<1>1. IInv => QuantumIsBounded
  <2> SUFFICES ASSUME IInv, NEW p \in Proc, state[p] = "RUNNING" PROVE ran[p] < priority[p]
    BY Zenon DEF QuantumIsBounded
  <2>1. priority[p] \in Int /\ ticks[p] \in Int /\ ran[p] \in Int
    BY WrrAssumption DEF IInv, TypeOK
  <2>2. /\ priority[p] >= 1
        /\ \/ ticks[p] = priority[p] /\ ran[p] = 0
           \/ ran[p] <= ticks[p] /\ ticks[p] < priority[p]
    BY Zenon DEF IInv, TickInv
  <2> QED
    BY <2>1, <2>2
<1> QED
  BY InvInit, InvStep, <1>1, PTL DEF Spec

\* The scan of scheduler() is a round robin on any number of CPUs: while a
\* process waits RUNNABLE, no CPU gives another process a second turn.
THEOREM RoundRobin == Spec => NoSecondTurn
<1>1. IInv /\ [Next]_vars => [\A c \in CPU : dispatch(c) => <<c, cpu[c].p>> \notin passed]_vars
  BY DispatchStep, Zenon
<1> QED
  BY InvInit, InvStep, <1>1, PTL DEF Spec, NoSecondTurn
-----------------------------------------------------------------------------
(* Lottery scheduling *)

CONSTANTS Half, Default, Tickets

VARIABLES tickets, calm

L == INSTANCE Lottery

LotteryCpuSet == [pc : {"sum", "pick", "start", "run", "back", "wfi"},
                  proc : L!Proc \cup {None}, p : L!Proc, found : BOOLEAN,
                  total : 0 .. (2 * Half - 1), winner : 0 .. (Half - 1), prefix : 0 .. (2 * Half - 1)]

\* A CPU has a process between its dispatch and its return, no two have the
\* same, and each holds the lock of its process on the way in and out.
LotteryCpuInv ==
  /\ \A c \in CPU : cpu[c].pc \in {"start", "run", "back"} => cpu[c].proc \in L!Proc
  /\ \A c \in CPU : cpu[c].pc \in {"sum", "pick", "wfi"} => cpu[c].proc = None
  /\ \A c \in CPU : cpu[c].pc \in {"start", "run"} => state[cpu[c].proc] = "RUNNING"
  /\ \A c \in CPU : cpu[c].pc \in {"start", "back"} => lock[cpu[c].proc] = c
  /\ \A c, d \in CPU : cpu[c].proc = cpu[d].proc /\ cpu[c].proc # None => c = d

\* Who is RUNNING is on a CPU.
RunInv == \A p \in L!Proc : state[p] = "RUNNING" =>
            \E c \in CPU : cpu[c].proc = p /\ cpu[c].pc \in {"start", "run"}

\* Tickets are ints, and the second pass has not gone beyond the ticket drawn.
DrawInv ==
  /\ \A p \in L!Proc : tickets[p] < Half
  /\ \A c \in CPU : cpu[c].pc = "pick" => cpu[c].prefix <= cpu[c].winner + 1

LotteryIInv == L!TypeOK /\ LotteryCpuInv /\ RunInv /\ DrawInv
-----------------------------------------------------------------------------
(* Arithmetic. *)

\* A remainder is not larger than the dividend, and less than the divisor.
LEMMA Remainder ==
  ASSUME NEW r \in Nat, NEW u \in Nat \ {0}
  PROVE  r % u \in 0 .. r /\ r % u < u /\ (r < u => r % u = r)
<1>1. r % u \in 0 .. (u - 1)
  OBVIOUS
<1>2. r < u => r % u = r
  OBVIOUS
<1> QED
  BY <1>1, <1>2

\* A uint is in range, and a number in range is a uint.
LEMMA UintFacts ==
  ASSUME L!ConstantsOK, NEW x \in Nat
  PROVE  L!uint(x) \in 0 .. (2 * Half - 1) /\ (x < 2 * Half => L!uint(x) = x)
<1>1. 2 * Half \in Nat \ {0}
  BY DEF L!ConstantsOK
<1> DEFINE u == 2 * Half
<1>2. u \in Nat \ {0} /\ L!uint(x) = x % u
  BY <1>1, Zenon DEF L!uint
<1> HIDE DEF u
<1>3. L!uint(x) \in 0 .. x /\ L!uint(x) < u /\ (x < u => L!uint(x) = x)
  BY <1>2, Remainder
<1>4. L!uint(x) \in 0 .. (u - 1) /\ (x < u => L!uint(x) = x)
  BY <1>2, <1>3
<1> QED
  BY <1>4, Zenon DEF u

\* rand32() % (uint)total is a non-negative int.
LEMMA DrawFacts ==
  ASSUME L!ConstantsOK, NEW t \in Nat, NEW w \in L!Draws(t)
  PROVE  w \in 0 .. (Half - 1)
<1>1. PICK r \in 0 .. (Half - 1) : w = IF L!uint(t) = 0 THEN r ELSE r % L!uint(t)
  BY Zenon DEF L!Draws
<1>2. L!uint(t) \in Nat
  BY UintFacts DEF L!ConstantsOK
<1>3. CASE L!uint(t) = 0
  BY <1>1, <1>3, Zenon
<1>4. CASE L!uint(t) # 0
  <2>1. r % L!uint(t) \in 0 .. r
    BY <1>2, <1>4, Remainder DEF L!ConstantsOK
  <2>2. w = r % L!uint(t)
    BY <1>1, <1>4, Zenon
  <2>3. r \in Nat /\ r <= Half - 1
    BY DEF L!ConstantsOK
  <2> QED
    BY <2>1, <2>2, <2>3 DEF L!ConstantsOK
<1> QED
  BY <1>3, <1>4, Zenon

\* Entries of the table are numbers; no process and no CPU is None.
LEMMA LotteryProcFacts ==
  ASSUME L!ConstantsOK
  PROVE  /\ \A p \in L!Proc : p \in Int /\ 1 <= p /\ p <= NPROC /\ p # None
         /\ \A p \in L!Proc : p # NPROC => p + 1 \in L!Proc
         /\ 1 \in L!Proc /\ L!initproc \in L!Proc
         /\ \A c \in CPU : c # None
BY DEF L!ConstantsOK, L!Proc, L!initproc

\* The test and the sum of the second pass do not wrap around: an entry that
\* does not win leaves the prefix at most one beyond the ticket drawn.
LEMMA PassFacts ==
  ASSUME L!ConstantsOK, NEW prefix \in 0 .. (2 * Half - 1), NEW winner \in 0 .. (Half - 1),
         NEW t \in 1 .. (Half - 1), prefix <= winner + 1
  PROVE  /\ L!uint(prefix + t - 1) = prefix + t - 1
         /\ winner >= L!uint(prefix + t - 1) => L!uint(prefix + t) <= winner + 1
<1>1. Half \in Nat /\ Half >= 2 /\ prefix \in Nat /\ winner \in Nat /\ t \in Nat
  BY DEF L!ConstantsOK
<1>2. prefix + t - 1 \in Nat /\ prefix + t - 1 < 2 * Half /\ prefix + t \in Nat /\ prefix + t < 2 * Half
  BY <1>1
<1>3. L!uint(prefix + t - 1) = prefix + t - 1 /\ L!uint(prefix + t) = prefix + t
  BY <1>2, UintFacts, Zenon
<1> QED
  BY <1>1, <1>3
-----------------------------------------------------------------------------
(* The invariant. *)

\* The types of what the steps read.
LEMMA Types ==
  ASSUME L!ConstantsOK, LotteryIInv, NEW c \in CPU
  PROVE  /\ cpu \in [CPU -> LotteryCpuSet] /\ cpu[c] \in LotteryCpuSet /\ cpu[c].p \in L!Proc
         /\ cpu[c].total \in 0 .. (2 * Half - 1) /\ cpu[c].winner \in 0 .. (Half - 1)
         /\ cpu[c].prefix \in 0 .. (2 * Half - 1) /\ cpu[c].found \in BOOLEAN
         /\ state \in [L!Proc -> {"UNUSED", "RUNNABLE", "RUNNING", "SLEEPING", "ZOMBIE"}]
         /\ lock \in [L!Proc -> CPU \cup {None}] /\ tickets \in [L!Proc -> Nat]
<1>1. cpu \in [CPU -> LotteryCpuSet]
  BY Zenon DEF LotteryIInv, L!TypeOK, LotteryCpuSet
<1>2. cpu[c] \in LotteryCpuSet
  BY <1>1, Zenon
<1> QED
  BY <1>1, <1>2, Zenon DEF LotteryIInv, L!TypeOK, LotteryCpuSet

\* The floor of one ticket is never needed.
LEMMA WeightFacts ==
  ASSUME L!ConstantsOK, LotteryIInv, NEW p \in L!Proc, state[p] = "RUNNABLE"
  PROVE  L!Weight(p) = tickets[p] /\ L!Weight(p) \in 1 .. (Half - 1)
<1>1. tickets[p] \in Nat /\ tickets[p] >= 1 /\ tickets[p] < Half
  BY Zenon DEF LotteryIInv, L!TypeOK, DrawInv
<1> QED
  BY <1>1 DEF L!ConstantsOK, L!Weight

\* The invariant holds when the CPUs enter scheduler().
LEMMA LotteryInvInit ==
  ASSUME L!ConstantsOK PROVE L!Init => LotteryIInv
<1> SUFFICES ASSUME L!Init PROVE LotteryIInv
  BY Zenon
<1>1. L!Top \in LotteryCpuSet /\ L!Top.pc = "sum" /\ L!Top.proc = None
  BY LotteryProcFacts DEF L!ConstantsOK, L!Top, L!Scan, LotteryCpuSet
<1>2. /\ \A c \in CPU : cpu[c] = L!Top
      /\ \A p \in L!Proc : state[p] \in {"UNUSED", "RUNNABLE"}
      /\ \A p \in L!Proc : tickets[p] \in {0, Default}
      /\ \A p \in L!Proc : state[p] # "UNUSED" => tickets[p] = Default
  BY Zenon DEF L!Init
<1>3. LotteryCpuInv /\ RunInv
  BY <1>1, <1>2, Zenon DEF LotteryCpuInv, RunInv
<1>4. DrawInv
  BY <1>1, <1>2 DEF L!ConstantsOK, DrawInv
<1>5. L!TypeOK
  <2>1. cpu \in [CPU -> LotteryCpuSet]
    BY <1>1, Zenon DEF L!Init
  <2>2. Default \in Nat /\ Default >= 1
    BY DEF L!ConstantsOK
  <2>3. \A p \in L!Proc : state[p] # "UNUSED" => tickets[p] >= 1
    BY <1>2, <2>2, Zenon
  <2> QED
    BY <2>1, <2>2, <2>3, Zenon DEF L!Init, L!TypeOK, LotteryCpuSet
<1> QED
  BY <1>3, <1>4, <1>5, Zenon DEF LotteryIInv

\* CPU c, without a process before and after, becomes r; nothing else changes.
LEMMA PassStep ==
  ASSUME L!ConstantsOK, LotteryIInv, NEW c \in CPU, NEW r \in LotteryCpuSet, cpu' = [cpu EXCEPT ![c] = r],
         cpu[c].pc \in {"sum", "pick", "wfi"}, r.pc \in {"sum", "pick", "wfi"}, r.proc = None,
         r.pc = "pick" => r.prefix <= r.winner + 1,
         UNCHANGED <<state, tickets, lock>>, calm' \subseteq CPU
  PROVE  LotteryIInv'
<1>1. L!TypeOK /\ LotteryCpuInv /\ RunInv /\ DrawInv
  BY Zenon DEF LotteryIInv
<1>2. cpu'[c] = r /\ \A d \in CPU \ {c} : cpu'[d] = cpu[d]
  BY Types, Zenon
<1>3. cpu' \in [CPU -> LotteryCpuSet]
  BY Types, Zenon
<1>4. L!TypeOK'
  BY <1>1, <1>3, Zenon DEF L!TypeOK, LotteryCpuSet
<1>5. LotteryCpuInv'
  BY <1>1, <1>2 DEF LotteryCpuInv
<1>6. RunInv'
  <2>1. \A d \in CPU : cpu[d].pc \in {"start", "run"} => d # c
    BY Zenon
  <2> QED
    BY <1>1, <1>2, <2>1 DEF RunInv
<1>7. DrawInv'
  BY <1>1, <1>2, Zenon DEF DrawInv
<1> QED
  BY <1>4, <1>5, <1>6, <1>7, Zenon DEF LotteryIInv

\* The records that the passes of scheduler() go to.
LEMMA ScanType ==
  ASSUME L!ConstantsOK, NEW at \in {"sum", "pick", "wfi"}, NEW p \in L!Proc, NEW f \in BOOLEAN,
         NEW t \in 0 .. (2 * Half - 1), NEW w \in 0 .. (Half - 1), NEW x \in 0 .. (2 * Half - 1)
  PROVE  /\ L!Scan(at, p, f, t, w, x) \in LotteryCpuSet
         /\ L!Scan(at, p, f, t, w, x).pc = at /\ L!Scan(at, p, f, t, w, x).proc = None
         /\ L!Scan(at, p, f, t, w, x).prefix = x /\ L!Scan(at, p, f, t, w, x).winner = w
BY Zenon DEF L!Scan, LotteryCpuSet

\* Zero is an int and a uint.
LEMMA Zero ==
  ASSUME L!ConstantsOK PROVE 0 \in 0 .. (Half - 1) /\ 0 \in 0 .. (2 * Half - 1) /\ 0 <= 0 + 1
BY DEF L!ConstantsOK

\* An iteration of the first pass keeps the invariant, and so does the draw after it.
LEMMA AddUpStep ==
  ASSUME L!ConstantsOK, LotteryIInv, NEW c \in CPU, L!add_up(c)
  PROVE  LotteryIInv'
<1> DEFINE p == cpu[c].p
           found == cpu[c].found \/ state[p] = "RUNNABLE"
           total == IF state[p] = "RUNNABLE" THEN L!uint(cpu[c].total + L!Weight(p)) ELSE cpu[c].total
<1>1. /\ cpu[c].pc = "sum" /\ UNCHANGED <<state, tickets, lock>> /\ calm' \subseteq CPU
  BY Zenon DEF L!add_up, LotteryIInv, L!TypeOK
<1>2. p \in L!Proc /\ found \in BOOLEAN /\ total \in 0 .. (2 * Half - 1)
  <2>1. p \in L!Proc /\ found \in BOOLEAN /\ cpu[c].total \in 0 .. (2 * Half - 1)
    BY Types, Zenon
  <2>2. state[p] = "RUNNABLE" => L!uint(cpu[c].total + L!Weight(p)) \in 0 .. (2 * Half - 1)
    <3>1. SUFFICES ASSUME state[p] = "RUNNABLE"
                   PROVE  L!uint(cpu[c].total + L!Weight(p)) \in 0 .. (2 * Half - 1)
      BY Zenon
    <3>2. L!Weight(p) \in 1 .. (Half - 1)
      BY <2>1, <3>1, WeightFacts, Zenon
    <3>3. cpu[c].total + L!Weight(p) \in Nat
      BY <2>1, <3>2 DEF L!ConstantsOK
    <3> QED
      BY <3>3, UintFacts, Zenon
  <2> QED
    BY <2>1, <2>2, Zenon
<1>3. \/ p < NPROC /\ cpu' = [cpu EXCEPT ![c] = L!Scan("sum", p + 1, found, total, 0, 0)]
      \/ cpu' = [cpu EXCEPT ![c] = L!Wfi]
      \/ \E w \in L!Draws(total) : cpu' = [cpu EXCEPT ![c] = L!Scan("pick", 1, FALSE, total, w, 0)]
  BY Zenon DEF L!add_up
<1> HIDE DEF p, found, total
<1>4. CASE p < NPROC /\ cpu' = [cpu EXCEPT ![c] = L!Scan("sum", p + 1, found, total, 0, 0)]
  <2>1. p + 1 \in L!Proc
    BY <1>2, <1>4, LotteryProcFacts
  <2>2. /\ L!Scan("sum", p + 1, found, total, 0, 0) \in LotteryCpuSet
        /\ L!Scan("sum", p + 1, found, total, 0, 0).pc = "sum"
        /\ L!Scan("sum", p + 1, found, total, 0, 0).proc = None
    BY <1>2, <2>1, Zero, ScanType
  <2> QED
    BY <1>1, <1>4, <2>2, PassStep, Zenon
<1>5. CASE cpu' = [cpu EXCEPT ![c] = L!Wfi]
  <2>1. L!Wfi \in LotteryCpuSet /\ L!Wfi.pc = "wfi" /\ L!Wfi.proc = None
    BY LotteryProcFacts, Zero, Zenon DEF L!Wfi, L!Scan, LotteryCpuSet
  <2> QED
    BY <1>1, <1>5, <2>1, PassStep, Zenon
<1>6. ASSUME NEW w \in L!Draws(total), cpu' = [cpu EXCEPT ![c] = L!Scan("pick", 1, FALSE, total, w, 0)]
      PROVE  LotteryIInv'
  <2> DEFINE r == L!Scan("pick", 1, FALSE, total, w, 0)
  <2>1. w \in 0 .. (Half - 1)
    BY <1>2, DrawFacts DEF L!ConstantsOK
  <2>2. r \in LotteryCpuSet /\ r.pc = "pick" /\ r.proc = None /\ r.prefix = 0 /\ r.winner = w
    BY <1>2, <2>1, LotteryProcFacts, Zero, Zenon DEF L!Scan, LotteryCpuSet
  <2> HIDE DEF r
  <2>3. r.prefix <= r.winner + 1
    BY <2>1, <2>2 DEF L!ConstantsOK
  <2>4. cpu' = [cpu EXCEPT ![c] = r]
    BY <1>6, Zenon DEF r
  <2> QED
    BY <1>1, <2>2, <2>3, <2>4, PassStep, Zenon
<1> QED
  BY <1>3, <1>4, <1>5, <1>6, Zenon

\* An iteration of the second pass that dispatches nobody keeps the invariant.
LEMMA PassOverStep ==
  ASSUME L!ConstantsOK, LotteryIInv, NEW c \in CPU, L!pass_over(c)
  PROVE  LotteryIInv'
<1> DEFINE p == cpu[c].p
           x == IF state[p] = "RUNNABLE" THEN L!uint(cpu[c].prefix + L!Weight(p)) ELSE cpu[c].prefix
           r == L!Scan("pick", p + 1, FALSE, cpu[c].total, cpu[c].winner, x)
<1>1. /\ cpu[c].pc = "pick" /\ UNCHANGED <<state, tickets, lock, calm>> /\ calm \subseteq CPU
      /\ ~(state[p] = "RUNNABLE" /\ L!Wins(cpu[c]))
      /\ cpu' = [cpu EXCEPT ![c] = IF p = NPROC THEN L!Wfi ELSE r]
  BY Zenon DEF L!pass_over, LotteryIInv, L!TypeOK
<1>2. /\ p \in L!Proc /\ cpu[c].total \in 0 .. (2 * Half - 1) /\ cpu[c].winner \in 0 .. (Half - 1)
      /\ cpu[c].prefix \in 0 .. (2 * Half - 1) /\ cpu[c].prefix <= cpu[c].winner + 1
  BY <1>1, Types, Zenon DEF LotteryIInv, DrawInv
<1>3. CASE p = NPROC
  <2>1. L!Wfi \in LotteryCpuSet /\ L!Wfi.pc = "wfi" /\ L!Wfi.proc = None
    BY LotteryProcFacts, Zero, Zenon DEF L!Wfi, L!Scan, LotteryCpuSet
  <2>2. cpu' = [cpu EXCEPT ![c] = L!Wfi]
    BY <1>1, <1>3, Zenon
  <2> QED
    BY <1>1, <2>1, <2>2, PassStep, Zenon
<1>4. CASE p # NPROC
  <2>1. x \in 0 .. (2 * Half - 1) /\ x <= cpu[c].winner + 1
    <3>1. CASE state[p] # "RUNNABLE"
      BY <1>2, <3>1, Zenon
    <3>2. CASE state[p] = "RUNNABLE"
      <4>1. L!Weight(p) \in 1 .. (Half - 1) /\ cpu[c].winner \in Nat
        BY <1>2, <3>2, WeightFacts DEF L!ConstantsOK
      <4>2. ~(cpu[c].winner < L!uint(cpu[c].prefix + L!Weight(p) - 1))
        BY <1>1, <3>2, Zenon DEF L!Wins
      <4>3. cpu[c].prefix + L!Weight(p) \in Nat /\ cpu[c].prefix + L!Weight(p) - 1 \in Nat
        BY <1>2, <4>1 DEF L!ConstantsOK
      <4>4. L!uint(cpu[c].prefix + L!Weight(p)) \in 0 .. (2 * Half - 1)
        BY <4>3, UintFacts, Zenon
      <4>5. L!uint(cpu[c].prefix + L!Weight(p) - 1) = cpu[c].prefix + L!Weight(p) - 1
        BY <1>2, <4>1, PassFacts, Zenon
      <4>6. cpu[c].winner >= L!uint(cpu[c].prefix + L!Weight(p) - 1)
        BY <4>1, <4>2, <4>3, <4>5
      <4>7. L!uint(cpu[c].prefix + L!Weight(p)) <= cpu[c].winner + 1
        BY <1>2, <4>1, <4>6, PassFacts, Zenon
      <4> QED
        BY <3>2, <4>4, <4>7, Zenon
    <3> QED
      BY <3>1, <3>2, Zenon
  <2> HIDE DEF x
  <2>2. p + 1 \in L!Proc
    BY <1>2, <1>4, LotteryProcFacts, Zenon
  <2>3. /\ r \in LotteryCpuSet /\ r.pc = "pick" /\ r.proc = None /\ r.prefix = x
        /\ r.winner = cpu[c].winner
    BY <1>2, <2>1, <2>2, Zenon DEF L!Scan, LotteryCpuSet
  <2>4. cpu' = [cpu EXCEPT ![c] = r]
    BY <1>1, <1>4, Zenon
  <2> HIDE DEF r, p
  <2>5. r.prefix <= r.winner + 1
    BY <2>1, <2>3, Zenon
  <2> QED
    BY <1>1, <2>3, <2>4, <2>5, PassStep, Zenon
<1> QED
  BY <1>3, <1>4, Zenon

\* Who is dispatched was on no CPU: it was RUNNABLE and nobody held its lock.
LEMMA LotteryDispatchStep ==
  ASSUME L!ConstantsOK, LotteryIInv, NEW c \in CPU, L!dispatch(c)
  PROVE  LotteryIInv'
<1> DEFINE p == cpu[c].p
           r == L!Runs("start", p)
<1>1. L!TypeOK /\ LotteryCpuInv /\ RunInv /\ DrawInv
  BY Zenon DEF LotteryIInv
<1>2. /\ cpu[c].pc = "pick" /\ state[p] = "RUNNABLE" /\ lock[p] = None
      /\ state' = [state EXCEPT ![p] = "RUNNING"] /\ lock' = [lock EXCEPT ![p] = c]
      /\ cpu' = [cpu EXCEPT ![c] = r] /\ calm' = {} /\ tickets' = tickets
  BY Zenon DEF L!dispatch
<1>3. p \in L!Proc /\ p # None /\ c # None
  BY Types, LotteryProcFacts, Zenon
<1>4. r \in LotteryCpuSet /\ r.pc = "start" /\ r.proc = p
  BY <1>3, LotteryProcFacts, Zero, Zenon DEF L!Runs, LotteryCpuSet
<1> HIDE DEF r, p
<1>5. /\ cpu'[c] = r /\ \A d \in CPU \ {c} : cpu'[d] = cpu[d]
      /\ state'[p] = "RUNNING" /\ \A q \in L!Proc \ {p} : state'[q] = state[q]
      /\ lock'[p] = c /\ \A q \in L!Proc \ {p} : lock'[q] = lock[q]
  BY <1>2, <1>3, Types, Zenon
<1>6. \A d \in CPU : cpu[d].proc # p
  <2>1. SUFFICES ASSUME NEW d \in CPU, cpu[d].proc = p PROVE FALSE
    BY Zenon
  <2>2. cpu[d].pc \in {"sum", "pick", "start", "run", "back", "wfi"} /\ d # None
    BY Types, LotteryProcFacts, Zenon DEF LotteryCpuSet
  <2> QED
    BY <1>1, <1>2, <1>3, <2>1, <2>2, Zenon DEF LotteryCpuInv
<1>7. cpu' \in [CPU -> LotteryCpuSet]
  BY <1>2, <1>4, Types, Zenon
<1>8. L!TypeOK'
  <2>1. /\ state' \in [L!Proc -> {"UNUSED", "RUNNABLE", "RUNNING", "SLEEPING", "ZOMBIE"}]
        /\ lock' \in [L!Proc -> CPU \cup {None}]
    BY <1>2, Types, Zenon
  <2>2. \A q \in L!Proc : state'[q] # "UNUSED" => tickets'[q] >= 1
    BY <1>1, <1>2, <1>3, <1>5, Zenon DEF L!TypeOK
  <2> QED
    BY <1>1, <1>2, <1>7, <2>1, <2>2, Zenon DEF L!TypeOK, LotteryCpuSet
<1>9. LotteryCpuInv'
  <2>1. \A d \in CPU \ {c} : cpu[d].pc \in {"start", "run", "back"} => cpu[d].proc \in L!Proc \ {p}
    BY <1>1, <1>6, Zenon DEF LotteryCpuInv
  <2> QED
    BY <1>1, <1>3, <1>4, <1>5, <1>6, <2>1 DEF LotteryCpuInv
<1>10. RunInv'
  <2>1. SUFFICES ASSUME NEW q \in L!Proc, state'[q] = "RUNNING"
                 PROVE  \E d \in CPU : cpu'[d].proc = q /\ cpu'[d].pc \in {"start", "run"}
    BY Zenon DEF RunInv
  <2>2. CASE q = p
    BY <1>4, <1>5, <2>2, Zenon
  <2>3. CASE q # p
    <3>1. PICK d \in CPU : cpu[d].proc = q /\ cpu[d].pc \in {"start", "run"}
      BY <1>1, <1>5, <2>1, <2>3 DEF RunInv
    <3>2. d # c
      BY <1>2, <3>1, Zenon
    <3> QED
      BY <1>5, <3>1, <3>2, Zenon
  <2> QED
    BY <2>2, <2>3, Zenon
<1>11. DrawInv'
  BY <1>1, <1>2, <1>4, <1>5 DEF DrawInv
<1> QED
  BY <1>8, <1>9, <1>10, <1>11, Zenon DEF LotteryIInv

\* The process of CPU c gives up the CPU in a state that is not RUNNING.
LEMMA LotteryLeaveStep ==
  ASSUME L!ConstantsOK, LotteryIInv, NEW c \in CPU, NEW st \in {"RUNNABLE", "SLEEPING", "ZOMBIE"}, L!Leave(c, st)
  PROVE  LotteryIInv'
<1> DEFINE p == cpu[c].proc
           r == [cpu[c] EXCEPT !.pc = "back"]
<1>1. L!TypeOK /\ LotteryCpuInv /\ RunInv /\ DrawInv
  BY Zenon DEF LotteryIInv
<1>2. /\ cpu[c].pc = "run" /\ lock[p] = None
      /\ state' = [state EXCEPT ![p] = st] /\ lock' = [lock EXCEPT ![p] = c]
      /\ cpu' = [cpu EXCEPT ![c] = r] /\ calm' = {} /\ tickets' = tickets
  BY Zenon DEF L!Leave
<1>3. p \in L!Proc /\ p # None /\ state[p] = "RUNNING"
  BY <1>1, <1>2, LotteryProcFacts, Zenon DEF LotteryCpuInv
<1>4. r \in LotteryCpuSet /\ r.pc = "back" /\ r.proc = p
  BY Types, ZenonT(30) DEF LotteryCpuSet
<1>5. \A d \in CPU \ {c} : cpu[d].proc # p
  BY <1>1, <1>3, Zenon DEF LotteryCpuInv
<1> HIDE DEF r
<1>6. /\ cpu'[c] = r /\ \A d \in CPU \ {c} : cpu'[d] = cpu[d]
      /\ state'[p] = st /\ \A q \in L!Proc \ {p} : state'[q] = state[q]
      /\ lock'[p] = c /\ \A q \in L!Proc \ {p} : lock'[q] = lock[q]
  BY <1>2, <1>3, Types, Zenon
<1>7. cpu' \in [CPU -> LotteryCpuSet]
  BY <1>2, <1>4, Types, Zenon
<1>8. cpu[c].proc = p
  BY Zenon
<1> HIDE DEF p
<1>9. L!TypeOK'
  <2>1. /\ state' \in [L!Proc -> {"UNUSED", "RUNNABLE", "RUNNING", "SLEEPING", "ZOMBIE"}]
        /\ lock' \in [L!Proc -> CPU \cup {None}]
    BY <1>2, Types, Zenon
  <2>2. \A q \in L!Proc : state'[q] # "UNUSED" => tickets'[q] >= 1
    BY <1>1, <1>2, <1>3, <1>6, Zenon DEF L!TypeOK
  <2> QED
    BY <1>1, <1>2, <1>7, <2>1, <2>2, Zenon DEF L!TypeOK, LotteryCpuSet
<1>10. LotteryCpuInv'
  <2>1. \A d \in CPU \ {c} : cpu[d].pc \in {"start", "run", "back"} => cpu[d].proc \in L!Proc \ {p}
    BY <1>1, <1>5, Zenon DEF LotteryCpuInv
  <2> QED
    BY <1>1, <1>3, <1>4, <1>5, <1>6, <2>1 DEF LotteryCpuInv
<1>11. RunInv'
  <2>1. SUFFICES ASSUME NEW q \in L!Proc, state'[q] = "RUNNING"
                 PROVE  \E d \in CPU : cpu'[d].proc = q /\ cpu'[d].pc \in {"start", "run"}
    BY Zenon DEF RunInv
  <2>2. q # p
    BY <1>6, <2>1, Zenon
  <2>3. PICK d \in CPU : cpu[d].proc = q /\ cpu[d].pc \in {"start", "run"}
    BY <1>1, <1>6, <2>1, <2>2 DEF RunInv
  <2>4. d # c
    BY <1>8, <2>2, <2>3, Zenon
  <2> QED
    BY <1>6, <2>3, <2>4, Zenon
<1>12. DrawInv'
  BY <1>1, <1>2, <1>4, <1>6 DEF DrawInv
<1> QED
  BY <1>9, <1>10, <1>11, <1>12, Zenon DEF LotteryIInv

\* The lock of the process of CPU c is released, by the process after it has
\* been dispatched and by scheduler() after it has come back.
LEMMA ReleaseStep ==
  ASSUME L!ConstantsOK, LotteryIInv, NEW c \in CPU, L!start(c) \/ L!back(c)
  PROVE  LotteryIInv'
<1> DEFINE p == cpu[c].proc
<1>1. L!TypeOK /\ LotteryCpuInv /\ RunInv /\ DrawInv
  BY Zenon DEF LotteryIInv
<1>2. /\ lock' = [lock EXCEPT ![p] = None] /\ UNCHANGED <<state, tickets, calm>>
      /\ cpu[c].pc \in {"start", "back"}
  BY Zenon DEF L!start, L!back
<1>3. p \in L!Proc /\ p # None
  BY <1>1, <1>2, LotteryProcFacts, Zenon DEF LotteryCpuInv
<1>4. \A d \in CPU \ {c} : cpu[d].proc # p
  BY <1>1, <1>3, Zenon DEF LotteryCpuInv
<1>5. PICK r \in LotteryCpuSet :
        /\ cpu' = [cpu EXCEPT ![c] = r]
        /\ \/ cpu[c].pc = "start" /\ r.pc = "run" /\ r.proc = p
           \/ cpu[c].pc = "back" /\ r.pc = "sum" /\ r.proc = None
  <2>1. CASE L!start(c)
    <3> DEFINE r == [cpu[c] EXCEPT !.pc = "run"]
    <3>1. r \in LotteryCpuSet /\ r.pc = "run" /\ r.proc = p
      BY Types, ZenonT(30) DEF LotteryCpuSet
    <3>2. cpu' = [cpu EXCEPT ![c] = r] /\ cpu[c].pc = "start"
      BY <2>1, Zenon DEF L!start
    <3> QED
      BY <3>1, <3>2, Zenon
  <2>2. CASE L!back(c)
    <3>1. L!Top \in LotteryCpuSet /\ L!Top.pc = "sum" /\ L!Top.proc = None
      BY Zero, LotteryProcFacts, Zenon DEF L!Top, L!Scan, LotteryCpuSet
    <3> QED
      BY <2>2, <3>1, Zenon DEF L!back
  <2> QED
    BY <2>1, <2>2, Zenon
<1>6. /\ cpu'[c] = r /\ \A d \in CPU \ {c} : cpu'[d] = cpu[d]
      /\ \A q \in L!Proc \ {p} : lock'[q] = lock[q]
  BY <1>2, <1>3, <1>5, Types, Zenon
<1>7. cpu' \in [CPU -> LotteryCpuSet] /\ lock' \in [L!Proc -> CPU \cup {None}]
  BY <1>2, <1>5, Types, Zenon
<1>8. cpu[c].proc = p
  BY Zenon
<1> HIDE DEF p
<1>9. L!TypeOK'
  BY <1>1, <1>2, <1>7, Zenon DEF L!TypeOK, LotteryCpuSet
<1>10. LotteryCpuInv'
  <2>1. \A d \in CPU \ {c} : cpu[d].pc \in {"start", "run", "back"} => cpu[d].proc \in L!Proc \ {p}
    BY <1>1, <1>4, Zenon DEF LotteryCpuInv
  <2>2. state' = state /\ (cpu[c].pc = "start" => state[p] = "RUNNING")
    BY <1>1, <1>2, <1>8, Zenon DEF LotteryCpuInv
  <2> QED
    BY <1>1, <1>3, <1>4, <1>5, <1>6, <2>1, <2>2 DEF LotteryCpuInv
<1>11. RunInv'
  <2>1. SUFFICES ASSUME NEW q \in L!Proc, state'[q] = "RUNNING"
                 PROVE  \E d \in CPU : cpu'[d].proc = q /\ cpu'[d].pc \in {"start", "run"}
    BY Zenon DEF RunInv
  <2>2. PICK d \in CPU : cpu[d].proc = q /\ cpu[d].pc \in {"start", "run"}
    BY <1>1, <1>2, <2>1, Zenon DEF RunInv
  <2>3. CASE d = c
    BY <1>5, <1>6, <1>8, <2>2, <2>3, Zenon
  <2>4. CASE d # c
    BY <1>6, <2>2, <2>4, Zenon
  <2> QED
    BY <2>3, <2>4, Zenon
<1>12. DrawInv'
  BY <1>1, <1>2, <1>5, <1>6, Zenon DEF DrawInv
<1> QED
  BY <1>9, <1>10, <1>11, <1>12, Zenon DEF LotteryIInv

\* An interrupt ends the wait of a CPU.
LEMMA InterruptStep ==
  ASSUME L!ConstantsOK, LotteryIInv, NEW c \in CPU, L!interrupt(c)
  PROVE  LotteryIInv'
<1>1. L!Top \in LotteryCpuSet /\ L!Top.pc = "sum" /\ L!Top.proc = None
  BY Zero, LotteryProcFacts, Zenon DEF L!Top, L!Scan, LotteryCpuSet
<1>2. /\ cpu[c].pc = "wfi" /\ cpu' = [cpu EXCEPT ![c] = L!Top]
      /\ UNCHANGED <<state, tickets, lock, calm>> /\ calm \subseteq CPU
  BY Zenon DEF L!interrupt, LotteryIInv, L!TypeOK
<1> QED
  BY <1>1, <1>2, PassStep, Zenon

\* A process that no CPU executes changes to a state that is not RUNNING.
LEMMA LotteryOtherStep ==
  ASSUME L!ConstantsOK, LotteryIInv, NEW p \in L!Proc, NEW st \in {"UNUSED", "RUNNABLE"}, state[p] # "RUNNING",
         state' = [state EXCEPT ![p] = st], tickets' \in [L!Proc -> Nat],
         \A q \in L!Proc : tickets'[q] < Half,
         \A q \in L!Proc \ {p} : tickets'[q] = tickets[q],
         st # "UNUSED" => tickets'[p] >= 1,
         UNCHANGED <<lock, cpu>>, calm' \subseteq CPU
  PROVE  LotteryIInv'
<1>1. L!TypeOK /\ LotteryCpuInv /\ RunInv /\ DrawInv
  BY Zenon DEF LotteryIInv
<1>2. state'[p] = st /\ \A q \in L!Proc \ {p} : state'[q] = state[q]
  BY <1>1, Zenon DEF L!TypeOK
<1>3. L!TypeOK'
  <2>1. state' \in [L!Proc -> {"UNUSED", "RUNNABLE", "RUNNING", "SLEEPING", "ZOMBIE"}]
    BY <1>1, Zenon DEF L!TypeOK
  <2>2. \A q \in L!Proc : state'[q] # "UNUSED" => tickets'[q] >= 1
    BY <1>1, <1>2, Zenon DEF L!TypeOK
  <2> QED
    BY <1>1, <2>1, <2>2, Zenon DEF L!TypeOK
<1>4. LotteryCpuInv'
  BY <1>1, <1>2 DEF LotteryCpuInv
<1>5. RunInv'
  BY <1>1, <1>2 DEF RunInv
<1>6. DrawInv'
  BY <1>1, Zenon DEF DrawInv
<1> QED
  BY <1>3, <1>4, <1>5, <1>6, Zenon DEF LotteryIInv

\* settickets and fork keep the tickets within 1 and INT_MAX.
LEMMA LotterySetStep ==
  ASSUME L!ConstantsOK, LotteryIInv, NEW c \in CPU, NEW n \in Tickets, L!sys_settickets(c, n)
  PROVE  LotteryIInv'
<1> DEFINE p == cpu[c].proc
<1>1. L!TypeOK /\ LotteryCpuInv /\ RunInv /\ DrawInv
  BY Zenon DEF LotteryIInv
<1>2. /\ cpu[c].pc = "run" /\ n >= 1 /\ tickets' = [tickets EXCEPT ![p] = n]
      /\ UNCHANGED <<state, lock, cpu, calm>>
  BY Zenon DEF L!sys_settickets
<1>3. p \in L!Proc
  BY <1>1, <1>2, Zenon DEF LotteryCpuInv
<1>4. n \in Nat /\ n < Half
  BY <1>2 DEF L!ConstantsOK
<1> HIDE DEF p
<1>5. tickets' \in [L!Proc -> Nat] /\ tickets'[p] = n /\ \A q \in L!Proc \ {p} : tickets'[q] = tickets[q]
  BY <1>2, <1>3, <1>4, Types, Zenon
<1>6. L!TypeOK'
  <2>1. \A q \in L!Proc : state'[q] # "UNUSED" => tickets'[q] >= 1
    BY <1>1, <1>2, <1>5, Zenon DEF L!TypeOK
  <2> QED
    BY <1>1, <1>2, <1>5, <2>1, Zenon DEF L!TypeOK
<1>7. LotteryCpuInv' /\ RunInv'
  BY <1>1, <1>2 DEF LotteryCpuInv, RunInv
<1>8. DrawInv'
  BY <1>1, <1>2, <1>4, <1>5, Zenon DEF DrawInv
<1> QED
  BY <1>6, <1>7, <1>8, Zenon DEF LotteryIInv

\* A child takes over at least one ticket.
LEMMA LotteryForkStep ==
  ASSUME L!ConstantsOK, LotteryIInv, NEW c \in CPU, L!fork(c)
  PROVE  LotteryIInv'
<1> DEFINE p == cpu[c].proc
<1>1. L!TypeOK /\ LotteryCpuInv /\ DrawInv
  BY Zenon DEF LotteryIInv
<1>2. PICK np \in L!Proc :
        /\ state[np] = "UNUSED" /\ state' = [state EXCEPT ![np] = "RUNNABLE"]
        /\ tickets' = [tickets EXCEPT ![np] = tickets[p]]
  BY Zenon DEF L!fork, L!allocproc
<1>3. cpu[c].pc = "run" /\ UNCHANGED <<lock, cpu>> /\ calm' \subseteq CPU
  BY Zenon DEF L!fork
<1>4. p \in L!Proc /\ state[p] = "RUNNING"
  BY <1>1, <1>3, Zenon DEF LotteryCpuInv
<1>5. tickets[p] \in Nat /\ tickets[p] >= 1 /\ tickets[p] < Half
  BY <1>1, <1>4, Zenon DEF L!TypeOK, DrawInv
<1> HIDE DEF p
<1>6. /\ tickets' \in [L!Proc -> Nat] /\ tickets'[np] = tickets[p]
      /\ \A q \in L!Proc \ {np} : tickets'[q] = tickets[q]
  BY <1>2, <1>5, Types, Zenon
<1>7. \A q \in L!Proc : tickets'[q] < Half
  BY <1>1, <1>5, <1>6, Zenon DEF DrawInv
<1> QED
  BY <1>2, <1>3, <1>5, <1>6, <1>7, LotteryOtherStep, Zenon

\* wait and wakeup find the process on no CPU.
LEMMA TableStep ==
  ASSUME L!ConstantsOK, LotteryIInv, NEW p \in L!Proc, L!wait(p) \/ L!wakeup(p)
  PROVE  LotteryIInv'
<1>1. L!TypeOK /\ DrawInv
  BY Zenon DEF LotteryIInv
<1>2. tickets' \in [L!Proc -> Nat] /\ \A q \in L!Proc : tickets'[q] < Half /\ tickets'[q] = tickets[q]
  BY <1>1, Zenon DEF L!TypeOK, DrawInv, L!wait, L!freeproc, L!wakeup
<1>3. UNCHANGED <<lock, cpu>> /\ calm' \subseteq CPU
  BY <1>1, Zenon DEF L!TypeOK, L!wait, L!freeproc, L!wakeup
<1>4. CASE L!wait(p)
  <2>1. state[p] # "RUNNING" /\ state' = [state EXCEPT ![p] = "UNUSED"]
    BY <1>4, Zenon DEF L!wait, L!freeproc
  <2> QED
    BY <1>2, <1>3, <2>1, LotteryOtherStep, Zenon
<1>5. CASE L!wakeup(p)
  <2>1. state[p] = "SLEEPING" /\ state' = [state EXCEPT ![p] = "RUNNABLE"]
    BY <1>5, Zenon DEF L!wakeup
  <2>2. tickets'[p] >= 1
    BY <1>1, <1>2, <2>1, Zenon DEF L!TypeOK
  <2> QED
    BY <1>2, <1>3, <2>1, <2>2, LotteryOtherStep, Zenon
<1> QED
  BY <1>4, <1>5, Zenon

\* Every step of a CPU or of a process keeps the invariant.
LEMMA LotteryInvStep ==
  ASSUME L!ConstantsOK PROVE LotteryIInv /\ [L!Next]_L!vars => LotteryIInv'
<1> SUFFICES ASSUME LotteryIInv, [L!Next]_L!vars PROVE LotteryIInv'
  BY Zenon
<1>1. CASE UNCHANGED L!vars
  BY <1>1 DEF L!vars, LotteryIInv, L!TypeOK, LotteryCpuInv, RunInv, DrawInv
<1>2. ASSUME NEW c \in CPU, L!add_up(c) \/ L!pass_over(c) \/ L!dispatch(c) \/ L!start(c) \/ L!back(c) \/ L!interrupt(c)
      PROVE  LotteryIInv'
  BY <1>2, AddUpStep, PassOverStep, LotteryDispatchStep, ReleaseStep, InterruptStep, Zenon
<1>3. ASSUME NEW c \in CPU, L!yield(c) \/ L!sleep(c) \/ L!exit(c)
      PROVE  LotteryIInv'
  BY <1>3, LotteryLeaveStep, Zenon DEF L!yield, L!sleep, L!exit
<1>4. ASSUME NEW c \in CPU, L!fork(c) \/ \E n \in Tickets : L!sys_settickets(c, n)
      PROVE  LotteryIInv'
  BY <1>4, LotteryForkStep, LotterySetStep, Zenon
<1>5. ASSUME NEW p \in L!Proc, L!wait(p) \/ L!wakeup(p)
      PROVE  LotteryIInv'
  BY <1>5, TableStep, Zenon
<1> QED
  BY <1>1, <1>2, <1>3, <1>4, <1>5, Zenon DEF L!Next
-----------------------------------------------------------------------------
(* The theorems. *)

\* The variables keep their types and every process of the table has at least
\* one ticket: settickets refuses less, fork inherits, allocproc starts with 10.
THEOREM LotteryTypes ==
  ASSUME L!ConstantsOK PROVE L!Spec => []L!TypeOK
<1>1. LotteryIInv => L!TypeOK
  BY Zenon DEF LotteryIInv
<1> QED
  BY <1>1, LotteryInvInit, LotteryInvStep, PTL DEF L!Spec

\* However many CPUs draw at once, scheduler() gives a process to one of them,
\* and RUNNING is the state of exactly the processes on a CPU.
THEOREM RunningOnItsCpu ==
  ASSUME L!ConstantsOK PROVE L!Spec => []L!RunningIsOnItsCpu
<1>1. LotteryIInv => L!RunningIsOnItsCpu
  BY DEF LotteryIInv, LotteryCpuInv, RunInv, L!RunningIsOnItsCpu
<1> QED
  BY <1>1, LotteryInvInit, LotteryInvStep, PTL DEF L!Spec

\* For every width of int and every number of tickets, overflow of the first
\* sum included, the second pass of scheduler() dispatches the holder of the
\* ticket after the one drawn.
THEOREM DispatchHoldsNext ==
  ASSUME L!ConstantsOK PROVE L!Spec => L!DispatchHoldsNextTicket
<1>1. ASSUME LotteryIInv, NEW c \in CPU, L!dispatch(c)
      PROVE  cpu[c].prefix <= cpu[c].winner + 1 /\ cpu[c].winner + 1 < cpu[c].prefix + tickets[cpu[c].p]
  <2> DEFINE p == cpu[c].p
  <2>1. cpu[c].pc = "pick" /\ state[p] = "RUNNABLE" /\ cpu[c].winner < L!uint(cpu[c].prefix + L!Weight(p) - 1)
    BY <1>1, Zenon DEF L!dispatch, L!Wins
  <2>2. /\ p \in L!Proc /\ cpu[c].winner \in 0 .. (Half - 1) /\ cpu[c].prefix \in 0 .. (2 * Half - 1)
        /\ cpu[c].prefix <= cpu[c].winner + 1
    BY <1>1, <2>1, Types, Zenon DEF LotteryIInv, DrawInv
  <2>3. L!Weight(p) = tickets[p] /\ L!Weight(p) \in 1 .. (Half - 1)
    BY <1>1, <2>1, <2>2, WeightFacts, Zenon
  <2>4. L!uint(cpu[c].prefix + L!Weight(p) - 1) = cpu[c].prefix + L!Weight(p) - 1
    BY <2>2, <2>3, PassFacts, Zenon
  <2>5. cpu[c].winner < cpu[c].prefix + tickets[p] - 1
    BY <2>1, <2>3, <2>4, Zenon
  <2> QED
    BY <2>2, <2>3, <2>5 DEF L!ConstantsOK
<1>2. LotteryIInv /\ [L!Next]_L!vars => [\A c \in CPU : L!dispatch(c) =>
        LET r == cpu[c]
        IN  r.prefix <= r.winner + 1 /\ r.winner + 1 < r.prefix + tickets[r.p]]_L!vars
  BY <1>1, Zenon
<1> QED
  BY <1>2, LotteryInvInit, LotteryInvStep, PTL DEF L!Spec, L!DispatchHoldsNextTicket
=============================================================================
