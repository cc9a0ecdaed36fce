----------------------------- MODULE Scheduler -----------------------------
(***************************************************************************)
(* The cooperative round-robin scheduler of kernel/mcsos_thread.c: thread  *)
(* states, the intrusive ready list and the idle thread.  The calls run to *)
(* completion (one CPU, the timer interrupt does not touch the scheduler). *)
(* Of a register context only the instruction pointer is kept: it decides  *)
(* what the CPU executes after mcsos_context_switch.  The build of the     *)
(* host tests leaves that call out, and the caller of yield goes on in the *)
(* name of the new thread.  Stacks and statistics are left out.            *)
(***************************************************************************)
EXTENDS Naturals, Sequences

CONSTANTS Threads,   \* thread objects other than the boot thread
          Idle,      \* the boot thread, which is also the idle thread
          Null,      \* the null pointer
          EnqueueOn, \* states of the threads that callers hand to enqueue
          HostTest   \* MCSOS_HOST_TEST is defined

ASSUME SchedulerAssumption ==
  /\ Idle \notin Threads
  /\ Null \notin Threads \cup {Idle}
  /\ EnqueueOn \subseteq {"NEW", "READY", "RUNNING", "BLOCKED"}
  /\ HostTest \in BOOLEAN

Thread == Threads \cup {Idle}

VARIABLES state,           \* thread->state, "none" before prepare set magic
          next,            \* thread->next
          ready_head, ready_tail, runnable_count,
          current,
          rip,             \* thread->context.rip
          fifo             \* ghost: the threads enqueued and not yet picked

list == <<next, ready_head, ready_tail, runnable_count, fifo>>
vars == <<state, next, ready_head, ready_tail, runnable_count, current, rip, fifo>>

TypeOK == /\ state \in [Thread -> {"none", "NEW", "READY", "RUNNING", "BLOCKED"}]
          /\ next \in [Thread -> Thread \cup {Null}]
          /\ ready_head \in Thread \cup {Null}
          /\ ready_tail \in Thread \cup {Null}
          /\ runnable_count \in Nat
          /\ current \in Thread
          /\ rip \in [Thread -> {"zero", "trampoline", "after_switch"}]
          /\ fifo \in Seq(Thread)

(* mcsos_scheduler_init *)
Init == /\ state = [t \in Thread |-> IF t = Idle THEN "RUNNING" ELSE "none"]
        /\ next = [t \in Thread |-> Null]
        /\ ready_head = Null
        /\ ready_tail = Null
        /\ runnable_count = 0
        /\ current = Idle
        /\ rip = [t \in Thread |-> "zero"]
        /\ fifo = <<>>

(* The CPU executes a thread's code, and not mcsos_thread_trampoline, which *)
(* halts for ever: a thread whose context was never saved starts there.    *)
Executing == HostTest \/ rip[current] # "trampoline"

(* mcsos_thread_prepare on a fresh object. *)
Prepare(t) == /\ Executing
              /\ state[t] = "none"
              /\ state' = [state EXCEPT ![t] = "NEW"]
              /\ rip' = [rip EXCEPT ![t] = "trampoline"]
              /\ next' = [next EXCEPT ![t] = Null]
              /\ UNCHANGED <<ready_head, ready_tail, runnable_count, current, fifo>>

-----------------------------------------------------------------------------
(* List surgery, on a list l of the three pointers and the counter. *)

List == [next |-> next, head |-> ready_head, tail |-> ready_tail,
         count |-> runnable_count, fifo |-> fifo]

SetList(l) == /\ next' = l.next
              /\ ready_head' = l.head
              /\ ready_tail' = l.tail
              /\ runnable_count' = l.count
              /\ fifo' = l.fifo

(* Mutants: the counter is not incremented; the thread goes to the front. *)
AppendedUncounted(l, t) ==
  [next |-> IF l.tail = Null THEN l.next ELSE [l.next EXCEPT ![l.tail] = t],
   head |-> IF l.tail = Null THEN t ELSE l.head,
   tail |-> t,
   count |-> l.count,
   fifo |-> Append(l.fifo, t)]
AppendedInFront(l, t) ==
  [next |-> [l.next EXCEPT ![t] = l.head],
   head |-> t,
   tail |-> IF l.tail = Null THEN t ELSE l.tail,
   count |-> l.count + 1,
   fifo |-> <<t>> \o l.fifo]

(* The part of mcsos_sched_enqueue after its checks. *)
Appended(l, t) ==
  LET cleared == [l.next EXCEPT ![t] = Null]
  IN  [next |-> IF l.tail = Null THEN cleared ELSE [cleared EXCEPT ![l.tail] = t],
       head |-> IF l.tail = Null THEN t ELSE l.head,
       tail |-> t,
       count |-> l.count + 1,
       fifo |-> Append(l.fifo, t)]

(* mcsos_sched_pick_next on a list that is not empty. *)
Picked(l) ==
  [next |-> [l.next EXCEPT ![l.head] = Null],
   head |-> l.next[l.head],
   tail |-> IF l.next[l.head] = Null THEN Null ELSE l.tail,
   count |-> IF l.count > 0 THEN l.count - 1 ELSE 0,
   fifo |-> Tail(l.fifo)]

-----------------------------------------------------------------------------
(* A caller enqueues a thread; ESTATE unless it is NEW, READY or BLOCKED. *)
Enqueue(t) == /\ Executing
              /\ state[t] \in EnqueueOn \cap {"NEW", "READY", "BLOCKED"}
              /\ state' = [state EXCEPT ![t] = "READY"]
              /\ SetList(Appended(List, t))
              /\ UNCHANGED <<current, rip>>

(* Mutant: a thread that yields is not put back. *)
RequeueMutant(l, old, s) == l

(* mcsos_sched_yield puts a thread back that still wants to run. *)
Requeue(l, old, s) == IF s = "RUNNING" /\ old # Idle THEN Appended(l, old) ELSE l

(* mcsos_context_switch: label 1 is saved as where old resumes. *)
ContextSwitch(old) == rip' = IF HostTest THEN rip ELSE [rip EXCEPT ![old] = "after_switch"]

(* mcsos_sched_yield by the current thread, which leaves in state s. *)
Switch(s) ==
  LET old == current
      new == IF ready_head = Null THEN Idle ELSE ready_head
      l == IF ready_head = Null THEN List ELSE Picked(List)
  IN  \/ /\ Executing
         /\ new = old
         /\ state' = [state EXCEPT ![old] = "RUNNING"]
         /\ SetList(l)
         /\ UNCHANGED <<current, rip>>
      \/ /\ Executing
         /\ new # old
         /\ state' = [state EXCEPT ![old] = IF s = "RUNNING" /\ old # Idle THEN "READY" ELSE s,
                                   ![new] = "RUNNING"]
         /\ SetList(Requeue(l, old, s))
         /\ current' = new
         /\ ContextSwitch(old)

Yield == Switch(state[current])

(* mcsos_thread_block_current; the idle thread may not block. *)
BlockCurrent == /\ current # Idle
                /\ Switch("BLOCKED")

(* mcsos_thread_mark_ready, called by whoever runs. *)
MarkReady(t) == /\ Executing
                /\ state[t] = "BLOCKED"
                /\ state' = [state EXCEPT ![t] = "READY"]
                /\ SetList(Appended(List, t))
                /\ UNCHANGED <<current, rip>>

Next == \/ \E t \in Thread : Prepare(t) \/ Enqueue(t) \/ MarkReady(t)
        \/ Yield
        \/ BlockCurrent

Spec == Init /\ [][Next]_vars

(* Cooperative scheduling: whoever runs yields or blocks again. *)
FairSpec == Spec /\ WF_vars(Yield \/ BlockCurrent)

-----------------------------------------------------------------------------
(* Properties. *)

(* The k-th thread of the ready list, counting from 0. *)
Node[k \in Nat] == IF k = 0 THEN ready_head
                   ELSE IF Node[k - 1] = Null THEN Null ELSE next[Node[k - 1]]

(* mcsos_sched_validate returns MCSOS_SCHED_OK. *)
Validate == /\ \A k \in 0..(runnable_count - 1) : /\ Node[k] # Null
                                                   /\ state[Node[k]] = "READY"
                                                   /\ Node[k] # current
            /\ Node[runnable_count] = Null
            /\ ready_tail = IF runnable_count = 0 THEN Null ELSE Node[runnable_count - 1]

(* The pointers always thread the queued threads in the order in which     *)
(* they became ready, each once, so round-robin order survives every mix   *)
(* of enqueue, yield, block and mark_ready, and mcsos_sched_validate never *)
(* reports corruption.                                                     *)
ListIsFifo ==
  /\ runnable_count = Len(fifo)
  /\ \A i, j \in 1..Len(fifo) : fifo[i] = fifo[j] => i = j
  /\ ready_head = IF fifo = <<>> THEN Null ELSE fifo[1]
  /\ ready_tail = IF fifo = <<>> THEN Null ELSE fifo[Len(fifo)]
  /\ \A i \in 1..Len(fifo) : next[fifo[i]] = IF i = Len(fifo) THEN Null ELSE fifo[i + 1]
  /\ Validate

(* A thread is READY exactly while it is queued, so none is lost, and the  *)
(* thread that has the CPU is RUNNING and no other is, the idle thread     *)
(* excepted, which mcsos_sched_yield leaves in that state.                 *)
ReadyIffQueued ==
  /\ \A t \in Thread : state[t] = "READY" <=> \E i \in 1..Len(fifo) : fifo[i] = t
  /\ state[current] = "RUNNING"
  /\ \A t \in Threads : state[t] = "RUNNING" => t = current

(* What the report says: "Seluruh thread READY berada pada runqueue", all  *)
(* READY threads are on the runqueue.                                      *)
AllReadyOnRunqueue ==
  \A t \in Thread : state[t] = "READY" => \E k \in 0..runnable_count : Node[k] = t

(* Every ready thread gets its turn. *)
ReadyRuns == \A t \in Threads : state[t] = "READY" ~> current = t

(* "Thread dieksekusi bergiliran melalui yield", threads are executed in   *)
(* turn by yielding: a ready thread comes to execute its own code.         *)
ReadyExecutes ==
  \A t \in Threads : state[t] = "READY" ~> current = t /\ rip[t] # "trampoline"
=============================================================================
