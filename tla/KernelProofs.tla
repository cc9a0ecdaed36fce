---------------------------- MODULE KernelProofs ----------------------------
(***************************************************************************)
(* The ready list of kernel/mcsos_thread.c, the range checks of            *)
(* kernel/syscall/syscall.c and kernel/user/m11_elf_loader.c, and what the *)
(* system calls do with them, for words of every size and for any user     *)
(* regions, callbacks, arguments, images and threads.                      *)
(***************************************************************************)
EXTENDS Kernel, SequenceTheorems, WellFoundedInduction, TLAPS

(* A nonempty set of numbers has a least one. *)
LEMMA Least == ASSUME NEW S, S \subseteq Nat, S # {}
               PROVE  \E k \in S : \A j \in S : k <= j
<1>1. \E k \in S : \A j \in S : <<j, k>> \notin OpToRel(<, Nat)
  BY WFMin, NatLessThanWellFounded
<1>2. PICK k \in S : \A j \in S : <<j, k>> \notin OpToRel(<, Nat)
  BY <1>1
<1>3. ASSUME NEW j \in S PROVE k <= j
  <2>1. j \in Nat /\ k \in Nat
    OBVIOUS
  <2>2. j < k => <<j, k>> \in OpToRel(<, Nat)
    BY <2>1 DEF OpToRel
  <2>3. ~(j < k)
    BY <1>2, <2>2, Zenon
  <2> QED
    BY <2>1, <2>3
<1> QED
  BY <1>3
-----------------------------------------------------------------------------
(* The scheduler. *)

(* A list of the ready threads: the pointers thread fifo, which names no   *)
(* thread twice and never the idle thread.                                 *)
Threaded(l) ==
  /\ l.next \in [Thread -> Thread \cup {Null}]
  /\ l.fifo \in Seq(Threads)
  /\ l.count = Len(l.fifo)
  /\ \A i, j \in 1..Len(l.fifo) : l.fifo[i] = l.fifo[j] => i = j
  /\ l.head = IF l.fifo = <<>> THEN Null ELSE l.fifo[1]
  /\ l.tail = IF l.fifo = <<>> THEN Null ELSE l.fifo[Len(l.fifo)]
  /\ \A i \in 1..Len(l.fifo) :
       l.next[l.fifo[i]] = IF i = Len(l.fifo) THEN Null ELSE l.fifo[i + 1]

In(t, s) == \E i \in 1..Len(s) : s[i] = t

(* The inductive invariant of the scheduler. *)
SchedInv == /\ TypeOK
            /\ Threaded(List)
            /\ state[Idle] = "RUNNING"
            /\ ReadyIffQueued

(* mcsos_sched_enqueue adds a thread that is not in the list at its end. *)
LEMMA AppendedThreads ==
  ASSUME NEW l, Threaded(l), NEW t \in Threads, ~In(t, l.fifo)
  PROVE  /\ Threaded(Appended(l, t))
         /\ Appended(l, t).fifo = Append(l.fifo, t)
         /\ \A u : In(u, Append(l.fifo, t)) <=> u = t \/ In(u, l.fifo)
<1> DEFINE f == l.fifo
           n == Len(f)
           g == Append(f, t)
           a == Appended(l, t)
<1>1. /\ f \in Seq(Threads) /\ n \in Nat /\ g \in Seq(Threads) /\ Len(g) = n + 1
      /\ g[n + 1] = t /\ \A i \in 1..n : g[i] = f[i] /\ f[i] \in Threads /\ f[i] # t
      /\ g # <<>> /\ (f = <<>> <=> n = 0)
      /\ \A i \in 1..(n + 1) : i \in 1..n \/ i = n + 1
  <2>1. f \in Seq(Threads)
    BY DEF Threaded
  <2>2. n \in Nat /\ g \in Seq(Threads) /\ Len(g) = n + 1 /\ g[n + 1] = t /\ (f = <<>> <=> n = 0)
    BY <2>1
  <2>3. \A i \in 1..n : g[i] = f[i] /\ f[i] \in Threads
    BY <2>1
  <2>4. \A i \in 1..n : f[i] # t
    BY DEF In
  <2>5. g # <<>> /\ \A i \in 1..(n + 1) : i \in 1..n \/ i = n + 1
    BY <2>2
  <2> QED
    BY <2>1, <2>2, <2>3, <2>4, <2>5
<1>2. t \in Thread /\ Null \notin Thread /\ Threads \subseteq Thread
  BY SchedulerAssumption DEF Thread
<1>3. /\ a.fifo = g /\ a.count = l.count + 1 /\ a.tail = t
      /\ a.head = IF l.tail = Null THEN t ELSE l.head
      /\ a.next = IF l.tail = Null THEN [l.next EXCEPT ![t] = Null]
                  ELSE [[l.next EXCEPT ![t] = Null] EXCEPT ![l.tail] = t]
  BY DEF Appended
<1>4. l.tail = Null <=> n = 0
  BY <1>1, <1>2 DEF Threaded
<1> HIDE DEF g, a
<1>5. \A u : In(u, g) <=> u = t \/ In(u, f)
  <2>1. ASSUME NEW u, In(u, g) PROVE u = t \/ In(u, f)
    BY <1>1, <2>1 DEF In
  <2>2. In(t, g)
    BY <1>1 DEF In
  <2>3. ASSUME NEW u, In(u, f) PROVE In(u, g)
    <3>1. PICK i \in 1..n : f[i] = u
      BY <2>3 DEF In
    <3>2. i \in 1..Len(g) /\ g[i] = u
      BY <1>1, <3>1
    <3> QED
      BY <3>2 DEF In
  <2> QED
    BY <2>1, <2>2, <2>3
<1>6. a.next \in [Thread -> Thread \cup {Null}]
  BY <1>1, <1>2, <1>3 DEF Threaded
<1>7. a.count = Len(g)
  BY <1>1, <1>3 DEF Threaded
<1>8. \A i, j \in 1..Len(g) : g[i] = g[j] => i = j
  BY <1>1 DEF Threaded
<1>9. a.head = g[1] /\ a.tail = g[Len(g)]
  <2>1. CASE n = 0
    BY <1>1, <1>3, <1>4, <2>1
  <2>2. CASE n # 0
    <3>1. 1 \in 1..n
      BY <1>1, <2>2
    <3>2. g[1] = f[1] /\ l.head = f[1]
      BY <1>1, <2>2, <3>1 DEF Threaded
    <3> QED
      BY <1>1, <1>3, <1>4, <2>2, <3>2
  <2> QED
    BY <2>1, <2>2
<1>10. ASSUME NEW i \in 1..Len(g)
       PROVE  a.next[g[i]] = IF i = Len(g) THEN Null ELSE g[i + 1]
  <2>1. CASE n = 0
    BY <1>1, <1>2, <1>3, <1>4, <2>1 DEF Threaded
  <2>2. CASE n # 0
    <3>1. l.tail = f[n] /\ n \in 1..n /\ f[n] \in Thread /\ f[n] # t
      BY <1>1, <1>2, <2>2 DEF Threaded
    <3>2. \A u \in Thread : a.next[u] = IF u = f[n] THEN t ELSE IF u = t THEN Null ELSE l.next[u]
      BY <1>3, <1>4, <2>2, <3>1 DEF Threaded
    <3>3. CASE i = n + 1
      BY <1>1, <1>2, <3>1, <3>2, <3>3
    <3>4. CASE i = n
      BY <1>1, <3>1, <3>2, <3>4
    <3>5. CASE i \in 1..n /\ i # n
      <4>1. f[i] # f[n] /\ f[i] # t /\ f[i] \in Thread /\ g[i] = f[i]
        BY <1>1, <1>2, <3>1, <3>5 DEF Threaded
      <4>2. l.next[f[i]] = f[i + 1] /\ i + 1 \in 1..n
        BY <1>1, <3>5 DEF Threaded
      <4> QED
        BY <1>1, <3>2, <3>5, <4>1, <4>2
    <3> QED
      BY <1>1, <3>3, <3>4, <3>5
  <2> QED
    BY <2>1, <2>2
<1>11. Threaded(a)
  BY <1>1, <1>3, <1>6, <1>7, <1>8, <1>9, <1>10 DEF Threaded
<1> QED
  BY <1>3, <1>5, <1>11 DEF g, a

(* mcsos_sched_pick_next takes the first thread off a list that is not     *)
(* empty.                                                                  *)
LEMMA PickedThreads ==
  ASSUME NEW l, Threaded(l), l.head # Null
  PROVE  /\ Threaded(Picked(l))
         /\ l.head \in Threads
         /\ \A u : In(u, Picked(l).fifo) <=> u # l.head /\ In(u, l.fifo)
<1> DEFINE f == l.fifo
           n == Len(f)
           g == Tail(f)
           p == Picked(l)
<1>1. f \in Seq(Threads) /\ f # <<>> /\ l.head = f[1]
  BY DEF Threaded
<1>2. n \in Nat /\ n > 0 /\ g \in Seq(Threads) /\ Len(g) = n - 1
  BY <1>1
<1>3. \A i \in 1..n : f[i] \in Threads
  BY <1>1
<1>4. \A i \in 1..(n - 1) : g[i] = f[i + 1]
  BY <1>1
<1>5. g = <<>> <=> n = 1
  <2> HIDE DEF g
  <2>1. g = <<>> <=> Len(g) = 0
    BY <1>2, EmptySeq
  <2> QED
    BY <1>2, <2>1
<1>6. Null \notin Thread /\ Threads \subseteq Thread
  BY SchedulerAssumption DEF Thread
<1>7. 1 \in 1..n /\ l.next[f[1]] = IF n = 1 THEN Null ELSE f[2]
  <2>1. 1 \in 1..n
    BY <1>2
  <2>2. l.next[f[1]] = IF 1 = n THEN Null ELSE f[1 + 1]
    BY <2>1 DEF Threaded
  <2> QED
    BY <2>1, <2>2
<1>8. /\ p.fifo = g /\ p.head = l.next[f[1]]
      /\ p.next = [l.next EXCEPT ![f[1]] = Null]
      /\ p.tail = IF l.next[f[1]] = Null THEN Null ELSE l.tail
      /\ p.count = IF l.count > 0 THEN l.count - 1 ELSE 0
  BY <1>1 DEF Picked
<1>9. \A i, j \in 1..n : f[i] = f[j] => i = j
  BY DEF Threaded
<1>10. \A u : In(u, g) <=> u # f[1] /\ In(u, f)
  <2>1. ASSUME NEW u, In(u, g) PROVE u # f[1] /\ In(u, f)
    <3>1. PICK i \in 1..(n - 1) : g[i] = u
      BY <1>2, <2>1 DEF In
    <3>2. i + 1 \in 1..n /\ f[i + 1] = u /\ i + 1 # 1
      BY <1>2, <1>4, <3>1
    <3> QED
      BY <1>7, <1>9, <3>2 DEF In
  <2>2. ASSUME NEW u, u # f[1], In(u, f) PROVE In(u, g)
    <3>1. PICK i \in 1..n : f[i] = u
      BY <2>2 DEF In
    <3>2. i - 1 \in 1..(n - 1) /\ (i - 1) + 1 = i
      BY <1>2, <2>2, <3>1
    <3>3. g[i - 1] = u
      BY <1>4, <3>1, <3>2
    <3> QED
      BY <1>2, <3>2, <3>3 DEF In
  <2> QED
    BY <2>1, <2>2
<1> HIDE DEF g, p
<1>11. p.next \in [Thread -> Thread \cup {Null}]
  BY <1>8 DEF Threaded
<1>12. p.count = Len(g)
  BY <1>2, <1>8 DEF Threaded
<1>13. \A i, j \in 1..Len(g) : g[i] = g[j] => i = j
  <2> SUFFICES ASSUME NEW i \in 1..Len(g), NEW j \in 1..Len(g), g[i] = g[j] PROVE i = j
    OBVIOUS
  <2>1. i \in 1..(n - 1) /\ j \in 1..(n - 1) /\ i + 1 \in 1..n /\ j + 1 \in 1..n
    BY <1>2
  <2>2. f[i + 1] = f[j + 1]
    BY <1>4, <2>1
  <2> QED
    BY <1>9, <2>1, <2>2
<1>14. /\ p.head = IF g = <<>> THEN Null ELSE g[1]
       /\ p.tail = IF g = <<>> THEN Null ELSE g[Len(g)]
  <2>1. CASE n = 1
    BY <1>5, <1>7, <1>8, <2>1
  <2>2. CASE n # 1
    <3>1. 1 \in 1..(n - 1) /\ n - 1 \in 1..(n - 1) /\ 2 \in 1..n /\ (n - 1) + 1 = n /\ 1 + 1 = 2
      <4> HIDE DEF n
      <4> QED
        BY <1>2, <2>2
    <3>2. g[1] = f[2] /\ g[n - 1] = f[n] /\ f[2] # Null
      BY <1>3, <1>4, <1>6, <3>1
    <3>3. l.tail = f[n]
      BY <1>1 DEF Threaded
    <3> QED
      BY <1>2, <1>5, <1>7, <1>8, <2>2, <3>2, <3>3
  <2> QED
    BY <2>1, <2>2
<1>15. ASSUME NEW i \in 1..Len(g)
       PROVE  p.next[g[i]] = IF i = Len(g) THEN Null ELSE g[i + 1]
  <2>1. i \in 1..(n - 1) /\ i + 1 \in 1..n /\ i + 1 # 1
    BY <1>2
  <2>2. g[i] = f[i + 1] /\ f[i + 1] # f[1] /\ f[i + 1] \in Thread
    BY <1>3, <1>4, <1>6, <1>7, <1>9, <2>1
  <2>3. p.next[g[i]] = l.next[f[i + 1]]
    BY <1>8, <2>2 DEF Threaded
  <2>4. l.next[f[i + 1]] = IF i + 1 = n THEN Null ELSE f[(i + 1) + 1]
    BY <2>1 DEF Threaded
  <2>5. i # Len(g) => i + 1 \in 1..(n - 1)
    BY <1>2, <2>1
  <2>6. i # Len(g) => g[i + 1] = f[(i + 1) + 1]
    BY <1>4, <2>5
  <2> QED
    BY <1>2, <2>3, <2>4, <2>6
<1>16. Threaded(p)
  BY <1>2, <1>8, <1>11, <1>12, <1>13, <1>14, <1>15 DEF Threaded
<1> QED
  BY <1>1, <1>3, <1>7, <1>8, <1>10, <1>16 DEF p

-----------------------------------------------------------------------------
(* mcsos_scheduler_init *)
LEMMA InitSched == Init => SchedInv
<1> SUFFICES ASSUME Init PROVE SchedInv
  OBVIOUS
<1>1. TypeOK
  BY SchedulerAssumption DEF Init, TypeOK, Thread
<1>2. List.next = next /\ List.head = Null /\ List.tail = Null /\ List.count = 0 /\ List.fifo = <<>>
  BY DEF Init, List
<1>3. Threaded(List)
  <2>1. 1..Len(<<>>) = {} /\ Len(<<>>) = 0 /\ <<>> \in Seq(Threads)
    OBVIOUS
  <2> QED
    BY <1>1, <1>2, <2>1 DEF Threaded, TypeOK
<1>4. ReadyIffQueued
  <2>1. 1..Len(fifo) = {}
    BY DEF Init
  <2> QED
    BY <2>1, SchedulerAssumption DEF Init, ReadyIffQueued, Thread
<1> QED
  BY <1>1, <1>3, <1>4 DEF Init, SchedInv, Thread

(* What the invariant says of the queue. *)
LEMMA Queued ==
  ASSUME SchedInv
  PROVE  /\ Threaded(List) /\ List.fifo = fifo /\ List.head = ready_head
         /\ \A t \in Thread : state[t] = "READY" <=> In(t, fifo)
         /\ ~In(current, fifo)
         /\ current \in Thread /\ state[current] = "RUNNING"
BY DEF SchedInv, TypeOK, ReadyIffQueued, In, List

(* A step that sets the list to one that threads it is well typed. *)
LEMMA SetThreaded ==
  ASSUME NEW l, Threaded(l), SetList(l)
  PROVE  /\ Threaded(List)' /\ fifo' = l.fifo
         /\ next' \in [Thread -> Thread \cup {Null}]
         /\ ready_head' \in Thread \cup {Null} /\ ready_tail' \in Thread \cup {Null}
         /\ runnable_count' \in Nat /\ fifo' \in Seq(Thread)
<1>1. /\ next' = l.next /\ ready_head' = l.head /\ ready_tail' = l.tail
      /\ runnable_count' = l.count /\ fifo' = l.fifo
  BY DEF SetList
<1>2. /\ List'.next = l.next /\ List'.head = l.head /\ List'.tail = l.tail
      /\ List'.count = l.count /\ List'.fifo = l.fifo
  BY <1>1 DEF List
<1>3. Threaded(List)'
  BY <1>2 DEF Threaded
<1>4. l.fifo \in Seq(Threads) /\ Threads \subseteq Thread
  BY DEF Threaded, Thread
<1>5. l.fifo \in Seq(Thread) /\ Len(l.fifo) \in Nat
  BY <1>4
<1>6. l.fifo # <<>> => l.fifo[1] \in Thread /\ l.fifo[Len(l.fifo)] \in Thread
  <2>1. l.fifo # <<>> => Len(l.fifo) # 0
    BY <1>4, EmptySeq
  <2> QED
    BY <1>5, <2>1
<1> QED
  BY <1>1, <1>3, <1>5, <1>6 DEF Threaded

(* A thread that was not queued becomes READY at the end of the queue. *)
LEMMA EnqueueKeeps ==
  ASSUME SchedInv, NEW t \in Thread, state[t] \notin {"READY", "RUNNING"},
         state' = [state EXCEPT ![t] = "READY"], SetList(Appended(List, t)),
         UNCHANGED <<current, rip>>
  PROVE  SchedInv'
<1>1. TypeOK /\ t \in Threads /\ t # current /\ t # Idle /\ ~In(t, fifo)
  BY Queued DEF SchedInv, Thread
<1>2. /\ Threaded(Appended(List, t)) /\ Appended(List, t).fifo = Append(fifo, t)
      /\ \A u : In(u, Append(fifo, t)) <=> u = t \/ In(u, fifo)
  BY <1>1, Queued, AppendedThreads
<1>3. TypeOK'
  BY <1>1, <1>2, SetThreaded DEF TypeOK
<1>4. \A u \in Thread : state'[u] = IF u = t THEN "READY" ELSE state[u]
  BY <1>1 DEF TypeOK
<1>5. \A u \in Thread : state'[u] = "READY" <=> In(u, fifo')
  BY <1>2, <1>4, Queued, SetThreaded
<1>6. Idle \in Thread /\ Threads \subseteq Thread /\ current \in Thread
  BY Queued DEF Thread
<1>7. ReadyIffQueued'
  BY <1>1, <1>4, <1>5, <1>6 DEF SchedInv, ReadyIffQueued, In
<1> QED
  BY <1>1, <1>2, <1>3, <1>4, <1>6, <1>7, SetThreaded DEF SchedInv

(* mcsos_thread_prepare touches a thread that is not queued. *)
LEMMA PrepareKeeps == ASSUME SchedInv, NEW t \in Thread, Prepare(t) PROVE SchedInv'
<1>1. TypeOK /\ state[t] = "none" /\ t # current /\ t # Idle /\ ~In(t, fifo)
  BY Queued DEF SchedInv, Prepare
<1>2. TypeOK'
  BY <1>1 DEF TypeOK, Prepare
<1>3. \A u \in Thread : state'[u] = IF u = t THEN "NEW" ELSE state[u]
  BY <1>1 DEF TypeOK, Prepare
<1>4. /\ List'.head = List.head /\ List'.tail = List.tail /\ List'.count = List.count
      /\ List'.fifo = List.fifo /\ List'.next = [List.next EXCEPT ![t] = Null]
      /\ List.next = next /\ List.fifo = fifo
  BY DEF Prepare, List
<1>5. Threaded(List)'
  <2>1. \A i \in 1..Len(fifo) : fifo[i] # t
    BY <1>1 DEF In
  <2>2. \A i \in 1..Len(fifo) : List'.next[fifo[i]] = List.next[fifo[i]]
    BY <1>1, <1>4, <2>1 DEF TypeOK
  <2>3. List'.next \in [Thread -> Thread \cup {Null}]
    BY <1>4, Queued DEF Threaded
  <2> QED
    BY <1>4, <2>2, <2>3, Queued DEF Threaded
<1>6. Idle \in Thread /\ Threads \subseteq Thread /\ current \in Thread
  BY Queued DEF Thread
<1>7. ReadyIffQueued'
  BY <1>1, <1>3, <1>6, Queued DEF SchedInv, ReadyIffQueued, Prepare, In
<1> QED
  BY <1>1, <1>2, <1>3, <1>5, <1>6, <1>7 DEF SchedInv

(* mcsos_sched_yield: the old thread goes to the end of the queue, blocks  *)
(* or is the idle thread, and the first thread of the queue runs.          *)
LEMMA SwitchKeeps ==
  ASSUME SchedInv, NEW s, s = "RUNNING" \/ (s = "BLOCKED" /\ current # Idle), Switch(s)
  PROVE  SchedInv'
<1> DEFINE old == current
           new == IF ready_head = Null THEN Idle ELSE ready_head
           l == IF ready_head = Null THEN List ELSE Picked(List)
<1>1. /\ TypeOK /\ old \in Thread /\ state[old] = "RUNNING" /\ ~In(old, fifo)
      /\ state[Idle] = "RUNNING" /\ ~In(Idle, fifo)
      /\ Idle \in Thread /\ Threads \subseteq Thread /\ Idle \notin Threads
      /\ \A t \in Thread : t = Idle \/ t \in Threads
      /\ \A t \in Threads : state[t] = "RUNNING" => t = old
      /\ \A t \in Thread : state[t] = "READY" <=> In(t, fifo)
  BY Queued, SchedulerAssumption DEF SchedInv, Thread, ReadyIffQueued
<1>2. /\ Threaded(l) /\ new \in Thread /\ Idle # Null /\ ~In(new, l.fifo)
      /\ \A u : In(u, l.fifo) => In(u, fifo)
      /\ \A u : In(u, fifo) => u = new \/ In(u, l.fifo)
      /\ new # Idle => In(new, fifo)
      /\ ready_head # Null => new \in Threads
  <2>1. CASE ready_head = Null
    BY <1>1, <2>1, Queued, SchedulerAssumption
  <2>2. CASE ready_head # Null
    <3>1. /\ Threaded(Picked(List)) /\ ready_head \in Threads
          /\ \A u : In(u, Picked(List).fifo) <=> u # ready_head /\ In(u, fifo)
      BY <2>2, Queued, PickedThreads
    <3>2. In(ready_head, fifo)
      <4>1. fifo # <<>> /\ ready_head = fifo[1] /\ fifo \in Seq(Threads)
        BY <2>2, Queued DEF Threaded
      <4>2. 1 \in 1..Len(fifo)
        BY <4>1, EmptySeq
      <4> QED
        BY <4>1, <4>2 DEF In
    <3> QED
      BY <1>1, <2>2, <3>1, <3>2, SchedulerAssumption
  <2> QED
    BY <2>1, <2>2
<1>3. CASE new = old
  <2>1. new = Idle /\ ready_head = Null
    BY <1>1, <1>2, <1>3
  <2>2. /\ state' = [state EXCEPT ![old] = "RUNNING"] /\ SetList(List) /\ UNCHANGED <<current, rip>>
    BY <1>3, <2>1 DEF Switch
  <2>3. state' = state
    BY <1>1, <2>2 DEF TypeOK
  <2>4. UNCHANGED vars
    BY <2>2, <2>3 DEF SetList, List, vars
  <2> QED
    BY <2>4 DEF SchedInv, TypeOK, Threaded, List, ReadyIffQueued, vars
<1>4. CASE new # old
  <2> DEFINE again == s = "RUNNING" /\ old # Idle
             m == Requeue(l, old, s)
  <2>1. /\ state' = [state EXCEPT ![old] = IF again THEN "READY" ELSE s, ![new] = "RUNNING"]
        /\ SetList(m) /\ current' = new /\ ContextSwitch(old)
    BY <1>4 DEF Switch
  <2>2. \A u \in Thread : state'[u] = IF u = new THEN "RUNNING"
                                      ELSE IF u = old THEN (IF again THEN "READY" ELSE s)
                                      ELSE state[u]
    BY <1>1, <1>2, <1>4, <2>1 DEF TypeOK
  <2>3. /\ Threaded(m)
        /\ \A u : In(u, m.fifo) <=> (u = old /\ again) \/ In(u, l.fifo)
    <3>1. CASE again
      <4>1. old \in Threads /\ ~In(old, l.fifo) /\ m = Appended(l, old)
        BY <1>1, <1>2, <3>1 DEF Requeue
      <4>2. /\ Threaded(Appended(l, old))
            /\ Appended(l, old).fifo = Append(l.fifo, old)
            /\ \A u : In(u, Append(l.fifo, old)) <=> u = old \/ In(u, l.fifo)
        <5> HIDE DEF l
        <5> QED
          BY <1>2, <4>1, AppendedThreads
      <4> HIDE DEF l, m
      <4>3. m.fifo = Append(l.fifo, old) /\ Threaded(m)
        BY <4>1, <4>2
      <4> QED
        BY <3>1, <4>2, <4>3
    <3>2. CASE ~again
      <4>1. m = l
        BY <3>2 DEF Requeue
      <4> QED
        BY <1>2, <3>2, <4>1
    <3> QED
      BY <3>1, <3>2
  <2> HIDE DEF l, m, new, again
  <2>4. /\ Threaded(List)' /\ fifo' = m.fifo
        /\ next' \in [Thread -> Thread \cup {Null}]
        /\ ready_head' \in Thread \cup {Null} /\ ready_tail' \in Thread \cup {Null}
        /\ runnable_count' \in Nat /\ fifo' \in Seq(Thread)
    BY <2>1, <2>3, SetThreaded
  <2>5. rip' \in [Thread -> {"zero", "trampoline", "after_switch"}]
    BY <1>1, <2>1 DEF ContextSwitch, TypeOK
  <2>6. state' \in [Thread -> {"none", "NEW", "READY", "RUNNING", "BLOCKED"}]
    BY <1>1, <2>1 DEF TypeOK
  <2>7. TypeOK'
    BY <1>2, <2>1, <2>4, <2>5, <2>6 DEF TypeOK
  <2>8. state'[Idle] = "RUNNING"
    BY <1>1, <1>2, <2>2 DEF again
  <2>9. \A u \in Thread : state'[u] = "READY" <=> In(u, fifo')
    <3> SUFFICES ASSUME NEW u \in Thread PROVE state'[u] = "READY" <=> In(u, m.fifo)
      BY <2>4
    <3>1. CASE u = new
      BY <1>2, <1>4, <2>2, <2>3, <3>1
    <3>2. CASE u = old /\ u # new
      BY <1>1, <1>2, <2>2, <2>3, <3>2 DEF again
    <3>3. CASE u # old /\ u # new
      BY <1>1, <1>2, <2>2, <2>3, <3>3
    <3> QED
      BY <3>1, <3>2, <3>3
  <2>10. ReadyIffQueued'
    <3>1. state'[current'] = "RUNNING"
      BY <1>2, <2>1, <2>2
    <3>2. \A t \in Threads : state'[t] = "RUNNING" => t = current'
      BY <1>1, <2>1, <2>2 DEF again
    <3> QED
      BY <2>9, <3>1, <3>2 DEF ReadyIffQueued, In
  <2> QED
    BY <2>4, <2>7, <2>8, <2>10 DEF SchedInv
<1> QED
  BY <1>3, <1>4

(* Every call of the scheduler keeps it, provided nobody hands a thread to *)
(* mcsos_sched_enqueue that is queued already.                             *)
LEMMA NextSched ==
  ASSUME SchedInv, "READY" \notin EnqueueOn, [Next]_vars
  PROVE  SchedInv'
<1>1. ASSUME NEW t \in Thread, Prepare(t) PROVE SchedInv'
  BY <1>1, PrepareKeeps
<1>2. ASSUME NEW t \in Thread, Enqueue(t) \/ MarkReady(t) PROVE SchedInv'
  <2>1. state[t] \notin {"READY", "RUNNING"}
    BY <1>2 DEF Enqueue, MarkReady
  <2> QED
    BY <1>2, <2>1, EnqueueKeeps DEF Enqueue, MarkReady
<1>3. CASE Yield
  BY <1>3, SwitchKeeps, Queued DEF Yield
<1>4. CASE BlockCurrent
  BY <1>4, SwitchKeeps DEF BlockCurrent
<1>5. CASE UNCHANGED vars
  BY <1>5 DEF SchedInv, TypeOK, Threaded, List, ReadyIffQueued, vars
<1> QED
  BY <1>1, <1>2, <1>3, <1>4, <1>5 DEF Next

(* Walking the next pointers from ready_head gives the queued threads and  *)
(* then Null.                                                              *)
LEMMA WalkIsFifo ==
  ASSUME Threaded(List)
  PROVE  \A k \in Nat : Node[k] = IF k < Len(fifo) THEN fifo[k + 1] ELSE Null
<1> DEFINE walk == [k \in Nat |-> IF k < Len(fifo) THEN fifo[k + 1] ELSE Null]
           after(f, k) == IF k = 0 THEN ready_head
                          ELSE IF f[k - 1] = Null THEN Null ELSE next[f[k - 1]]
<1>1. /\ fifo \in Seq(Threads) /\ Len(fifo) \in Nat
      /\ ready_head = IF fifo = <<>> THEN Null ELSE fifo[1]
      /\ \A i \in 1..Len(fifo) : next[fifo[i]] = IF i = Len(fifo) THEN Null ELSE fifo[i + 1]
      /\ \A i \in 1..Len(fifo) : fifo[i] # Null
      /\ fifo = <<>> <=> Len(fifo) = 0
  BY SchedulerAssumption, EmptySeq DEF Threaded, List
<1>2. ASSUME NEW k \in Nat PROVE walk[k] = after(walk, k)
  <2>1. CASE k = 0
    BY <1>1, <2>1
  <2>2. CASE k # 0
    <3>1. k - 1 \in Nat /\ (k - 1) + 1 = k
      BY <2>2
    <3>2. CASE k - 1 < Len(fifo)
      <4>1. k \in 1..Len(fifo) /\ walk[k - 1] = fifo[k] /\ fifo[k] # Null
        BY <1>1, <2>2, <3>1, <3>2
      <4>2. next[fifo[k]] = IF k = Len(fifo) THEN Null ELSE fifo[k + 1]
        BY <1>1, <4>1
      <4> QED
        BY <1>1, <2>2, <4>1, <4>2
    <3>3. CASE ~(k - 1 < Len(fifo))
      BY <1>1, <2>2, <3>1, <3>3
    <3> QED
      BY <3>2, <3>3
  <2> QED
    BY <2>1, <2>2
<1>3. walk = [k \in Nat |-> after(walk, k)]
  BY <1>2
<1>4. Node = [k \in Nat |-> after(Node, k)]
  <2> HIDE DEF walk
  <2> QED
    BY <1>3 DEF Node
<1> HIDE DEF walk
<1> DEFINE wrong == {k \in Nat : Node[k] # walk[k]}
<1>5. wrong = {}
  <2> SUFFICES ASSUME wrong # {} PROVE FALSE
    OBVIOUS
  <2>1. wrong \subseteq Nat
    OBVIOUS
  <2> HIDE DEF wrong
  <2>2. PICK k \in wrong : \A j \in wrong : k <= j
    BY <2>1, Least
  <2> USE DEF wrong
  <2>3. k # 0
    BY <1>3, <1>4
  <2>4. k - 1 \in Nat /\ k - 1 \notin wrong
    BY <2>2, <2>3
  <2>5. Node[k - 1] = walk[k - 1]
    BY <2>4
  <2> QED
    BY <1>3, <1>4, <2>3, <2>5
<1> QED
  BY <1>5 DEF walk

(* The invariant gives what mcsos_sched_validate checks, and the rest of   *)
(* ListIsFifo.                                                             *)
LEMMA SchedListIsFifo == SchedInv => ListIsFifo
<1> SUFFICES ASSUME SchedInv PROVE ListIsFifo
  OBVIOUS
<1>1. /\ fifo \in Seq(Threads) /\ Len(fifo) \in Nat /\ runnable_count = Len(fifo)
      /\ \A i, j \in 1..Len(fifo) : fifo[i] = fifo[j] => i = j
      /\ ready_head = IF fifo = <<>> THEN Null ELSE fifo[1]
      /\ ready_tail = IF fifo = <<>> THEN Null ELSE fifo[Len(fifo)]
      /\ \A i \in 1..Len(fifo) : next[fifo[i]] = IF i = Len(fifo) THEN Null ELSE fifo[i + 1]
  BY DEF SchedInv, Threaded, List
<1>2. fifo = <<>> <=> Len(fifo) = 0
  BY <1>1, EmptySeq
<1>3. \A k \in Nat : Node[k] = IF k < Len(fifo) THEN fifo[k + 1] ELSE Null
  BY WalkIsFifo DEF SchedInv
<1>4. ASSUME NEW k \in 0..(runnable_count - 1)
      PROVE  Node[k] # Null /\ state[Node[k]] = "READY" /\ Node[k] # current
  <2>1. k \in Nat /\ k < Len(fifo) /\ k + 1 \in 1..Len(fifo)
    BY <1>1
  <2>2. Node[k] = fifo[k + 1] /\ fifo[k + 1] \in Threads /\ In(fifo[k + 1], fifo)
    BY <1>1, <1>3, <2>1 DEF In
  <2>3. fifo[k + 1] \in Thread /\ fifo[k + 1] # Null
    BY <2>2, SchedulerAssumption DEF Thread
  <2> QED
    BY <2>2, <2>3, Queued
<1>5. Node[runnable_count] = Null
  BY <1>1, <1>3
<1>6. ready_tail = IF runnable_count = 0 THEN Null ELSE Node[runnable_count - 1]
  BY <1>1, <1>2, <1>3
<1> QED
  BY <1>1, <1>4, <1>5, <1>6 DEF ListIsFifo, Validate

(* Every step of the kernel is one of the scheduler, or none. *)
LEMMA KernelSched ==
  ASSUME SchedInv, "READY" \notin EnqueueOn, [KernelNext]_kernelvars
  PROVE  SchedInv'
<1>1. ASSUME UNCHANGED vars PROVE SchedInv'
  BY <1>1, NextSched
<1>2. ASSUME NEW c \in Image, SmokeTest(c) PROVE SchedInv'
  BY <1>1, <1>2 DEF SmokeTest
<1>3. CASE Loading \/ SmokeTestReturns
  BY <1>1, <1>3 DEF Loading, SmokeTestReturns
<1>4. ASSUME NEW t \in Threads, MakeThread(t) PROVE SchedInv'
  <2>1. t \in Thread
    BY DEF Thread
  <2> QED
    BY <1>4, <2>1, NextSched DEF MakeThread, Next
<1>5. CASE RegisterOps \/ Reconfigure
  BY <1>1, <1>5 DEF RegisterOps, Reconfigure, SyscallInit, SetUserRegion
<1>6. CASE Scheduling
  BY <1>6, NextSched DEF Scheduling
<1>7. CASE SystemCall
  <2>1. CASE \E a \in Addr, l \in Length : CopyFromUser(a, l)
    BY <1>1, <2>1 DEF CopyFromUser
  <2>2. ASSUME NEW nr, NEW a, NEW l, Dispatch(nr, a, l) PROVE Yield \/ UNCHANGED vars
    BY <2>2 DEF Dispatch, Ping, GetTicks, WriteSerial, SysYield, ExitThread
  <2>3. CASE Yield
    BY <2>3, NextSched DEF Next
  <2> QED
    BY <1>1, <1>7, <2>1, <2>2, <2>3 DEF SystemCall
<1>8. CASE UNCHANGED kernelvars
  BY <1>1, <1>8 DEF kernelvars
<1> QED
  BY <1>2, <1>3, <1>4, <1>5, <1>6, <1>7, <1>8 DEF KernelNext

(* The invariant holds in every reachable state of the kernel. *)
THEOREM SchedulerInvariance ==
  ASSUME "READY" \notin EnqueueOn
  PROVE  KernelSpec => []SchedInv
<1>1. KernelInit => SchedInv
  BY InitSched DEF KernelInit
<1>2. SchedInv /\ [KernelNext]_kernelvars => SchedInv'
  BY KernelSched
<1> QED
  BY <1>1, <1>2, PTL DEF KernelSpec

(* As long as no caller enqueues a thread that is queued already, the      *)
(* pointers of the ready list thread the ready threads in the order in     *)
(* which they became ready, and mcsos_sched_validate finds no fault,       *)
(* whichever calls of the scheduler and system calls are made.             *)
THEOREM QueueIsFifo ==
  ASSUME "READY" \notin EnqueueOn
  PROVE  KernelSpec => []ListIsFifo
BY SchedulerInvariance, SchedListIsFifo, PTL

(* No ready thread is lost and none runs that has not the CPU.             *)
THEOREM NoThreadLost ==
  ASSUME "READY" \notin EnqueueOn
  PROVE  KernelSpec => []ReadyIffQueued
<1>1. SchedInv => ReadyIffQueued
  BY DEF SchedInv
<1> QED
  BY <1>1, SchedulerInvariance, PTL

-----------------------------------------------------------------------------
(* The system calls. *)

(* A range that mcsos_user_check_range lets through holds no byte outside  *)
(* the region, wrap-around included.                                       *)
LEMMA CheckedInside ==
  ASSUME NEW r \in Region, NEW addr \in Word, NEW len \in Word, CheckRange(r, addr, len)
  PROVE  Bytes(addr, len) \subseteq Inside(r)
<1> SUFFICES ASSUME NEW k \in 0..(len - 1) PROVE Plus(addr, k) \in Inside(r)
  BY DEF Bytes
<1>1. /\ addr \in Nat /\ len \in Nat /\ k \in Nat /\ k <= len - 1 /\ len # 0
      /\ addr < WordCount /\ len < WordCount /\ WordCount \in Nat
      /\ r.base \in Nat /\ r.limit \in Nat /\ r.limit < WordCount
  BY WordAssumption DEF Word, Region
<1>2. /\ r.base <= addr
      /\ addr <= Plus(addr, len - 1) /\ Plus(addr, len - 1) < r.limit
  BY <1>1 DEF CheckRange
<1>3. addr + (len - 1) < r.limit
  BY <1>1, <1>2 DEF Plus
<1>4. Plus(addr, k) = addr + k /\ addr + k < r.limit
  BY <1>1, <1>3 DEF Plus
<1> QED
  BY <1>1, <1>2, <1>4 DEF Inside, Word

(* What m11_validate_user_range accepts for a region that does not start   *)
(* at zero, mcsos_user_check_range accepts piece by piece.                 *)
LEMMA LoaderAgrees ==
  ASSUME NEW r \in Region, r.base # 0,
         NEW base \in Word, NEW size \in Word, ValidateUserRange(r, base, size),
         NEW first \in 0..(size - 1), NEW count \in 1..size, first + count <= size
  PROVE  CheckRange(r, Plus(base, first), count)
<1>1. /\ base \in Nat /\ size \in Nat /\ first \in Nat /\ count \in Nat
      /\ base < WordCount /\ size < WordCount /\ WordCount \in Nat
      /\ first < size /\ count >= 1 /\ first + count <= size
      /\ r.base \in Nat /\ r.limit \in Nat /\ r.limit < WordCount
  BY WordAssumption DEF Word, Region
<1>2. r.base < r.limit /\ r.base <= base /\ base + size <= r.limit
  BY <1>1 DEF ValidateUserRange, Overflows, Plus
<1>3. Plus(base, first) = base + first /\ Plus(base + first, count - 1) = base + first + (count - 1)
  BY <1>1, <1>2 DEF Plus
<1> QED
  BY <1>1, <1>2, <1>3 DEF CheckRange

-----------------------------------------------------------------------------
(* What the system calls keep, together with what makes it inductive: the  *)
(* region is one of words, and once kernel_main has registered its         *)
(* callbacks there is one for write_serial.                                *)
SysInv == /\ user_region \in Region
          /\ phase \in {"elf", "threads", "run"}
          /\ phase = "run" => ops["write_serial"] # "null"
          /\ UserBytesOnly
          /\ NoNullCall

(* A step that ends with no user bytes and leaves ops and region alone. *)
LEMMA QuietStep ==
  ASSUME SysInv, UNCHANGED <<ops, user_region, phase>>, call'.bytes = {}, call'.ret # "null called"
  PROVE  SysInv'
BY DEF SysInv, UserBytesOnly, NoNullCall

(* A call that only returns a code. *)
LEMMA ReturnsQuietly ==
  ASSUME SysInv, UNCHANGED <<ops, user_region, phase>>,
         NEW f, NEW c, c # "null called", Returns(f, c)
  PROVE  SysInv'
<1>1. call'.bytes = {} /\ call'.ret = c
  BY DEF Returns
<1> QED
  BY <1>1, QuietStep

(* kernel_main starts in it. *)
LEMMA InitSysInv == KernelInit => SysInv
<1> SUFFICES ASSUME KernelInit PROVE SysInv
  OBVIOUS
<1>1. user_region \in Region
  BY WordAssumption DEF KernelInit, SyscallZero, Region, Word
<1> QED
  BY <1>1 DEF KernelInit, SyscallZero, NoCall, SysInv, UserBytesOnly, NoNullCall

(* mcsos_syscall_init gives write_serial its default. *)
LEMMA InitCallKeeps ==
  ASSUME SysInv, NEW given, SyscallInit(given), phase' \in {"run"}
  PROVE  SysInv'
BY DEF SysInv, SyscallInit, Op, NoCall, UserBytesOnly, NoNullCall

(* mcsos_copy_from_user checks its range before it copies. *)
LEMMA CopyKeeps ==
  ASSUME SysInv, NEW src \in Word, NEW len \in Word, CopyFromUser(src, len), UNCHANGED phase
  PROVE  SysInv'
<1>1. CheckRange(user_region, src, len) => Bytes(src, len) \subseteq Inside(user_region)
  BY CheckedInside DEF SysInv
<1>2. UNCHANGED <<ops, user_region>>
  BY DEF CopyFromUser
<1>3. CASE \E c \in {"OK", "EINVAL", "EFAULT"} : Returns("copy_from_user", c)
  BY <1>2, <1>3, ReturnsQuietly
<1>4. CASE /\ CheckRange(user_region, src, len)
           /\ call' = [fn |-> "copy_from_user", ret |-> "OK", bytes |-> Bytes(src, len)]
  BY <1>1, <1>2, <1>4 DEF SysInv, UserBytesOnly, NoNullCall, Inside
<1> QED
  BY <1>3, <1>4 DEF CopyFromUser

(* sys_write_serial, which finds a callback to call. *)
LEMMA WriteKeeps ==
  ASSUME SysInv, phase = "run", NEW ptr \in Word, NEW len \in Word, WriteSerial(ptr, len),
         UNCHANGED phase
  PROVE  SysInv'
<1>1. CheckRange(user_region, ptr, len) => Bytes(ptr, len) \subseteq Inside(user_region)
  BY CheckedInside DEF SysInv
<1>2. UNCHANGED <<ops, user_region>>
  BY DEF WriteSerial
<1>3. CASE \E c \in {"EINVAL", "EFAULT"} : Returns("write_serial", c)
  BY <1>2, <1>3, ReturnsQuietly
<1>4. CASE /\ CheckRange(user_region, ptr, len)
           /\ call' = [fn |-> "write_serial", ret |-> "length", bytes |-> Bytes(ptr, len)]
  BY <1>1, <1>2, <1>4 DEF SysInv, UserBytesOnly, NoNullCall, Inside
<1> QED
  BY <1>3, <1>4 DEF WriteSerial, SysInv

(* Every system call keeps it. *)
LEMMA DispatchKeeps ==
  ASSUME SysInv, phase = "run", NEW nr \in 0..SysMax, NEW a \in Word, NEW l \in Word,
         Dispatch(nr, a, l), UNCHANGED phase
  PROVE  SysInv'
<1>1. CASE Ping
  BY <1>1, QuietStep DEF Ping, Returns
<1>2. CASE GetTicks
  BY <1>2, QuietStep DEF GetTicks, Returns
<1>3. CASE WriteSerial(a, l)
  BY <1>3, WriteKeeps
<1>4. CASE SysYield
  <2>1. /\ UNCHANGED <<ops, user_region>>
        /\ Returns("yield", "EBUSY") \/ Returns("yield", "OK")
    BY <1>4 DEF SysYield
  <2> QED
    BY <2>1, ReturnsQuietly
<1>5. CASE ExitThread
  BY <1>5, QuietStep DEF ExitThread, Returns
<1>6. CASE Returns("unknown", "ENOSYS") /\ UNCHANGED <<vars, ops, user_region>>
  BY <1>6, QuietStep DEF Returns
<1> QED
  BY <1>1, <1>2, <1>3, <1>4, <1>5, <1>6 DEF Dispatch

(* Every step of the kernel keeps it. *)
LEMMA StepSysInv == SysInv /\ [KernelNext]_kernelvars => SysInv'
<1> SUFFICES ASSUME SysInv, [KernelNext]_kernelvars PROVE SysInv'
  OBVIOUS
<1> DEFINE Still == UNCHANGED <<sysvars, phase>>
<1>1. ASSUME Still PROVE SysInv'
  BY <1>1 DEF SysInv, sysvars, UserBytesOnly, NoNullCall
<1>2. ASSUME NEW c \in Image, SmokeTest(c) PROVE SysInv'
  BY <1>1, <1>2 DEF SmokeTest
<1>3. CASE Loading
  BY <1>1, <1>3 DEF Loading
<1>4. CASE SmokeTestReturns
  BY <1>4 DEF SmokeTestReturns, sysvars, SysInv, UserBytesOnly, NoNullCall
<1>5. ASSUME NEW t \in Threads, MakeThread(t) PROVE SysInv'
  BY <1>1, <1>5 DEF MakeThread
<1>6. CASE RegisterOps
  BY <1>6, InitCallKeeps DEF RegisterOps
<1>7. CASE Scheduling
  BY <1>7, QuietStep DEF Scheduling, NoCall
<1>8. CASE SystemCall
  <2>1. phase = "run" /\ UNCHANGED phase
    BY <1>8 DEF SystemCall
  <2>2. ASSUME NEW nr \in 0..SysMax, NEW arg \in Args(nr), Dispatch(nr, arg[1], arg[2])
        PROVE  SysInv'
    <3>1. arg \in Addr \X Length \/ arg = <<0, 0>>
      BY <2>2 DEF Args
    <3>2. 0 \in Word
      BY WordAssumption DEF Word
    <3>3. arg[1] \in Word /\ arg[2] \in Word
      BY <3>1, <3>2, KernelAssumption
    <3> QED
      BY <2>1, <2>2, <3>3, DispatchKeeps
  <2>3. ASSUME NEW a \in Addr, NEW l \in Length, CopyFromUser(a, l) PROVE SysInv'
    BY <2>1, <2>3, CopyKeeps, KernelAssumption
  <2> QED
    BY <1>8, <2>2, <2>3 DEF SystemCall
<1>9. CASE Reconfigure
  <2>1. phase = "run" /\ phase' = "run"
    BY <1>9 DEF Reconfigure
  <2>2. ASSUME NEW r \in UserRegion, SetUserRegion(r) PROVE SysInv'
    BY <2>1, <2>2, KernelAssumption
    DEF SetUserRegion, NoCall, SysInv, UserBytesOnly, NoNullCall
  <2>3. ASSUME NEW given \in OpsGiven, SyscallInit(given) PROVE SysInv'
    BY <2>1, <2>3, InitCallKeeps
  <2> QED
    BY <1>9, <2>2, <2>3 DEF Reconfigure
<1>10. CASE UNCHANGED kernelvars
  BY <1>1, <1>10 DEF kernelvars
<1> QED
  BY <1>2, <1>3, <1>4, <1>5, <1>6, <1>7, <1>8, <1>9, <1>10 DEF KernelNext

(* The invariant holds in every reachable state. *)
THEOREM SyscallInvariance == KernelSpec => []SysInv
BY InitSysInv, StepSysInv, PTL DEF KernelSpec

(* No system call touches a byte outside the user region in force, for     *)
(* words of every size and any arguments.                                  *)
THEOREM OnlyUserBytes == KernelSpec => []UserBytesOnly
BY SyscallInvariance, PTL DEF SysInv

(* No system call goes through a null callback, whatever was registered.   *)
THEOREM NeverNull == KernelSpec => []NoNullCall
BY SyscallInvariance, PTL DEF SysInv

-----------------------------------------------------------------------------
(* The loader. *)

(* The code of the first check that failed is the code of one of them, and *)
(* "OK" exactly when none failed.                                          *)
LEMMA VerdictOK ==
  ASSUME NEW n \in Nat, NEW checks, DOMAIN checks = 1..n,
         \A k \in 1..n : checks[k][2] \notin {"OK", "running"}
  PROVE  /\ Verdict(checks) = "OK" <=> \A k \in 1..n : ~checks[k][1]
         /\ Verdict(checks) # "running"
<1> DEFINE failed == {k \in DOMAIN checks : checks[k][1]}
           least == CHOOSE k \in failed : \A j \in failed : k <= j
<1>1. failed \subseteq Nat /\ failed \subseteq 1..n
  OBVIOUS
<1>2. failed = {} \/ least \in failed
  <2> HIDE DEF failed
  <2>1. failed # {} => \E k \in failed : \A j \in failed : k <= j
    BY <1>1, Least
  <2> QED
    BY <2>1
<1>3. failed # {} => Verdict(checks) = checks[least][2]
  BY DEF Verdict
<1>4. failed = {} => Verdict(checks) = "OK"
  BY DEF Verdict
<1>5. failed = {} <=> \A k \in 1..n : ~checks[k][1]
  OBVIOUS
<1> QED
  BY <1>1, <1>2, <1>3, <1>4, <1>5


(* m11_validate_load_segment returns M11_OK only when every check that     *)
(* later code relies on passed.                                            *)
LEMMA AcceptedSegment ==
  ASSUME NEW h, NEW size, NEW r, LoadSegment(h, size, r) = "OK"
  PROVE  /\ ~(h.memsz < h.filesz)
         /\ ~BeyondImage(h.offset, h.filesz, size)
         /\ ValidateUserRange(r, h.vaddr, h.memsz)
<1> DEFINE checks ==
      << <<"other" \in h.flags, "FLAGS">>,
         <<{"W", "X"} \subseteq h.flags, "FLAGS">>,
         <<h.memsz < h.filesz, "SEGBOUNDS">>,
         <<h.align > 1 /\ h.align \notin Aligns, "ALIGN">>,
         <<h.align > 1 /\ h.vaddr % h.align # h.offset % h.align, "ALIGN">>,
         <<BeyondImage(h.offset, h.filesz, size), "SEGBOUNDS">>,
         <<~ValidateUserRange(r, h.vaddr, h.memsz), "SEGRANGE">> >>
<1>1. DOMAIN checks = 1..7 /\ 7 \in Nat /\ \A k \in 1..7 : checks[k][2] \notin {"OK", "running"}
  OBVIOUS
<1>2. Verdict(checks) = "OK"
  BY DEF LoadSegment
<1> HIDE DEF checks
<1>3. \A k \in 1..7 : ~checks[k][1]
  BY <1>1, <1>2, VerdictOK
<1>4. ~checks[3][1] /\ ~checks[6][1] /\ ~checks[7][1]
  BY <1>3
<1> QED
  BY <1>4 DEF checks

(* Every segment in the plan has passed the checks, from the step that     *)
(* adds it until the plan is cleared.                                      *)
Planned == [offset : Word, vaddr : Word, filesz : Word, memsz : Word, align : Word, flags : SUBSET Flag]
Passed(s) == /\ s.filesz <= s.memsz
             /\ ~BeyondImage(s.offset, s.filesz, elf.image.size)
             /\ ValidateUserRange(elf.region, s.vaddr, s.memsz)
LoadInv == /\ elf.region \in Region
           /\ elf.image.size \in Word
           /\ elf.image.ph \in Seq(ProgramHeader)
           /\ plan.segments \in Seq(Planned)
           /\ \A n \in DOMAIN plan.segments : Passed(plan.segments[n])

(* No image and an empty plan. *)
LEMMA EmptyLoadInv == elf = NoImage /\ plan = ZeroPlan => LoadInv
<1> SUFFICES ASSUME elf = NoImage, plan = ZeroPlan PROVE LoadInv
  OBVIOUS
<1>1. 0 \in Word
  BY WordAssumption DEF Word
<1>2. elf.region = [base |-> 0, limit |-> 0] /\ elf.image.size = 0 /\ elf.image.ph = <<>>
  BY DEF NoImage
<1>3. plan.segments = <<>>
  BY DEF ZeroPlan
<1> QED
  BY <1>1, <1>2, <1>3 DEF LoadInv, Region

(* A step that clears the plan, or does not change it, on the same image. *)
LEMMA ClearedPlan ==
  ASSUME LoadInv, UNCHANGED elf, plan' = plan \/ plan'.segments = <<>>
  PROVE  LoadInv'
<1>1. CASE plan' = plan
  BY <1>1 DEF LoadInv, Passed
<1>2. CASE plan'.segments = <<>>
  BY <1>2 DEF LoadInv
<1> QED
  BY <1>1, <1>2

(* One turn of the loop adds a segment that has passed. *)
LEMMA AddKeeps == ASSUME LoadInv, NEW h, h \in ProgramHeader, AddSegment(h) PROVE LoadInv'
<1>1. /\ UNCHANGED elf
      /\ plan'.segments = Append(plan.segments, SegmentOf(h))
  BY DEF AddSegment, AtHeader
<1>2. SegmentOf(h) \in Planned
  BY DEF SegmentOf, Planned, ProgramHeader
<1>3. /\ ~(h.memsz < h.filesz)
      /\ ~BeyondImage(h.offset, h.filesz, elf.image.size)
      /\ ValidateUserRange(elf.region, h.vaddr, h.memsz)
  BY AcceptedSegment DEF AddSegment
<1>4. h.memsz \in Nat /\ h.filesz \in Nat
  BY WordAssumption DEF ProgramHeader, Word
<1>5. Passed(SegmentOf(h))
  BY <1>3, <1>4 DEF Passed, SegmentOf
<1>6. /\ plan'.segments \in Seq(Planned)
      /\ \A n \in DOMAIN plan'.segments :
           \/ plan'.segments[n] = SegmentOf(h)
           \/ n \in DOMAIN plan.segments /\ plan'.segments[n] = plan.segments[n]
  BY <1>1, <1>2 DEF LoadInv
<1>7. \A n \in DOMAIN plan'.segments : Passed(plan'.segments[n])
  BY <1>5, <1>6 DEF LoadInv
<1>8. (\A n \in DOMAIN plan.segments : Passed(plan.segments[n]))'
  BY <1>1, <1>7 DEF Passed
<1> QED
  BY <1>1, <1>6, <1>8 DEF LoadInv

(* Every step of the kernel keeps it. *)
LEMMA StepLoadInv == LoadInv /\ [KernelNext]_kernelvars => LoadInv'
<1> SUFFICES ASSUME LoadInv, [KernelNext]_kernelvars PROVE LoadInv'
  OBVIOUS
<1>1. ASSUME UNCHANGED loadvars PROVE LoadInv'
  BY <1>1, ClearedPlan DEF loadvars
<1>2. ASSUME NEW c \in Image, SmokeTest(c) PROVE LoadInv'
  <2>1. /\ elf' = [image |-> c.image, region |-> c.region]
        /\ plan'.segments = <<>>
    BY <1>2 DEF SmokeTest, PlanLoad, ZeroPlan
  <2>2. c.region \in Region /\ c.image.size \in Word /\ c.image.ph \in Seq(ProgramHeader)
    BY KernelAssumption DEF IsImage
  <2> QED
    BY <2>1, <2>2 DEF LoadInv
<1>3. CASE Loading
  <2>1. ASSUME NEW h \in {elf.image.ph[k] : k \in DOMAIN elf.image.ph},
               Skip(h) \/ TooManySegments(h) \/ RejectSegment(h) \/ AddSegment(h)
        PROVE  LoadInv'
    <3>1. h \in ProgramHeader
      BY DEF LoadInv
    <3>2. CASE Skip(h)
      BY <3>2, ClearedPlan DEF Skip, AtHeader
    <3>3. CASE TooManySegments(h)
      BY <3>3, ClearedPlan DEF TooManySegments, AtHeader, Reject, ZeroPlan
    <3>4. CASE RejectSegment(h)
      BY <3>4, ClearedPlan DEF RejectSegment, AtHeader, Reject, ZeroPlan
    <3>5. CASE AddSegment(h)
      BY <3>1, <3>5, AddKeeps
    <3> QED
      BY <2>1, <3>2, <3>3, <3>4, <3>5
  <2>2. CASE EndLoad
    BY <2>2, ClearedPlan DEF EndLoad
  <2> QED
    BY <1>3, <2>1, <2>2 DEF Loading, LoadStep
<1>4. CASE SmokeTestReturns
  <2>1. elf' = NoImage /\ plan' = ZeroPlan
    BY <1>4 DEF SmokeTestReturns
  <2>2. 0 \in Word
    BY WordAssumption DEF Word
  <2>3. elf'.region = [base |-> 0, limit |-> 0] /\ elf'.image.size = 0 /\ elf'.image.ph = <<>>
    BY <2>1 DEF NoImage
  <2>4. plan'.segments = <<>>
    BY <2>1 DEF ZeroPlan
  <2> QED
    BY <2>2, <2>3, <2>4 DEF LoadInv, Region
<1>5. ASSUME NEW t \in Threads, MakeThread(t) PROVE LoadInv'
  BY <1>1, <1>5 DEF MakeThread
<1>6. CASE RegisterOps
  BY <1>1, <1>6 DEF RegisterOps
<1>7. CASE Scheduling
  BY <1>1, <1>7 DEF Scheduling, loadvars
<1>8. CASE SystemCall
  BY <1>1, <1>8 DEF SystemCall, loadvars
<1>9. CASE Reconfigure
  BY <1>1, <1>9 DEF Reconfigure, loadvars
<1>10. CASE UNCHANGED kernelvars
  BY <1>1, <1>10 DEF kernelvars
<1> QED
  BY <1>2, <1>3, <1>4, <1>5, <1>6, <1>7, <1>8, <1>9, <1>10 DEF KernelNext

(* A segment that passed is usable, and its contents lie in the image. *)
LEMMA PassedUsable ==
  ASSUME NEW s \in Planned, Passed(s), elf.region \in Region, elf.region.base # 0, elf.image.size \in Word
  PROVE  /\ \A first \in 0..(s.memsz - 1), count \in 1..s.memsz :
              first + count <= s.memsz => CheckRange(elf.region, Plus(s.vaddr, first), count)
         /\ Bytes(s.vaddr, s.memsz) \subseteq Inside(elf.region)
         /\ \A k \in 0..(s.filesz - 1) : k < s.memsz /\ Plus(s.offset, k) < elf.image.size
<1>1. s.vaddr \in Word /\ s.memsz \in Word /\ s.offset \in Word /\ s.filesz \in Word
  BY DEF Planned
<1>2. ASSUME NEW first \in 0..(s.memsz - 1), NEW count \in 1..s.memsz, first + count <= s.memsz
      PROVE  CheckRange(elf.region, Plus(s.vaddr, first), count)
  BY <1>1, <1>2, LoaderAgrees DEF Passed
<1>3. /\ s.vaddr \in Nat /\ s.memsz \in Nat /\ s.offset \in Nat /\ s.filesz \in Nat
      /\ s.vaddr < WordCount /\ s.offset < WordCount /\ s.filesz < WordCount
      /\ WordCount \in Nat /\ elf.image.size \in Nat /\ elf.image.size < WordCount
  BY <1>1, WordAssumption DEF Word
<1>4. s.memsz # 0
  BY DEF Passed, ValidateUserRange
<1>5. Plus(s.vaddr, 0) = s.vaddr
  BY <1>3 DEF Plus
<1>6. CheckRange(elf.region, s.vaddr, s.memsz)
  <2>1. CheckRange(elf.region, Plus(s.vaddr, 0), s.memsz)
    BY <1>2, <1>3, <1>4
  <2> QED
    BY <1>5, <2>1
<1>7. Bytes(s.vaddr, s.memsz) \subseteq Inside(elf.region)
  BY <1>1, <1>6, CheckedInside
<1>8. ASSUME NEW k \in 0..(s.filesz - 1) PROVE k < s.memsz /\ Plus(s.offset, k) < elf.image.size
  <2>1. s.filesz <= s.memsz /\ ~(Plus(s.offset, s.filesz) < s.offset) /\ ~(Plus(s.offset, s.filesz) > elf.image.size)
    BY DEF Passed, BeyondImage, Overflows
  <2>2. s.offset + s.filesz <= elf.image.size
    BY <1>3, <2>1 DEF Plus
  <2> QED
    BY <1>3, <2>1, <2>2 DEF Plus
<1> QED
  BY <1>2, <1>7, <1>8

(* A program that the loader accepted can use all of its memory in system  *)
(* calls, for words of every size, any images and any region.              *)
THEOREM Usable == KernelSpec => []ImageUsable
<1>1. KernelInit => LoadInv
  BY EmptyLoadInv DEF KernelInit, LoadInit
<1>2. LoadInv => ImageUsable
  <2> SUFFICES ASSUME LoadInv, elf.region.base # 0, NEW n \in DOMAIN plan.segments
               PROVE  LET s == plan.segments[n] IN
                      /\ \A first \in 0..(s.memsz - 1), count \in 1..s.memsz :
                           first + count <= s.memsz => CheckRange(elf.region, Plus(s.vaddr, first), count)
                      /\ Bytes(s.vaddr, s.memsz) \subseteq Inside(elf.region)
                      /\ \A k \in 0..(s.filesz - 1) : k < s.memsz /\ Plus(s.offset, k) < elf.image.size
    BY DEF ImageUsable
  <2>1. plan.segments[n] \in Planned /\ Passed(plan.segments[n])
    BY DEF LoadInv
  <2> QED
    BY <2>1, PassedUsable DEF LoadInv
<1> QED
  BY <1>1, <1>2, StepLoadInv, PTL DEF KernelSpec

-----------------------------------------------------------------------------
(* The loader against its reference definition. *)

(* A product of a positive number with a whole number is 0 or at least as  *)
(* large as the number.                                                    *)
LEMMA Multiples ==
  ASSUME NEW a \in Nat, a # 0, NEW m \in Int
  PROVE  /\ a * m \in Int
         /\ m >= 1 => a * m >= a
         /\ m <= -1 => a * m <= -a
<1>1. m - 1 \in Int /\ m + 1 \in Int
  OBVIOUS
<1>2. a * m = a * (m - 1) + a /\ a * m = a * (m + 1) - a /\ a * m \in Int
  OBVIOUS
<1>3. m >= 1 => a * (m - 1) >= 0
  OBVIOUS
<1>4. m <= -1 => a * (m + 1) <= 0
  OBVIOUS
<1>5. a * (m - 1) \in Int /\ a * (m + 1) \in Int
  OBVIOUS
<1> QED
  BY <1>2, <1>3, <1>4, <1>5

(* Division with remainder. *)
LEMMA Division ==
  ASSUME NEW v \in Nat, NEW a \in Nat, a # 0
  PROVE  \E q \in 0..v : v = a * q + (v % a) /\ v % a \in 0..(a - 1)
<1> DEFINE q == v \div a
<1>1. q \in Int /\ v = a * q + (v % a) /\ v % a \in 0..(a - 1)
  OBVIOUS
<1>2. q \in 0..v
  <2>1. PICK p : p = q
    OBVIOUS
  <2>2. p \in Int /\ v = a * p + (v % a) /\ v % a \in Int /\ 0 <= v % a /\ v % a < a
    BY <1>1, <2>1
  <2>3. p >= 0
    BY <2>2, Multiples
  <2>4. a * p >= p
    BY <2>2, <2>3
  <2> QED
    BY <2>1, <2>2, <2>3, <2>4
<1> QED
  BY <1>1, <1>2

(* Two words and a divisor. *)
Divisible(v, o, a, w) == /\ v \in Nat /\ o \in Nat /\ a \in Nat /\ a # 0
                         /\ w \in Nat /\ v <= w /\ o <= w

(* Equal remainders are what the alignment of a segment asks for, stated   *)
(* without a division.                                                     *)
LEMMA AlignedAlike ==
  ASSUME NEW v, NEW o, NEW a, NEW w, Divisible(v, o, a, w)
  PROVE  v % a = o % a <=> \E k, l \in 0..w : v + k * a = o + l * a
<1> USE DEF Divisible
<1>1. PICK p \in 0..v : v = a * p + (v % a) /\ v % a \in 0..(a - 1)
  BY Division
<1>2. PICK q \in 0..o : o = a * q + (o % a) /\ o % a \in 0..(a - 1)
  BY Division
<1>3. PICK r, s : r = v % a /\ s = o % a
  OBVIOUS
<1>4. p \in Int /\ q \in Int /\ r \in Int /\ s \in Int /\ r >= 0 /\ s >= 0 /\ r < a /\ s < a
  BY <1>1, <1>2, <1>3
<1>5. v = a * p + r /\ o = a * q + s
  BY <1>1, <1>2, <1>3
<1>6. ASSUME r = s PROVE \E k, l \in 0..w : v + k * a = o + l * a
  <2>1. CASE p >= q
    <3>1. 0 \in 0..w /\ p - q \in 0..w
      BY <1>1, <1>2, <2>1
    <3>2. v + 0 * a = o + (p - q) * a
      BY <1>4, <1>5, <1>6
    <3> QED
      BY <3>1, <3>2
  <2>2. CASE q >= p
    <3>1. 0 \in 0..w /\ q - p \in 0..w
      BY <1>1, <1>2, <2>2
    <3>2. v + (q - p) * a = o + 0 * a
      BY <1>4, <1>5, <1>6
    <3> QED
      BY <3>1, <3>2
  <2> QED
    BY <1>4, <2>1, <2>2
<1>7. ASSUME NEW k \in 0..w, NEW l \in 0..w, v + k * a = o + l * a PROVE r = s
  <2> DEFINE m == (q + l) - (p + k)
  <2>1. m \in Int
    BY <1>4
  <2>2. r - s = a * m
    BY <1>4, <1>5, <1>7
  <2> HIDE DEF m
  <2>3. CASE m >= 1
    BY <1>4, <2>1, <2>2, <2>3, Multiples
  <2>4. CASE m <= -1
    BY <1>4, <2>1, <2>2, <2>4, Multiples
  <2>5. CASE m = 0
    BY <1>4, <2>1, <2>2, <2>5
  <2> QED
    BY <2>1, <2>3, <2>4, <2>5
<1> QED
  BY <1>3, <1>6, <1>7

(* m11_validate_user_range accepts a range that does not wrap and lies in  *)
(* the region.                                                             *)
LEMMA RangeExact ==
  ASSUME NEW r \in Region, NEW base \in Word, NEW size \in Word
  PROVE  ValidateUserRange(r, base, size) <=> size # 0 /\ r.base <= base /\ base + size <= r.limit
<1>1. /\ base \in Nat /\ size \in Nat /\ base < WordCount /\ size < WordCount /\ WordCount \in Nat
      /\ r.base \in Nat /\ r.limit \in Nat /\ r.limit < WordCount
  BY WordAssumption DEF Word, Region
<1>2. CASE base + size < WordCount
  BY <1>1, <1>2 DEF ValidateUserRange, Overflows, Plus
<1>3. CASE ~(base + size < WordCount)
  BY <1>1, <1>3 DEF ValidateUserRange, Overflows, Plus
<1> QED
  BY <1>2, <1>3

(* The bounds checks against the image compare sums that do not wrap. *)
LEMMA BeyondExact ==
  ASSUME NEW off \in Word, NEW len \in Word, NEW size \in Word
  PROVE  BeyondImage(off, len, size) <=> off + len > size
<1>1. /\ off \in Nat /\ len \in Nat /\ off < WordCount /\ len < WordCount /\ WordCount \in Nat
      /\ size \in Nat /\ size < WordCount
  BY WordAssumption DEF Word
<1>2. CASE off + len < WordCount
  BY <1>1, <1>2 DEF BeyondImage, Overflows, Plus
<1>3. CASE ~(off + len < WordCount)
  BY <1>1, <1>3 DEF BeyondImage, Overflows, Plus
<1> QED
  BY <1>2, <1>3

(* m11_validate_load_segment accepts exactly the good segments. *)
LEMMA SegmentExact ==
  ASSUME NEW h \in ProgramHeader, elf.image.size \in Word, elf.region \in Region
  PROVE  /\ LoadSegment(h, elf.image.size, elf.region) = "OK" <=> GoodSegment(h)
         /\ LoadSegment(h, elf.image.size, elf.region) # "running"
<1> DEFINE size == elf.image.size
           r == elf.region
           checks ==
      << <<"other" \in h.flags, "FLAGS">>,
         <<{"W", "X"} \subseteq h.flags, "FLAGS">>,
         <<h.memsz < h.filesz, "SEGBOUNDS">>,
         <<h.align > 1 /\ h.align \notin Aligns, "ALIGN">>,
         <<h.align > 1 /\ h.vaddr % h.align # h.offset % h.align, "ALIGN">>,
         <<BeyondImage(h.offset, h.filesz, size), "SEGBOUNDS">>,
         <<~ValidateUserRange(r, h.vaddr, h.memsz), "SEGRANGE">> >>
<1>1. /\ h.offset \in Word /\ h.vaddr \in Word /\ h.filesz \in Word /\ h.memsz \in Word /\ h.align \in Word
      /\ h.offset \in Nat /\ h.vaddr \in Nat /\ h.filesz \in Nat /\ h.memsz \in Nat /\ h.align \in Nat
      /\ h.offset <= WordCount /\ h.vaddr <= WordCount /\ WordCount \in Nat
      /\ size \in Nat /\ r.base \in Nat /\ r.limit \in Nat
  BY WordAssumption DEF ProgramHeader, Word, Region
<1>2. DOMAIN checks = 1..7 /\ \A k \in 1..7 : checks[k][2] \notin {"OK", "running"}
  OBVIOUS
<1>3. LoadSegment(h, size, r) = Verdict(checks)
  BY DEF LoadSegment
<1>4. (\A k \in 1..7 : ~checks[k][1]) <=>
        /\ "other" \notin h.flags
        /\ ~({"W", "X"} \subseteq h.flags)
        /\ ~(h.memsz < h.filesz)
        /\ ~(h.align > 1 /\ h.align \notin Aligns)
        /\ ~(h.align > 1 /\ h.vaddr % h.align # h.offset % h.align)
        /\ ~BeyondImage(h.offset, h.filesz, size)
        /\ ValidateUserRange(r, h.vaddr, h.memsz)
  <2>1. \A k \in 1..7 : k = 1 \/ k = 2 \/ k = 3 \/ k = 4 \/ k = 5 \/ k = 6 \/ k = 7
    OBVIOUS
  <2>2. 1 \in 1..7 /\ 2 \in 1..7 /\ 3 \in 1..7 /\ 4 \in 1..7 /\ 5 \in 1..7 /\ 6 \in 1..7 /\ 7 \in 1..7
    OBVIOUS
  <2>3. /\ checks[1][1] = ("other" \in h.flags)
        /\ checks[2][1] = ({"W", "X"} \subseteq h.flags)
        /\ checks[3][1] = (h.memsz < h.filesz)
        /\ checks[4][1] = (h.align > 1 /\ h.align \notin Aligns)
        /\ checks[5][1] = (h.align > 1 /\ h.vaddr % h.align # h.offset % h.align)
        /\ checks[6][1] = BeyondImage(h.offset, h.filesz, size)
        /\ checks[7][1] = ~ValidateUserRange(r, h.vaddr, h.memsz)
    OBVIOUS
  <2> HIDE DEF checks
  <2> QED
    BY <2>1, <2>2, <2>3, Zenon
<1> HIDE DEF checks
<1>5. Verdict(checks) # "running" /\ (Verdict(checks) = "OK" <=> \A k \in 1..7 : ~checks[k][1])
  <2>1. 7 \in Nat
    OBVIOUS
  <2> QED
    BY <1>2, <2>1, VerdictOK
<1>6. /\ ~(h.align > 1 /\ h.align \notin Aligns)
      /\ ~(h.align > 1 /\ h.vaddr % h.align # h.offset % h.align)
      <=> \/ h.align \in {0, 1}
          \/ \E k, l \in 0..WordCount : /\ h.align \in Aligns
                                        /\ h.vaddr + k * h.align = h.offset + l * h.align
  <2>1. CASE h.align \in {0, 1}
    BY <2>1
  <2>2. CASE h.align \notin {0, 1}
    <3>1. h.align > 1 /\ h.align # 0
      BY <1>1, <2>2
    <3>2. h.vaddr % h.align = h.offset % h.align
            <=> \E k, l \in 0..WordCount : h.vaddr + k * h.align = h.offset + l * h.align
      <4>1. PICK v, o, a : v = h.vaddr /\ o = h.offset /\ a = h.align
        OBVIOUS
      <4>2. Divisible(v, o, a, WordCount)
        BY <1>1, <3>1, <4>1 DEF Divisible
      <4>3. v % a = o % a <=> \E k, l \in 0..WordCount : v + k * a = o + l * a
        BY <4>2, AlignedAlike
      <4> QED
        BY <4>1, <4>3, Zenon
    <3> QED
      BY <2>2, <3>1, <3>2, Zenon
  <2> QED
    BY <2>1, <2>2
<1>7. ValidateUserRange(r, h.vaddr, h.memsz)
        <=> h.memsz # 0 /\ r.base <= h.vaddr /\ h.vaddr + h.memsz <= r.limit
  BY <1>1, RangeExact
<1>8. ~BeyondImage(h.offset, h.filesz, size) <=> h.offset + h.filesz <= size
  BY <1>1, BeyondExact
<1>9. ~(h.memsz < h.filesz) <=> h.filesz <= h.memsz
  BY <1>1
<1> QED
  BY <1>3, <1>4, <1>5, <1>6, <1>7, <1>8, <1>9, Zenon DEF GoodSegment

(* u is s followed by t. *)
IsJoin(u, s, t, S) == /\ u \in Seq(S) /\ Len(u) = Len(s) + Len(t)
                      /\ \A k \in 1..Len(s) : u[k] = s[k]
                      /\ \A k \in 1..Len(t) : u[Len(s) + k] = t[k]

(* The two parts of a concatenation. *)
LEMMA Joined == ASSUME NEW S, NEW s \in Seq(S), NEW t \in Seq(S) PROVE IsJoin(s \o t, s, t, S)
<1> DEFINE st == s \o t
           m == Len(s)
           n == Len(t)
<1>1. st \in Seq(S) /\ Len(st) = m + n /\ m \in Nat /\ n \in Nat
  BY ConcatProperties
<1>2. \A i \in 1..(m + n) : st[i] = IF i <= m THEN s[i] ELSE t[i - m]
  BY ConcatProperties
<1> HIDE DEF st, m, n
<1>3. \A k \in 1..m : st[k] = s[k]
  BY <1>1, <1>2
<1>4. \A k \in 1..n : m + k \in 1..(m + n) /\ ~(m + k <= m) /\ (m + k) - m = k
  BY <1>1
<1>5. \A k \in 1..n : st[m + k] = t[k]
  BY <1>2, <1>4
<1> QED
  BY <1>1, <1>3, <1>5 DEF st, m, n, IsJoin

(* Four sequences of 1, 7, 3 and 1 elements in a row. *)
Parts(a, b, c, d, S) == /\ a \in Seq(S) /\ b \in Seq(S) /\ c \in Seq(S) /\ d \in Seq(S)
                        /\ Len(a) = 1 /\ Len(b) = 7 /\ Len(c) = 3 /\ Len(d) = 1
InOrder(s, a, b, c, d) == /\ DOMAIN s = 1..12
                          /\ s[1] = a[1] /\ s[12] = d[1]
                          /\ \A k \in 1..7 : s[1 + k] = b[k]
                          /\ \A k \in 1..3 : s[8 + k] = c[k]

(* The concatenation of four such sequences. *)
LEMMA JoinedFour ==
  ASSUME NEW a, NEW b, NEW c, NEW d, NEW S, Parts(a, b, c, d, S)
  PROVE  InOrder(a \o b \o c \o d, a, b, c, d)
<1> USE DEF Parts
<1> DEFINE ab == a \o b
           abc == ab \o c
           abcd == abc \o d
<1>0. IsJoin(ab, a, b, S)
  BY Joined
<1> HIDE DEF ab
<1>1. ab \in Seq(S) /\ Len(ab) = 8 /\ ab[1] = a[1] /\ \A k \in 1..7 : ab[1 + k] = b[k]
  BY <1>0 DEF IsJoin
<1>10. IsJoin(abc, ab, c, S)
  BY <1>1, Joined
<1> HIDE DEF abc
<1>2. /\ abc \in Seq(S) /\ Len(abc) = 11 /\ \A k \in 1..8 : abc[k] = ab[k]
      /\ \A k \in 1..3 : abc[8 + k] = c[k]
  BY <1>1, <1>10 DEF IsJoin
<1>11. IsJoin(abcd, abc, d, S)
  BY <1>2, Joined
<1> HIDE DEF abcd
<1>3. /\ abcd \in Seq(S) /\ Len(abcd) = 12 /\ abcd[12] = d[1]
      /\ \A k \in 1..11 : abcd[k] = abc[k]
  BY <1>2, <1>11 DEF IsJoin
<1>4. abcd[1] = a[1]
  BY <1>1, <1>2, <1>3
<1>5. \A k \in 1..7 : 1 + k \in 1..8 /\ 1 + k \in 1..11
  OBVIOUS
<1>6. \A k \in 1..7 : abcd[1 + k] = b[k]
  BY <1>1, <1>2, <1>3, <1>5
<1>7. \A k \in 1..3 : 8 + k \in 1..11
  OBVIOUS
<1>8. \A k \in 1..3 : abcd[8 + k] = c[k]
  BY <1>2, <1>3, <1>7
<1>9. DOMAIN abcd = 1..12
  BY <1>3
<1> QED
  BY <1>3, <1>4, <1>6, <1>8, <1>9 DEF ab, abc, abcd, InOrder

(* An image whose header and table are good. *)
HeaderGood(img, r) ==
  /\ img.size >= EhdrSize
  /\ img.wrong = {}
  /\ img.phoff + PhdrSize * Len(img.ph) <= img.size
  /\ img.entry \in Inside(r)
  /\ img.ph # <<>>

(* The checks before the loop accept exactly the headers of good images. *)
LEMMA HeaderExact ==
  ASSUME NEW img, IsImage(img), NEW r \in Region
  PROVE  /\ HeaderVerdict(img, r) = "OK" <=> HeaderGood(img, r)
         /\ HeaderVerdict(img, r) # "running"
<1> DEFINE first == << <<img.size < EhdrSize, "SIZE">> >>
           fields == [k \in DOMAIN HeaderField |-> <<HeaderField[k] \in img.wrong, HeaderField[k]>>]
           table == PhdrChecks(img)
           last == << <<~ValidateUserRange(r, img.entry, 1), "ENTRY">> >>
           Check == {first[1], table[1], table[2], table[3], last[1]} \cup {fields[k] : k \in 1..7}
           checks == first \o fields \o table \o last
<1>0. DOMAIN HeaderField = 1..7
  BY DEF HeaderField
<1>1. \A k \in 1..7 : HeaderField[k] \notin {"OK", "running"}
  BY DEF HeaderField
<1>2. Len(first) = 1 /\ DOMAIN first = 1..1 /\ first[1] = <<img.size < EhdrSize, "SIZE">>
  OBVIOUS
<1>3. DOMAIN fields = 1..7 /\ \A k \in 1..7 : fields[k] = <<HeaderField[k] \in img.wrong, HeaderField[k]>>
  BY <1>0
<1>4. /\ Len(table) = 3 /\ DOMAIN table = 1..3
      /\ table[1] = <<img.ph = <<>>, "PHBOUNDS">>
      /\ table[2] = <<"PHENTSIZE" \in img.wrong, "PHENTSIZE">>
      /\ table[3] = <<BeyondImage(img.phoff, PhdrSize * Len(img.ph), img.size), "PHBOUNDS">>
  BY DEF PhdrChecks
<1>5. Len(last) = 1 /\ DOMAIN last = 1..1 /\ last[1] = <<~ValidateUserRange(r, img.entry, 1), "ENTRY">>
  OBVIOUS
<1>6. /\ DOMAIN checks = 1..12
      /\ checks[1] = first[1]
      /\ \A k \in 1..7 : checks[1 + k] = fields[k]
      /\ \A k \in 1..3 : checks[8 + k] = table[k]
      /\ checks[12] = last[1]
  <2>1. first = [k \in 1..1 |-> first[k]] /\ last = [k \in 1..1 |-> last[k]]
    OBVIOUS
  <2>2. fields = [k \in 1..7 |-> fields[k]]
    BY <1>0
  <2>3. table = [k \in 1..3 |-> table[k]]
    BY DEF PhdrChecks
  <2> HIDE DEF first, fields, table, last
  <2>4. first \in Seq(Check) /\ last \in Seq(Check)
    BY <1>2, <1>5, <2>1
  <2>5. fields \in Seq(Check) /\ Len(fields) = 7
    BY <1>3, <2>2
  <2>6. table \in Seq(Check)
    <3>1. \A k \in 1..3 : k = 1 \/ k = 2 \/ k = 3
      OBVIOUS
    <3>2. \A k \in 1..3 : table[k] \in Check
      BY <3>1
    <3> HIDE DEF Check
    <3> QED
      BY <2>3, <3>2
  <2> HIDE DEF Check
  <2> QED
    <3>1. Parts(first, fields, table, last, Check)
      BY <1>2, <1>4, <1>5, <2>4, <2>5, <2>6 DEF Parts
    <3>2. InOrder(checks, first, fields, table, last)
      BY <3>1, JoinedFour
    <3> QED
      BY <3>2 DEF InOrder
<1>7. Verdict(checks) = HeaderVerdict(img, r)
  BY DEF HeaderVerdict
<1> HIDE DEF first, fields, table, last, checks
<1>8. \A k \in 1..12 : k = 1 \/ (\E j \in 1..7 : k = 1 + j) \/ (\E j \in 1..3 : k = 8 + j) \/ k = 12
  <2> SUFFICES ASSUME NEW k \in 1..12, k # 1, k # 12, ~(\E j \in 1..3 : k = 8 + j)
               PROVE  \E j \in 1..7 : k = 1 + j
    OBVIOUS
  <2>1. k \in 9..11 => k - 8 \in 1..3 /\ k = 8 + (k - 8)
    OBVIOUS
  <2>2. k - 1 \in 1..7 /\ k = 1 + (k - 1)
    BY <2>1
  <2> QED
    BY <2>2
<1>9. 1 \in 1..12 /\ 12 \in 1..12 /\ (\A j \in 1..7 : 1 + j \in 1..12) /\ (\A j \in 1..3 : 8 + j \in 1..12)
      /\ 1 \in 1..3 /\ 2 \in 1..3 /\ 3 \in 1..3 /\ \A j \in 1..3 : j = 1 \/ j = 2 \/ j = 3
  OBVIOUS
<1>10. \A k \in 1..12 : checks[k][2] \notin {"OK", "running"}
  <2> SUFFICES ASSUME NEW k \in 1..12 PROVE checks[k][2] \notin {"OK", "running"}
    OBVIOUS
  <2>1. CASE k = 1
    BY <1>2, <1>6, <2>1
  <2>2. CASE \E j \in 1..7 : k = 1 + j
    BY <1>1, <1>3, <1>6, <2>2
  <2>3. CASE \E j \in 1..3 : k = 8 + j
    <3>1. PICK j \in 1..3 : k = 8 + j
      BY <2>3
    <3>2. table[j][2] \in {"PHBOUNDS", "PHENTSIZE"}
      BY <1>4, <1>9
    <3> QED
      BY <1>6, <3>1, <3>2
  <2>4. CASE k = 12
    BY <1>5, <1>6, <2>4
  <2> QED
    BY <1>8, <2>1, <2>2, <2>3, <2>4
<1>11. DOMAIN checks = 1..12 /\ 12 \in Nat
  BY <1>6
<1>12. Verdict(checks) # "running" /\ (Verdict(checks) = "OK" <=> \A k \in 1..12 : ~checks[k][1])
  BY <1>10, <1>11, VerdictOK
<1>13. (\A k \in 1..12 : ~checks[k][1]) <=>
         /\ ~first[1][1] /\ ~last[1][1]
         /\ \A j \in 1..7 : ~fields[j][1]
         /\ ~table[1][1] /\ ~table[2][1] /\ ~table[3][1]
  <2>1. ASSUME \A k \in 1..12 : ~checks[k][1]
        PROVE  /\ ~first[1][1] /\ ~last[1][1]
               /\ \A j \in 1..7 : ~fields[j][1]
               /\ ~table[1][1] /\ ~table[2][1] /\ ~table[3][1]
    BY <1>6, <1>9, <2>1, Zenon
  <2>2. ASSUME ~first[1][1], ~last[1][1], \A j \in 1..7 : ~fields[j][1],
               ~table[1][1], ~table[2][1], ~table[3][1], NEW k \in 1..12
        PROVE  ~checks[k][1]
    <3>1. \A j \in 1..3 : ~table[j][1]
      BY <1>9, <2>2, Zenon
    <3> QED
      BY <1>6, <1>8, <2>2, <3>1, Zenon
  <2> QED
    BY <2>1, <2>2
<1>14. /\ first[1][1] = (img.size < EhdrSize)
       /\ last[1][1] = ~ValidateUserRange(r, img.entry, 1)
       /\ \A j \in 1..7 : fields[j][1] = (HeaderField[j] \in img.wrong)
       /\ table[1][1] = (img.ph = <<>>)
       /\ table[2][1] = ("PHENTSIZE" \in img.wrong)
       /\ table[3][1] = BeyondImage(img.phoff, PhdrSize * Len(img.ph), img.size)
  BY <1>2, <1>3, <1>4, <1>5
<1>15. (\A j \in 1..7 : HeaderField[j] \notin img.wrong) /\ "PHENTSIZE" \notin img.wrong <=> img.wrong = {}
  BY <1>0 DEF IsImage
<1>16. /\ img.size \in Word /\ img.phoff \in Word /\ img.entry \in Word /\ PhdrSize * Len(img.ph) \in Word
       /\ img.size \in Nat /\ EhdrSize \in Nat /\ img.entry \in Nat /\ 1 \in Nat
       /\ r.base \in Nat /\ r.limit \in Nat /\ r.limit \in Word
       /\ PhdrSize * Len(img.ph) \in Nat /\ img.phoff \in Nat
  BY WordAssumption, ElfAssumption DEF IsImage, Word, Region
<1>17. ~(img.size < EhdrSize) <=> img.size >= EhdrSize
  BY <1>16
<1>18. ~BeyondImage(img.phoff, PhdrSize * Len(img.ph), img.size) <=> img.phoff + PhdrSize * Len(img.ph) <= img.size
  <2>1. BeyondImage(img.phoff, PhdrSize * Len(img.ph), img.size) <=> img.phoff + PhdrSize * Len(img.ph) > img.size
    BY <1>16, BeyondExact
  <2> QED
    BY <1>16, <2>1
<1>19. ValidateUserRange(r, img.entry, 1) <=> img.entry \in Inside(r)
  <2>1. CASE 1 \in Word
    <3>1. ValidateUserRange(r, img.entry, 1) <=> 1 # 0 /\ r.base <= img.entry /\ img.entry + 1 <= r.limit
      BY <1>16, <2>1, RangeExact
    <3> QED
      BY <1>16, <3>1 DEF Inside
  <2>2. CASE 1 \notin Word
    <3>1. \A w \in Word : w = 0
      BY <2>2, WordAssumption DEF Word
    <3>2. r.base = 0 /\ r.limit = 0
      BY <3>1 DEF Region
    <3> QED
      BY <1>16, <3>2 DEF Inside, ValidateUserRange
  <2> QED
    BY <2>1, <2>2
<1> QED
  BY <1>7, <1>12, <1>13, <1>14, <1>15, <1>17, <1>18, <1>19, Zenon DEF HeaderGood

-----------------------------------------------------------------------------
(* The headers that the reference definition selects, one header at a time. *)
LEMMA LoadsUnfold ==
  ASSUME NEW ph \in Seq(ProgramHeader)
  PROVE  /\ LoadsAmong(ph, 0) = <<>>
         /\ \A k \in 1..Len(ph) :
              LoadsAmong(ph, k) = IF ph[k].load THEN Append(LoadsAmong(ph, k - 1), ph[k])
                                  ELSE LoadsAmong(ph, k - 1)
<1> DEFINE L == Len(ph)
           Step(f, k) == IF ph[k].load THEN Append(f[k - 1], ph[k]) ELSE f[k - 1]
           body(f) == [k \in 0..L |-> IF k = 0 THEN <<>>
                                      ELSE IF ph[k].load THEN Append(f[k - 1], ph[k])
                                      ELSE f[k - 1]]
           K == CHOOSE f : f = body(f)
           Upto(f, n) == DOMAIN f = 0..n /\ f[0] = <<>> /\ \A k \in 1..n : f[k] = Step(f, k)
           bad == {n \in 0..L : ~\E f : Upto(f, n)}
<1>1. L \in Nat
  OBVIOUS
<1> HIDE DEF L
<1>2. \E f : Upto(f, 0)
  <2> DEFINE z == [k \in 0..0 |-> <<>>]
  <2>1. DOMAIN z = 0..0 /\ z[0] = <<>> /\ 1..0 = {}
    OBVIOUS
  <2> QED
    BY <2>1
<1>3. ASSUME NEW n \in 1..L, NEW f, Upto(f, n - 1) PROVE \E g : Upto(g, n)
  <2> DEFINE g == [k \in 0..n |-> IF k = n THEN Step(f, n) ELSE f[k]]
  <2>1. n \in Nat /\ n # 0 /\ n - 1 \in 0..n /\ 0 \in 0..n /\ n - 1 # n /\ 0 # n /\ n \in 0..n
    BY <1>1
  <2>2. \A k \in 1..(n - 1) : k \in 0..n /\ k # n /\ k - 1 \in 0..n /\ k - 1 # n
    BY <2>1
  <2> HIDE DEF Step
  <2>3. DOMAIN g = 0..n /\ g[0] = f[0] /\ g[n] = Step(f, n) /\ g[n - 1] = f[n - 1]
        /\ \A k \in 1..(n - 1) : g[k] = f[k] /\ g[k - 1] = f[k - 1]
    BY <2>1, <2>2
  <2> HIDE DEF g
  <2>4. \A k : g[k - 1] = f[k - 1] => Step(g, k) = Step(f, k)
    BY DEF Step
  <2>5. ASSUME NEW k \in 1..n PROVE g[k] = Step(g, k)
    <3>1. CASE k = n
      BY <2>3, <2>4, <3>1
    <3>2. CASE k # n
      <4>1. k \in 1..(n - 1)
        BY <2>1, <3>2
      <4> QED
        BY <1>3, <2>3, <2>4, <4>1
    <3> QED
      BY <3>1, <3>2
  <2>6. Upto(g, n)
    BY <1>3, <2>3, <2>5
  <2> QED
    BY <2>6
<1>4. bad = {}
  <2> SUFFICES ASSUME bad # {} PROVE FALSE
    OBVIOUS
  <2>1. bad \subseteq Nat
    BY <1>1
  <2>2. PICK n \in bad : \A j \in bad : n <= j
    <3> HIDE DEF bad
    <3> QED
      BY <2>1, Least
  <2>3. n \in 0..L /\ ~\E f : Upto(f, n)
    BY <2>2
  <2> HIDE DEF Upto
  <2>4. n # 0
    BY <1>2, <2>3
  <2>5. n - 1 \in 0..L /\ ~(n <= n - 1) /\ n \in 1..L
    BY <1>1, <2>3, <2>4
  <2>6. n - 1 \notin bad
    BY <2>2, <2>5
  <2>7. \E f : Upto(f, n - 1)
    BY <2>5, <2>6
  <2> QED
    BY <1>3, <2>3, <2>5, <2>7
<1>5. PICK f : Upto(f, L)
  BY <1>1, <1>4
<1>6. \E g : g = body(g)
  <2> DEFINE g == body(f)
  <2>1. DOMAIN g = 0..L /\ \A k \in 0..L : g[k] = IF k = 0 THEN <<>> ELSE Step(f, k)
    OBVIOUS
  <2>2. \A k \in 0..L : k # 0 => k \in 1..L
    BY <1>1
  <2>3. \A k \in 0..L : g[k] = f[k]
    BY <1>5, <2>1, <2>2
  <2>4. \A k \in 0..L : k # 0 => k - 1 \in 0..L
    BY <1>1
  <2>5. \A k \in 0..L : k # 0 => g[k - 1] = f[k - 1]
    BY <2>3, <2>4
  <2> HIDE DEF g
  <2>6. body(g) = body(f)
    BY <2>5
  <2> QED
    BY <2>6 DEF g
<1>7. K = body(K)
  <2> HIDE DEF body
  <2> QED
    BY <1>6
<1>8. \A n : LoadsAmong(ph, n) = K[n]
  BY DEF LoadsAmong, L
<1> HIDE DEF K
<1>9. /\ K[0] = <<>>
      /\ \A k \in 1..L : K[k] = IF ph[k].load THEN Append(K[k - 1], ph[k]) ELSE K[k - 1]
  <2>1. 0 \in 0..L /\ \A k \in 1..L : k \in 0..L /\ k # 0
    BY <1>1
  <2> QED
    BY <1>7, <2>1
<1> QED
  BY <1>8, <1>9 DEF L

(* What the selection of the first n headers consists of. *)
Selected(ph, n) ==
  /\ LoadsAmong(ph, n) \in Seq(ProgramHeader)
  /\ \A m \in 0..n : Len(LoadsAmong(ph, m)) \in 0..Len(LoadsAmong(ph, n))
  /\ \A j \in 1..n : ph[j].load => \E i \in 1..Len(LoadsAmong(ph, n)) : LoadsAmong(ph, n)[i] = ph[j]
  /\ \A i \in 1..Len(LoadsAmong(ph, n)) : \E j \in 1..n : ph[j].load /\ LoadsAmong(ph, n)[i] = ph[j]

(* One more header. *)
LEMMA SelectNext ==
  ASSUME NEW ph \in Seq(ProgramHeader), NEW n \in 1..Len(ph), Selected(ph, n - 1)
  PROVE  Selected(ph, n)
<1> DEFINE A == LoadsAmong(ph, n - 1)
           B == LoadsAmong(ph, n)
<1>1. B = IF ph[n].load THEN Append(A, ph[n]) ELSE A
  BY LoadsUnfold
<1>2. /\ n \in Nat /\ ph[n] \in ProgramHeader /\ A \in Seq(ProgramHeader) /\ Len(A) \in Nat
      /\ \A j \in 1..n : j = n \/ j \in 1..(n - 1)
      /\ \A j \in 1..(n - 1) : j \in 1..n
      /\ \A m \in 0..n : m = n \/ m \in 0..(n - 1)
      /\ n \in 1..n
  BY DEF Selected
<1>3. /\ \A m \in 0..(n - 1) : Len(LoadsAmong(ph, m)) \in 0..Len(A)
      /\ \A j \in 1..(n - 1) : ph[j].load => \E i \in 1..Len(A) : A[i] = ph[j]
      /\ \A i \in 1..Len(A) : \E j \in 1..(n - 1) : ph[j].load /\ A[i] = ph[j]
  BY DEF Selected
<1>4. CASE ~ph[n].load
  <2>1. B = A
    BY <1>1, <1>4
  <2> HIDE DEF A, B
  <2>2. \A m \in 0..n : Len(LoadsAmong(ph, m)) \in 0..Len(B)
    <3>1. Len(LoadsAmong(ph, n)) = Len(A)
      BY <2>1 DEF B
    <3> QED
      BY <1>2, <1>3, <2>1, <3>1
  <2>3. \A j \in 1..n : ph[j].load => \E i \in 1..Len(B) : B[i] = ph[j]
    BY <1>2, <1>3, <1>4, <2>1
  <2>4. \A i \in 1..Len(B) : \E j \in 1..n : ph[j].load /\ B[i] = ph[j]
    BY <1>2, <1>3, <2>1
  <2> QED
    BY <1>2, <2>1, <2>2, <2>3, <2>4 DEF Selected, B
<1>5. CASE ph[n].load
  <2>0. B = Append(A, ph[n])
    BY <1>1, <1>5
  <2> HIDE DEF A, B
  <2>1. /\ B \in Seq(ProgramHeader) /\ Len(B) = Len(A) + 1 /\ B[Len(A) + 1] = ph[n]
        /\ \A i \in 1..Len(A) : B[i] = A[i]
    BY <1>2, <2>0, AppendProperties
  <2>2. /\ Len(A) + 1 \in 1..Len(B) /\ (\A i \in 1..Len(A) : i \in 1..Len(B))
        /\ \A i \in 1..Len(B) : i = Len(A) + 1 \/ i \in 1..Len(A)
    BY <1>2, <2>1
  <2>3. ASSUME NEW m \in 0..n PROVE Len(LoadsAmong(ph, m)) \in 0..Len(B)
    <3>1. CASE m = n
      BY <1>2, <2>1, <3>1 DEF B
    <3>2. CASE m \in 0..(n - 1)
      <4>1. Len(LoadsAmong(ph, m)) \in 0..Len(A)
        BY <1>3, <3>2
      <4> QED
        BY <1>2, <2>1, <4>1
    <3> QED
      BY <1>2, <3>1, <3>2
  <2>4. \A j \in 1..n : ph[j].load => \E i \in 1..Len(B) : B[i] = ph[j]
    BY <1>2, <1>3, <2>1, <2>2
  <2>5. \A i \in 1..Len(B) : \E j \in 1..n : ph[j].load /\ B[i] = ph[j]
    <3> SUFFICES ASSUME NEW i \in 1..Len(B) PROVE \E j \in 1..n : ph[j].load /\ B[i] = ph[j]
      OBVIOUS
    <3>1. CASE i = Len(A) + 1
      BY <1>2, <1>5, <2>1, <3>1
    <3>2. CASE i \in 1..Len(A)
      <4>1. PICK j \in 1..(n - 1) : ph[j].load /\ A[i] = ph[j]
        BY <1>3, <3>2
      <4>2. j \in 1..n /\ B[i] = ph[j]
        BY <1>2, <2>1, <3>2, <4>1
      <4> QED
        BY <4>1, <4>2
    <3> QED
      BY <2>2, <3>1, <3>2
  <2> QED
    BY <2>1, <2>3, <2>4, <2>5 DEF Selected, B
<1> QED
  BY <1>4, <1>5

(* The selection is what it should be for every table. *)
LEMMA LoadsSelected ==
  ASSUME NEW ph \in Seq(ProgramHeader), NEW n \in 0..Len(ph)
  PROVE  Selected(ph, n)
<1> DEFINE bad == {m \in 0..Len(ph) : ~Selected(ph, m)}
<1>1. Len(ph) \in Nat
  OBVIOUS
<1>2. Selected(ph, 0)
  <2>1. LoadsAmong(ph, 0) = <<>>
    BY LoadsUnfold
  <2>2. <<>> \in Seq(ProgramHeader) /\ Len(<<>>) = 0 /\ 1..0 = {} /\ \A m \in 0..0 : m = 0
    OBVIOUS
  <2>3. \A m \in 0..0 : Len(LoadsAmong(ph, m)) \in 0..Len(LoadsAmong(ph, 0))
    BY <2>1, <2>2
  <2>4. \A i \in 1..Len(LoadsAmong(ph, 0)) : FALSE
    BY <2>1, <2>2
  <2>5. \A i \in 1..0 : FALSE
    OBVIOUS
  <2> QED
    BY <2>1, <2>2, <2>3, <2>4, <2>5 DEF Selected
<1>3. bad = {}
  <2> SUFFICES ASSUME bad # {} PROVE FALSE
    OBVIOUS
  <2>1. bad \subseteq Nat
    BY <1>1
  <2>2. PICK m \in bad : \A j \in bad : m <= j
    <3> HIDE DEF bad
    <3> QED
      BY <2>1, Least
  <2>3. m \in 0..Len(ph) /\ ~Selected(ph, m) /\ m # 0
    BY <1>2, <2>2
  <2>4. m - 1 \in 0..Len(ph) /\ ~(m <= m - 1) /\ m \in 1..Len(ph)
    BY <1>1, <2>3
  <2>5. Selected(ph, m - 1)
    BY <2>2, <2>4
  <2> QED
    BY <2>3, <2>4, <2>5, SelectNext
<1> QED
  BY <1>3

-----------------------------------------------------------------------------
(* The plan for a list of headers. *)
PlanOf(loads) == [k \in DOMAIN loads |-> SegmentOf(loads[k])]

(* The plan after a walk over the first n headers that rejected none. *)
Walked(n) ==
  /\ HeaderVerdict(elf.image, elf.region) = "OK"
  /\ plan.entry = elf.image.entry
  /\ plan.segments = PlanOf(LoadsAmong(elf.image.ph, n))
  /\ Len(LoadsAmong(elf.image.ph, n)) <= MaxLoadSegments
  /\ \A j \in 1..n : elf.image.ph[j].load =>
       LoadSegment(elf.image.ph[j], elf.image.size, elf.region) = "OK"

(* Why the call rejects the image. *)
Refused ==
  \/ HeaderVerdict(elf.image, elf.region) # "OK"
  \/ \E j \in 1..Len(elf.image.ph) :
       /\ elf.image.ph[j].load
       /\ \/ LoadSegment(elf.image.ph[j], elf.image.size, elf.region) # "OK"
          \/ Len(LoadsAmong(elf.image.ph, j)) > MaxLoadSegments

(* The inductive invariant of the loader: where a call stands. *)
PlanInv ==
  elf_rc # "none" =>
    /\ IsImage(elf.image) /\ elf.region \in Region
    /\ \/ elf_rc = "running" /\ idx \in 1..(Len(elf.image.ph) + 1) /\ Walked(idx - 1)
       \/ /\ elf_rc = IF plan.segments = <<>> THEN "SEGCOUNT" ELSE "OK"
          /\ Walked(Len(elf.image.ph))
       \/ elf_rc \notin {"OK", "running"} /\ plan = ZeroPlan /\ Refused

(* The plan for one more header. *)
LEMMA PlanOfAppend ==
  ASSUME NEW s \in Seq(ProgramHeader), NEW h \in ProgramHeader
  PROVE  PlanOf(Append(s, h)) = Append(PlanOf(s), SegmentOf(h))
<1> DEFINE seg == {SegmentOf(g) : g \in ProgramHeader}
           t == Append(s, h)
           p == PlanOf(s)
           q == PlanOf(t)
<1>1. /\ Len(s) \in Nat /\ t \in Seq(ProgramHeader) /\ Len(t) = Len(s) + 1 /\ t[Len(s) + 1] = h
      /\ \A i \in 1..Len(s) : t[i] = s[i] /\ s[i] \in ProgramHeader
      /\ DOMAIN s = 1..Len(s) /\ DOMAIN t = 1..(Len(s) + 1)
  BY AppendProperties
<1> HIDE DEF t
<1>2. /\ p = [k \in 1..Len(s) |-> SegmentOf(s[k])]
      /\ q = [k \in 1..(Len(s) + 1) |-> SegmentOf(t[k])]
  BY <1>1 DEF PlanOf
<1>3. \A g \in ProgramHeader : SegmentOf(g) \in seg
  OBVIOUS
<1> HIDE DEF seg, p, q
<1>4. p \in Seq(seg) /\ Len(p) = Len(s) /\ \A k \in 1..Len(s) : p[k] = SegmentOf(s[k])
  BY <1>1, <1>2, <1>3
<1>5. \A k \in 1..Len(t) : t[k] \in ProgramHeader
  BY <1>1
<1>6. q \in Seq(seg) /\ Len(q) = Len(s) + 1 /\ \A k \in 1..(Len(s) + 1) : q[k] = SegmentOf(t[k])
  BY <1>1, <1>2, <1>3, <1>5
<1>7. /\ Append(p, SegmentOf(h)) \in Seq(seg) /\ Len(Append(p, SegmentOf(h))) = Len(s) + 1
      /\ Append(p, SegmentOf(h))[Len(s) + 1] = SegmentOf(h)
      /\ \A k \in 1..Len(s) : Append(p, SegmentOf(h))[k] = p[k]
  BY <1>3, <1>4, AppendProperties
<1>8. \A k \in 1..(Len(s) + 1) : k = Len(s) + 1 \/ k \in 1..Len(s)
  BY <1>1
<1>9. ASSUME NEW k \in 1..(Len(s) + 1) PROVE q[k] = Append(p, SegmentOf(h))[k]
  <2>1. CASE k = Len(s) + 1
    BY <1>1, <1>6, <1>7, <2>1
  <2>2. CASE k \in 1..Len(s)
    BY <1>1, <1>4, <1>6, <1>7, <2>2
  <2> QED
    BY <1>8, <2>1, <2>2
<1>10. q = Append(p, SegmentOf(h))
  BY <1>6, <1>7, <1>9, SeqEqual
<1> QED
  BY <1>10 DEF p, q, t

(* How many segments a plan has. *)
LEMMA PlanOfLen ==
  ASSUME NEW s \in Seq(ProgramHeader)
  PROVE  Len(PlanOf(s)) = Len(s) /\ (PlanOf(s) = <<>> <=> Len(s) = 0)
<1> DEFINE p == PlanOf(s)
<1>1. Len(s) \in Nat /\ p = [k \in 1..Len(s) |-> SegmentOf(s[k])]
  BY DEF PlanOf
<1>2. DOMAIN p = 1..Len(s) /\ Len(p) = Len(s)
  BY <1>1
<1>3. p \in Seq({SegmentOf(s[k]) : k \in 1..Len(s)})
  BY <1>1
<1> HIDE DEF p
<1>4. p = <<>> <=> Len(p) = 0
  BY <1>3, EmptySeq
<1> QED
  BY <1>2, <1>4 DEF p

(* The invariant gives the property. *)
LEMMA PlanInvExact == PlanInv => PlanExact
<1> SUFFICES ASSUME PlanInv, elf_rc # "none", elf_rc # "running" PROVE PlanExact
  BY DEF PlanExact
<1> DEFINE ph == elf.image.ph
           L == Len(ph)
<1>1. /\ IsImage(elf.image) /\ elf.region \in Region
      /\ \/ /\ elf_rc = IF plan.segments = <<>> THEN "SEGCOUNT" ELSE "OK"
            /\ Walked(L)
         \/ elf_rc # "OK" /\ plan = ZeroPlan /\ Refused
  BY DEF PlanInv
<1>2. ph \in Seq(ProgramHeader) /\ elf.image.size \in Word /\ L \in Nat /\ L \in 0..L
  BY <1>1 DEF IsImage
<1>3. Loads = LoadsAmong(ph, L)
  BY DEF Loads
<1>4. /\ Loads \in Seq(ProgramHeader) /\ Len(Loads) \in Nat /\ DOMAIN Loads = 1..Len(Loads)
      /\ \A m \in 0..L : Len(LoadsAmong(ph, m)) \in 0..Len(Loads)
      /\ \A j \in 1..L : ph[j].load => \E i \in 1..Len(Loads) : Loads[i] = ph[j]
      /\ \A i \in 1..Len(Loads) : \E j \in 1..L : ph[j].load /\ Loads[i] = ph[j]
  <2> HIDE DEF ph, L
  <2>1. Selected(ph, L)
    BY <1>2, LoadsSelected DEF L
  <2>2. Loads \in Seq(ProgramHeader)
    BY <1>3, <2>1 DEF Selected
  <2>3. Len(Loads) \in Nat /\ DOMAIN Loads = 1..Len(Loads)
    BY <2>2
  <2> QED
    BY <1>3, <2>1, <2>2, <2>3 DEF Selected
<1>5. \A j \in 1..L : ph[j] \in ProgramHeader
  BY <1>2
<1>6. \A j \in 1..L : LoadSegment(ph[j], elf.image.size, elf.region) = "OK" <=> GoodSegment(ph[j])
  BY <1>1, <1>2, <1>5, SegmentExact
<1>7. HeaderVerdict(elf.image, elf.region) = "OK" <=> HeaderGood(elf.image, elf.region)
  BY <1>1, HeaderExact
<1>8. MaxLoadSegments \in Nat
  BY ElfAssumption
<1>9. CASE Walked(L) /\ elf_rc = IF plan.segments = <<>> THEN "SEGCOUNT" ELSE "OK"
  <2>1. /\ HeaderGood(elf.image, elf.region) /\ plan.entry = elf.image.entry
        /\ plan.segments = PlanOf(Loads) /\ Len(Loads) <= MaxLoadSegments
        /\ \A j \in 1..L : ph[j].load => GoodSegment(ph[j])
    BY <1>3, <1>6, <1>7, <1>9 DEF Walked
  <2>2. plan.segments = <<>> <=> Len(Loads) = 0
    BY <1>4, <2>1, PlanOfLen
  <2>3. \A i \in 1..Len(Loads) : GoodSegment(Loads[i])
    <3> HIDE DEF ph
    <3> SUFFICES ASSUME NEW i \in 1..Len(Loads) PROVE GoodSegment(Loads[i])
      OBVIOUS
    <3>1. PICK j \in 1..L : ph[j].load /\ Loads[i] = ph[j]
      BY <1>4
    <3> QED
      BY <2>1, <3>1
  <2>4. GoodImage <=> Len(Loads) \in 1..MaxLoadSegments
    BY <1>4, <2>1, <2>3 DEF GoodImage, HeaderGood
  <2>5. GoodImage <=> elf_rc = "OK"
    BY <1>4, <1>8, <1>9, <2>1, <2>2, <2>4
  <2>6. plan.segments = [k \in DOMAIN Loads |-> SegmentOf(Loads[k])]
    BY <2>1 DEF PlanOf
  <2> QED
    BY <1>9, <2>1, <2>5, <2>6 DEF PlanExact
<1>10. CASE elf_rc # "OK" /\ plan = ZeroPlan /\ Refused
  <2>1. plan.segments = <<>>
    BY <1>10 DEF ZeroPlan
  <2>2. ASSUME GoodImage PROVE FALSE
    <3>1. /\ Len(Loads) \in 1..MaxLoadSegments
          /\ \A i \in 1..Len(Loads) : GoodSegment(Loads[i])
      BY <1>4, <2>2 DEF GoodImage
    <3>2. \A j \in 1..L : ph[j].load => GoodSegment(ph[j])
      BY <1>4, <3>1
    <3>3. ASSUME NEW j \in 1..L, Len(LoadsAmong(ph, j)) > MaxLoadSegments PROVE FALSE
      <4>1. j \in 0..L
        BY <1>2
      <4>2. Len(LoadsAmong(ph, j)) \in 0..Len(Loads)
        BY <1>4, <4>1
      <4> QED
        BY <1>4, <1>8, <3>1, <3>3, <4>2
    <3>4. ph # <<>>
      <4>1. 1 \in 1..Len(Loads)
        BY <1>4, <1>8, <3>1
      <4>2. PICK j \in 1..L : Loads[1] = ph[j]
        BY <1>4, <4>1
      <4>3. L # 0
        BY <1>2, <4>2
      <4> QED
        BY <4>3
    <3>5. HeaderGood(elf.image, elf.region)
      BY <2>2, <3>4 DEF GoodImage, HeaderGood
    <3> QED
      BY <1>6, <1>7, <1>10, <3>2, <3>3, <3>5 DEF Refused
  <2> QED
    BY <1>10, <2>1, <2>2 DEF PlanExact
<1> QED
  BY <1>1, <1>9, <1>10

(* A step that moves neither the image nor the call. *)
LEMMA PlanInvStill == ASSUME PlanInv, UNCHANGED loadvars PROVE PlanInv'
BY DEF PlanInv, loadvars, Walked, Refused

(* The checks before the loop. *)
LEMMA StartKeeps ==
  ASSUME NEW img, IsImage(img), NEW r \in Region, PlanLoad(img, r)
  PROVE  PlanInv'
<1>1. elf'.image = img /\ elf'.region = r /\ idx' = 1
  BY DEF PlanLoad
<1>2. HeaderVerdict(img, r) # "running"
  BY HeaderExact
<1>3. CASE HeaderVerdict(img, r) = "OK"
  <2>1. elf_rc' = "running" /\ plan'.entry = img.entry /\ plan'.segments = <<>>
    BY <1>3 DEF PlanLoad
  <2>2. img.ph \in Seq(ProgramHeader)
    BY DEF IsImage
  <2>3. LoadsAmong(img.ph, 0) = <<>> /\ Len(img.ph) \in Nat
    BY <2>2, LoadsUnfold
  <2>4. PlanOf(<<>>) = <<>> /\ Len(<<>>) = 0 /\ 0 <= MaxLoadSegments /\ 1..0 = {} /\ 1 - 1 = 0
    <3>1. <<>> \in Seq(ProgramHeader) /\ Len(<<>>) = 0
      OBVIOUS
    <3>2. PlanOf(<<>>) = <<>>
      BY <3>1, PlanOfLen
    <3> QED
      BY <3>1, <3>2, ElfAssumption
  <2>5. Walked(0)'
    BY <1>1, <1>3, <2>1, <2>3, <2>4 DEF Walked
  <2>6. Walked(idx - 1)'
    BY <1>1, <2>4, <2>5 DEF Walked
  <2>7. idx' \in 1..(Len(elf'.image.ph) + 1)
    BY <1>1, <2>3
  <2> QED
    BY <1>1, <2>1, <2>6, <2>7 DEF PlanInv
<1>4. CASE HeaderVerdict(img, r) # "OK"
  <2>1. elf_rc' \notin {"OK", "running"} /\ plan' = ZeroPlan
    BY <1>2, <1>4 DEF PlanLoad
  <2>2. Refused'
    BY <1>1, <1>4 DEF Refused
  <2> QED
    BY <1>1, <2>1, <2>2 DEF PlanInv
<1> QED
  BY <1>3, <1>4

(* What the invariant says at a header. *)
LEMMA InTheLoop ==
  ASSUME PlanInv, NEW h, AtHeader(h)
  PROVE  /\ IsImage(elf.image) /\ elf.region \in Region
         /\ elf.image.ph \in Seq(ProgramHeader) /\ Len(elf.image.ph) \in Nat
         /\ idx \in 1..Len(elf.image.ph) /\ idx \in Nat /\ idx - 1 \in 0..Len(elf.image.ph)
         /\ h = elf.image.ph[idx] /\ h \in ProgramHeader
         /\ Walked(idx - 1)
         /\ elf' = elf
         /\ LoadsAmong(elf.image.ph, idx - 1) \in Seq(ProgramHeader)
         /\ LoadsAmong(elf.image.ph, idx) =
              IF h.load THEN Append(LoadsAmong(elf.image.ph, idx - 1), h) ELSE LoadsAmong(elf.image.ph, idx - 1)
         /\ Len(plan.segments) = Len(LoadsAmong(elf.image.ph, idx - 1))
         /\ Len(plan.segments) \in Nat
<1>1. elf_rc = "running" /\ idx <= Len(elf.image.ph) /\ h = elf.image.ph[idx] /\ elf' = elf
  BY DEF AtHeader
<1>2. /\ IsImage(elf.image) /\ elf.region \in Region
      /\ idx \in 1..(Len(elf.image.ph) + 1) /\ Walked(idx - 1)
  BY <1>1 DEF PlanInv
<1>3. elf.image.ph \in Seq(ProgramHeader) /\ Len(elf.image.ph) \in Nat
  BY <1>2 DEF IsImage
<1>4. idx \in 1..Len(elf.image.ph) /\ idx \in Nat /\ idx - 1 \in 0..Len(elf.image.ph)
  BY <1>1, <1>2, <1>3
<1>5. h \in ProgramHeader
  BY <1>1, <1>3, <1>4
<1>6. /\ LoadsAmong(elf.image.ph, idx) =
           IF h.load THEN Append(LoadsAmong(elf.image.ph, idx - 1), h) ELSE LoadsAmong(elf.image.ph, idx - 1)
  BY <1>1, <1>3, <1>4, LoadsUnfold
<1>7. Selected(elf.image.ph, idx - 1)
  BY <1>3, <1>4, LoadsSelected
<1>8. LoadsAmong(elf.image.ph, idx - 1) \in Seq(ProgramHeader)
  BY <1>7 DEF Selected
<1>9. Len(plan.segments) = Len(LoadsAmong(elf.image.ph, idx - 1))
  BY <1>2, <1>8, PlanOfLen DEF Walked
<1>10. Len(plan.segments) \in Nat
  BY <1>8, <1>9
<1> QED
  BY <1>1, <1>2, <1>3, <1>4, <1>5, <1>6, <1>8, <1>9, <1>10

(* A turn of the loop goes on to the next header. *)
LEMMA TurnKeeps ==
  ASSUME PlanInv, NEW h, AtHeader(h), idx' = idx + 1, elf_rc' = elf_rc,
         plan'.entry = plan.entry,
         plan'.segments = PlanOf(LoadsAmong(elf.image.ph, idx)),
         Len(LoadsAmong(elf.image.ph, idx)) <= MaxLoadSegments,
         h.load => LoadSegment(h, elf.image.size, elf.region) = "OK"
  PROVE  PlanInv'
<1>1. /\ IsImage(elf.image) /\ elf.region \in Region /\ Len(elf.image.ph) \in Nat
      /\ idx \in 1..Len(elf.image.ph) /\ idx \in Nat /\ h = elf.image.ph[idx]
      /\ Walked(idx - 1) /\ elf' = elf
  BY InTheLoop
<1>2. elf_rc = "running"
  BY DEF AtHeader
<1>3. (idx + 1) - 1 = idx /\ idx + 1 \in 1..(Len(elf.image.ph) + 1)
  BY <1>1
<1>4. \A j \in 1..idx : j = idx \/ j \in 1..(idx - 1)
  BY <1>1
<1>5. \A j \in 1..idx : elf.image.ph[j].load => LoadSegment(elf.image.ph[j], elf.image.size, elf.region) = "OK"
  BY <1>1, <1>4 DEF Walked
<1>6. Walked(idx - 1)'
  BY <1>1, <1>3, <1>5 DEF Walked
<1>7. idx' \in 1..(Len(elf'.image.ph) + 1)
  BY <1>1, <1>3
<1> QED
  BY <1>1, <1>2, <1>6, <1>7 DEF PlanInv

(* A call that rejects a header. *)
LEMMA RejectKeeps ==
  ASSUME PlanInv, NEW h, AtHeader(h), h.load, NEW code, code \notin {"OK", "running"}, Reject(code),
         \/ LoadSegment(h, elf.image.size, elf.region) # "OK"
         \/ Len(LoadsAmong(elf.image.ph, idx)) > MaxLoadSegments
  PROVE  PlanInv'
<1>1. /\ IsImage(elf.image) /\ elf.region \in Region
      /\ idx \in 1..Len(elf.image.ph) /\ h = elf.image.ph[idx] /\ elf' = elf
  BY InTheLoop
<1>2. elf_rc' \notin {"OK", "running"} /\ plan' = ZeroPlan
  BY DEF Reject
<1>3. Refused
  BY <1>1 DEF Refused
<1>4. Refused'
  BY <1>1, <1>3 DEF Refused
<1> QED
  BY <1>1, <1>2, <1>4 DEF PlanInv

(* m11_elf64_plan_load, one turn of its loop or its end. *)
LEMMA LoadStepKeeps == ASSUME PlanInv, LoadStep PROVE PlanInv'
<1>1. ASSUME NEW h, Skip(h) PROVE PlanInv'
  <2>1. AtHeader(h) /\ ~h.load /\ idx' = idx + 1 /\ plan' = plan /\ elf_rc' = elf_rc
    BY <1>1 DEF Skip
  <2>2. LoadsAmong(elf.image.ph, idx) = LoadsAmong(elf.image.ph, idx - 1) /\ Walked(idx - 1)
    BY <2>1, InTheLoop
  <2>3. /\ plan.segments = PlanOf(LoadsAmong(elf.image.ph, idx))
        /\ Len(LoadsAmong(elf.image.ph, idx)) <= MaxLoadSegments
    BY <2>2 DEF Walked
  <2> QED
    BY <2>1, <2>3, TurnKeeps
<1>2. ASSUME NEW h, TooManySegments(h) PROVE PlanInv'
  <2>1. AtHeader(h) /\ h.load /\ Len(plan.segments) >= MaxLoadSegments /\ Reject("SEGCOUNT")
    BY <1>2 DEF TooManySegments
  <2>2. /\ LoadsAmong(elf.image.ph, idx) = Append(LoadsAmong(elf.image.ph, idx - 1), h)
        /\ LoadsAmong(elf.image.ph, idx - 1) \in Seq(ProgramHeader) /\ h \in ProgramHeader
        /\ Len(plan.segments) = Len(LoadsAmong(elf.image.ph, idx - 1)) /\ Len(plan.segments) \in Nat
    BY <2>1, InTheLoop
  <2>3. Len(LoadsAmong(elf.image.ph, idx)) = Len(plan.segments) + 1
    BY <2>2, AppendProperties
  <2>4. Len(LoadsAmong(elf.image.ph, idx)) > MaxLoadSegments
    BY <2>1, <2>2, <2>3, ElfAssumption
  <2>5. "SEGCOUNT" \notin {"OK", "running"}
    OBVIOUS
  <2> QED
    BY <2>1, <2>4, <2>5, RejectKeeps
<1>3. ASSUME NEW h, RejectSegment(h) PROVE PlanInv'
  <2> DEFINE code == LoadSegment(h, elf.image.size, elf.region)
  <2>1. AtHeader(h) /\ h.load /\ code # "OK" /\ Reject(code)
    BY <1>3 DEF RejectSegment
  <2>2. h \in ProgramHeader /\ elf.region \in Region /\ elf.image.size \in Word
    BY <2>1, InTheLoop DEF IsImage
  <2>3. code # "running"
    BY <2>2, SegmentExact
  <2>4. code \notin {"OK", "running"}
    BY <2>1, <2>3
  <2> QED
    BY <2>1, <2>4, RejectKeeps
<1>4. ASSUME NEW h, AddSegment(h) PROVE PlanInv'
  <2>1. /\ AtHeader(h) /\ h.load /\ Len(plan.segments) < MaxLoadSegments
        /\ LoadSegment(h, elf.image.size, elf.region) = "OK"
        /\ idx' = idx + 1 /\ elf_rc' = elf_rc
        /\ plan' = [plan EXCEPT !.segments = Append(@, SegmentOf(h))]
    BY <1>4 DEF AddSegment
  <2>2. /\ LoadsAmong(elf.image.ph, idx) = Append(LoadsAmong(elf.image.ph, idx - 1), h)
        /\ LoadsAmong(elf.image.ph, idx - 1) \in Seq(ProgramHeader) /\ h \in ProgramHeader
        /\ Len(plan.segments) = Len(LoadsAmong(elf.image.ph, idx - 1)) /\ Len(plan.segments) \in Nat
        /\ Walked(idx - 1)
    BY <2>1, InTheLoop
  <2>3. Len(LoadsAmong(elf.image.ph, idx)) <= MaxLoadSegments
    <3>1. Len(LoadsAmong(elf.image.ph, idx)) = Len(plan.segments) + 1
      BY <2>2, AppendProperties
    <3> QED
      BY <2>1, <2>2, <3>1, ElfAssumption
  <2>4. plan.segments = PlanOf(LoadsAmong(elf.image.ph, idx - 1))
    BY <2>2 DEF Walked
  <2>5. PlanOf(LoadsAmong(elf.image.ph, idx)) = Append(plan.segments, SegmentOf(h))
    BY <2>2, <2>4, PlanOfAppend
  <2>6. plan'.entry = plan.entry /\ plan'.segments = Append(plan.segments, SegmentOf(h))
    BY <2>1
  <2> QED
    BY <2>1, <2>3, <2>5, <2>6, TurnKeeps
<1>5. CASE EndLoad
  <2>1. /\ elf_rc = "running" /\ idx > Len(elf.image.ph) /\ elf' = elf /\ plan' = plan
        /\ elf_rc' = IF plan.segments = <<>> THEN "SEGCOUNT" ELSE "OK"
    BY <1>5 DEF EndLoad
  <2>2. /\ IsImage(elf.image) /\ elf.region \in Region
        /\ idx \in 1..(Len(elf.image.ph) + 1) /\ Walked(idx - 1)
    BY <2>1 DEF PlanInv
  <2>3. elf.image.ph \in Seq(ProgramHeader) /\ Len(elf.image.ph) \in Nat
    BY <2>2 DEF IsImage
  <2>4. idx - 1 = Len(elf.image.ph)
    BY <2>1, <2>2, <2>3
  <2>5. Walked(Len(elf.image.ph))
    BY <2>2, <2>4
  <2>6. Walked(Len(elf.image.ph))'
    BY <2>1, <2>5 DEF Walked
  <2> QED
    BY <2>1, <2>2, <2>6 DEF PlanInv
<1> QED
  BY <1>1, <1>2, <1>3, <1>4, <1>5 DEF LoadStep

(* Every step of the kernel keeps it. *)
LEMMA StepPlanInv == PlanInv /\ [KernelNext]_kernelvars => PlanInv'
<1> SUFFICES ASSUME PlanInv, [KernelNext]_kernelvars PROVE PlanInv'
  OBVIOUS
<1>1. ASSUME UNCHANGED loadvars PROVE PlanInv'
  BY <1>1, PlanInvStill
<1>2. ASSUME NEW c \in Image, SmokeTest(c) PROVE PlanInv'
  BY <1>2, StartKeeps, KernelAssumption DEF SmokeTest
<1>3. CASE Loading
  BY <1>3, LoadStepKeeps DEF Loading
<1>4. CASE SmokeTestReturns
  BY <1>4 DEF SmokeTestReturns, PlanInv
<1>5. ASSUME NEW t \in Threads, MakeThread(t) PROVE PlanInv'
  BY <1>1, <1>5 DEF MakeThread
<1>6. CASE RegisterOps
  BY <1>1, <1>6 DEF RegisterOps
<1>7. CASE Scheduling
  BY <1>1, <1>7 DEF Scheduling, loadvars
<1>8. CASE SystemCall
  BY <1>1, <1>8 DEF SystemCall, loadvars
<1>9. CASE Reconfigure
  BY <1>1, <1>9 DEF Reconfigure, loadvars
<1>10. CASE UNCHANGED kernelvars
  BY <1>1, <1>10 DEF kernelvars
<1> QED
  BY <1>2, <1>3, <1>4, <1>5, <1>6, <1>7, <1>8, <1>9, <1>10 DEF KernelNext

(* m11_elf64_plan_load accepts exactly the good images, plans every        *)
(* PT_LOAD header in order and leaves no segment behind when it rejects,   *)
(* for words of every size, images with any number of headers, any bound   *)
(* on the segments and any region.                                         *)
THEOREM LoaderExact == KernelSpec => []PlanExact
<1>1. KernelInit => PlanInv
  BY DEF KernelInit, LoadInit, PlanInv
<1> QED
  BY <1>1, StepPlanInv, PlanInvExact, PTL DEF KernelSpec
=============================================================================
