------------------------------- MODULE Kernel -------------------------------
(***************************************************************************)
(* kernel_main of kernel/kernel.c: the ELF loader is tried on an image,    *)
(* the threads are made, the callbacks of the system calls registered, and *)
(* from then on threads schedule and call.  The image, the number of       *)
(* threads and the calls are arbitrary.                                    *)
(***************************************************************************)
EXTENDS Syscall, ElfLoader

CONSTANTS Image,      \* pairs of an image and a region that plan_load is tried on
          UserRegion, \* regions for the system calls
          OpsGiven,   \* sets of callbacks that are registered later
          Addr, Length \* arguments of system calls

ASSUME KernelAssumption ==
  /\ \A c \in Image : IsImage(c.image) /\ c.region \in Region
  /\ UserRegion \subseteq Region
  /\ Addr \subseteq Word /\ Length \subseteq Word

VARIABLE phase   \* "elf", "threads" or "run"

kernelvars == <<vars, sysvars, loadvars, phase>>

KernelInit == Init /\ SyscallZero /\ LoadInit /\ phase = "elf"

(* m11_kernel_smoke_test_elf_loader *)
SmokeTest(c) == /\ phase = "elf"
                /\ PlanLoad(c.image, c.region)
                /\ UNCHANGED <<vars, sysvars, phase>>
Loading == /\ phase = "elf"
           /\ LoadStep
           /\ UNCHANGED <<vars, sysvars, phase>>

(* Its plan is a local variable and is gone when it returns. *)
SmokeTestReturns == /\ phase = "elf"
                    /\ elf_rc \notin {"none", "running"}
                    /\ phase' = "threads"
                    /\ elf' = NoImage /\ plan' = ZeroPlan /\ idx' = 0 /\ elf_rc' = "none"
                    /\ UNCHANGED <<vars, sysvars>>

(* The threads are prepared and enqueued. *)
MakeThread(t) == /\ phase = "threads"
                 /\ Prepare(t) \/ Enqueue(t)
                 /\ UNCHANGED <<sysvars, loadvars, phase>>

RegisterOps == /\ phase = "threads"
               /\ SyscallInit(Op)
               /\ phase' = "run"
               /\ UNCHANGED loadvars

(* A call of the scheduler that is no system call. *)
Scheduling == /\ phase = "run"
              /\ Next
              /\ call' = NoCall
              /\ UNCHANGED <<ops, user_region, loadvars, phase>>

Switching == /\ phase = "run"
             /\ \/ (Yield \/ BlockCurrent) /\ call' = NoCall /\ UNCHANGED <<ops, user_region>>
                \/ ops["yield_current"] # "null" /\ SysYield
             /\ UNCHANGED <<loadvars, phase>>

(* mcsos_syscall_dispatch by the thread that runs; only write_serial looks *)
(* at its arguments.  CopyFromUser is for handlers to come.                *)
Args(nr) == IF nr = 2 THEN Addr \X Length ELSE {<<0, 0>>}
SystemCall == /\ phase = "run" /\ Executing
              /\ \/ \E nr \in 0..SysMax : \E arg \in Args(nr) : Dispatch(nr, arg[1], arg[2])
                 \/ \E a \in Addr, l \in Length : CopyFromUser(a, l)
              /\ UNCHANGED <<loadvars, phase>>

Reconfigure == /\ phase = "run" /\ Executing
               /\ \/ \E r \in UserRegion : SetUserRegion(r)
                  \/ \E given \in OpsGiven : SyscallInit(given)
               /\ UNCHANGED <<loadvars, phase>>

KernelNext == \/ \E c \in Image : SmokeTest(c)
              \/ Loading \/ SmokeTestReturns
              \/ \E t \in Threads : MakeThread(t)
              \/ RegisterOps \/ Scheduling \/ SystemCall \/ Reconfigure

KernelSpec == KernelInit /\ [][KernelNext]_kernelvars

(* kernel_main goes on to its end.  Scheduling is cooperative: whoever     *)
(* runs yields or blocks again, by a call of the scheduler or by a system  *)
(* call that is connected to it.                                           *)
FairKernelSpec == KernelSpec /\ WF_kernelvars(RegisterOps) /\ WF_kernelvars(Switching)

-----------------------------------------------------------------------------
(* The two range checks fit together: a program that the loader accepted   *)
(* for a region may pass any part of any of its segments to a system call  *)
(* under that region, all of it lies inside the region, and each of its    *)
(* bytes with contents comes from the image.                               *)
ImageUsable ==
  elf_rc = "OK" /\ elf.region.base # 0 =>
    \A n \in DOMAIN plan.segments :
      LET s == plan.segments[n] IN
      /\ \A first \in 0..(s.memsz - 1), count \in 1..s.memsz :
           first + count <= s.memsz => CheckRange(elf.region, Plus(s.vaddr, first), count)
      /\ Bytes(s.vaddr, s.memsz) \subseteq Inside(elf.region)
      /\ \A k \in 0..(s.filesz - 1) : k < s.memsz /\ Plus(s.offset, k) < elf.image.size
=============================================================================
