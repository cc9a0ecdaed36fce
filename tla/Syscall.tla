------------------------------ MODULE Syscall ------------------------------
(***************************************************************************)
(* The system calls of kernel/syscall/syscall.c with the callbacks that    *)
(* kernel/kernel.c registers: k_yield_current is mcsos_sched_yield,        *)
(* k_exit_current only logs.  A call runs to completion in the name of the *)
(* current thread.  User memory is its addresses.                          *)
(***************************************************************************)
EXTENDS Scheduler, MachineWord

CONSTANT MaxWrite   \* the longest write_serial, 4096 bytes

ASSUME SyscallAssumption == MaxWrite \in Nat

(* mcsos_syscall_ops_t *)
Op == {"get_ticks", "yield_current", "exit_current", "write_serial"}

VARIABLES ops,          \* g_ops, each "null", "default" or "registered"
          user_region,  \* g_user_region
          call          \* the last call: what it returned and which user bytes it used

sysvars == <<ops, user_region, call>>

NoCall == [fn |-> "none", ret |-> "none", bytes |-> {}]

(* The static data before any call. *)
SyscallZero == /\ ops = [o \in Op |-> "null"]
               /\ user_region = [base |-> 0, limit |-> 0]
               /\ call = NoCall

(* Mutant: write_serial has no default. *)
SyscallInitMutant(given) ==
  /\ ops' = [o \in Op |-> IF o \in given THEN "registered" ELSE "null"]
  /\ call' = NoCall
  /\ UNCHANGED <<vars, user_region>>

(* mcsos_syscall_init with the callbacks given, the others null. *)
SyscallInit(given) ==
  /\ ops' = [o \in Op |-> IF o \in given THEN "registered"
                          ELSE IF o = "write_serial" THEN "default" ELSE "null"]
  /\ call' = NoCall
  /\ UNCHANGED <<vars, user_region>>

(* mcsos_syscall_set_user_region *)
SetUserRegion(r) == /\ user_region' = r
                    /\ call' = NoCall
                    /\ UNCHANGED <<vars, ops>>

-----------------------------------------------------------------------------
(* Mutant: no look at the wrap-around. *)
CheckRangeWraps(r, addr, len) ==
  \/ len = 0
  \/ /\ r.base # 0 /\ r.base < r.limit
     /\ r.base <= addr /\ addr <= r.limit
     /\ Plus(addr, len - 1) < r.limit

(* mcsos_user_check_range; Plus(addr, len - 1) is the last byte. *)
CheckRange(r, addr, len) ==
  \/ len = 0
  \/ /\ r.base # 0 /\ r.base < r.limit
     /\ r.base <= addr /\ addr <= r.limit
     /\ addr <= Plus(addr, len - 1)
     /\ Plus(addr, len - 1) < r.limit

Bytes(addr, len) == {Plus(addr, k) : k \in 0..(len - 1)}

Returns(f, ret) == call' = [fn |-> f, ret |-> ret, bytes |-> {}]

(* mcsos_copy_from_user; the destination is the kernel's and not null. *)
CopyFromUser(src, len) ==
  /\ \/ len = 0 /\ Returns("copy_from_user", "OK")
     \/ len # 0 /\ src = 0 /\ Returns("copy_from_user", "EINVAL")
     \/ /\ len # 0 /\ src # 0 /\ ~CheckRange(user_region, src, len)
        /\ Returns("copy_from_user", "EFAULT")
     \/ /\ len # 0 /\ src # 0 /\ CheckRange(user_region, src, len)
        /\ call' = [fn |-> "copy_from_user", ret |-> "OK", bytes |-> Bytes(src, len)]
  /\ UNCHANGED <<vars, ops, user_region>>

(* sys_ping *)
Ping == Returns("ping", "PING") /\ UNCHANGED <<vars, ops, user_region>>

(* sys_get_ticks *)
GetTicks == /\ Returns("get_ticks", IF ops["get_ticks"] = "null" THEN "EBUSY" ELSE "ticks")
            /\ UNCHANGED <<vars, ops, user_region>>

(* sys_write_serial, which calls its callback without a look whether there *)
(* is one.                                                                 *)
WriteSerial(ptr, len) ==
  /\ \/ /\ ptr = 0 \/ len > MaxWrite
        /\ Returns("write_serial", "EINVAL")
     \/ /\ ptr # 0 /\ len <= MaxWrite /\ ~CheckRange(user_region, ptr, len)
        /\ Returns("write_serial", "EFAULT")
     \/ /\ ptr # 0 /\ len <= MaxWrite /\ CheckRange(user_region, ptr, len)
        /\ call' = [fn |-> "write_serial",
                    ret |-> IF ops["write_serial"] = "null" THEN "null called" ELSE "length",
                    bytes |-> Bytes(ptr, len)]
  /\ UNCHANGED <<vars, ops, user_region>>

(* sys_yield, which does not pass on what mcsos_sched_yield returns. *)
SysYield == \/ /\ ops["yield_current"] = "null"
               /\ Returns("yield", "EBUSY")
               /\ UNCHANGED <<vars, ops, user_region>>
            \/ /\ ops["yield_current"] # "null"
               /\ Yield
               /\ Returns("yield", "OK")
               /\ UNCHANGED <<ops, user_region>>

(* sys_exit_thread: the thread that called it goes on. *)
ExitThread == /\ Returns("exit_thread", IF ops["exit_current"] = "null" THEN "EBUSY" ELSE "OK")
              /\ UNCHANGED <<vars, ops, user_region>>

(* mcsos_syscall_dispatch: g_table, and ENOSYS for a number outside it. *)
SysMax == 5
Dispatch(nr, arg0, arg1) ==
  \/ nr = 0 /\ Ping
  \/ nr = 1 /\ GetTicks
  \/ nr = 2 /\ WriteSerial(arg0, arg1)
  \/ nr = 3 /\ SysYield
  \/ nr = 4 /\ ExitThread
  \/ nr >= SysMax /\ Returns("unknown", "ENOSYS") /\ UNCHANGED <<vars, ops, user_region>>

-----------------------------------------------------------------------------
(* Properties. *)

(* Whatever address and length a caller gives, each byte that a system     *)
(* call passes to its callback or copies lies in the user region in force: *)
(* no sum that wraps, no range that ends behind the limit and no region    *)
(* that was never set gets through.                                        *)
UserBytesOnly == call.bytes \subseteq Inside(user_region)

(* No call goes through a null callback, whichever callbacks were          *)
(* registered and how often: write_serial, the one that is called without  *)
(* a check, always has its default.                                        *)
NoNullCall == call.ret # "null called"
=============================================================================
