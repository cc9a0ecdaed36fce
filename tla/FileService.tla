---------------------------- MODULE FileService ----------------------------
(***************************************************************************)
(* What the VFS promises its processes: files are byte sequences of their  *)
(* own, a descriptor is a position in one of them, and nothing but a write *)
(* through a descriptor of a file changes it.  Nothing is promised of the  *)
(* bytes that are read behind the end of a file, or that lie between the   *)
(* end and a write behind it.                                              *)
(***************************************************************************)
EXTENDS Naturals, Sequences

CONSTANTS Proc,    \* processes
          Fd,      \* descriptors of a process
          Byte,
          Buffers,   \* byte sequences that are written
          MaxLen,    \* bound on the lengths of reads
          SizeT,     \* positions wrap at this number
          Positions, \* positions that are sought
          AsInt(_),  \* a position as the caller gets it
          Closed     \* a descriptor that is not in use

VARIABLES files,   \* the contents of each file
          fds,     \* of each process and descriptor: file and position
          answer   \* what the last call returned

vars == <<files, fds, answer>>

(* The answers of the calls. *)
Ok(n) == [rc |-> "OK", n |-> n]
Got(s) == [rc |-> "OK", n |-> Len(s), bytes |-> s]
Err(e) == [rc |-> e]

Init == /\ files = << <<>> >>
        /\ fds = [p \in Proc |-> [d \in Fd |-> Closed]]
        /\ answer = Ok(0)

(* s with w written over it at position n. *)
Overwrite(s, n, w) ==
  [i \in 1..(IF n + Len(w) > Len(s) THEN n + Len(w) ELSE Len(s)) |->
     IF i \in (n + 1)..(n + Len(w)) THEN w[i - n] ELSE s[i]]

(* What a read of up to n bytes at position k of s yields. *)
Taken(s, k, n) == SubSeq(s, k + 1, IF k + n < Len(s) THEN k + n ELSE Len(s))

(* The lowest descriptor is taken. *)
Open(p, d, f) == /\ fds[p][d] = Closed
                 /\ \A e \in Fd : fds[p][e] = Closed => d <= e
                 /\ fds' = [fds EXCEPT ![p][d] = [file |-> f, pos |-> 0]]
                 /\ answer' = Ok(d)

OpenOld(p, d) == /\ \E f \in DOMAIN files : Open(p, d, f)
                 /\ UNCHANGED files

OpenNew(p, d) == /\ Open(p, d, Len(files) + 1)
                 /\ files' = Append(files, <<>>)

Seed(w) == /\ files' = Append(files, w)
           /\ answer' = Ok(0)
           /\ UNCHANGED fds

Read(p, d, n) ==
  /\ fds[p][d] # Closed
  /\ fds[p][d].pos <= Len(files[fds[p][d].file])
  /\ LET got == Taken(files[fds[p][d].file], fds[p][d].pos, n)
     IN  /\ answer' = Got(got)
         /\ fds' = [fds EXCEPT ![p][d].pos = @ + Len(got)]
  /\ UNCHANGED files

(* Behind the end of the file. *)
ReadBehind(p, d, n) ==
  /\ fds[p][d] # Closed
  /\ fds[p][d].pos > Len(files[fds[p][d].file])
  /\ \E m \in 0..n : /\ \E got \in [1..m -> Byte] : answer' = Got(got)
                     /\ fds' = [fds EXCEPT ![p][d].pos = (@ + m) % SizeT]
  /\ UNCHANGED files

(* Bytes that make s reach up to position n. *)
Gaps(s, n) == [1..(IF n > Len(s) THEN n - Len(s) ELSE 0) -> Byte]

Write(p, d, w) ==
  /\ fds[p][d] # Closed
  /\ answer' = Ok(Len(w))
  /\ fds' = [fds EXCEPT ![p][d].pos = @ + Len(w)]
  /\ \E gap \in Gaps(files[fds[p][d].file], fds[p][d].pos) :
       files' = [files EXCEPT ![fds[p][d].file] = Overwrite(@ \o gap, fds[p][d].pos, w)]

Seek(p, d, n) == /\ fds[p][d] # Closed
                 /\ fds' = [fds EXCEPT ![p][d].pos = n]
                 /\ answer' = Ok(AsInt(n))
                 /\ UNCHANGED files

Tell(p, d) == /\ fds[p][d] # Closed
              /\ answer' = Ok(AsInt(fds[p][d].pos))
              /\ UNCHANGED <<files, fds>>

Close(p, d) == /\ fds[p][d] # Closed
               /\ fds' = [fds EXCEPT ![p][d] = Closed]
               /\ answer' = Ok(0)
               /\ UNCHANGED files

(* A new process in the place of p. *)
Restart(p) == /\ fds' = [fds EXCEPT ![p] = [d \in Fd |-> Closed]]
              /\ answer' = Ok(0)
              /\ UNCHANGED files

Refuse == /\ \E e \in {"EINVAL", "ENFILE", "ENOENT", "ENOSPC", "EBADF"} : answer' = Err(e)
          /\ UNCHANGED <<files, fds>>

Next == \/ \E p \in Proc : Restart(p)
        \/ \E p \in Proc, d \in Fd : \/ OpenOld(p, d) \/ OpenNew(p, d) \/ Close(p, d) \/ Tell(p, d)
                                     \/ \E n \in 0..MaxLen : Read(p, d, n) \/ ReadBehind(p, d, n)
                                     \/ \E n \in Positions : Seek(p, d, n)
                                     \/ \E w \in Buffers : Write(p, d, w)
        \/ \E w \in Buffers : Seed(w)
        \/ Refuse

Spec == Init /\ [][Next]_vars
=============================================================================
