----------------------------- MODULE ElfLoader -----------------------------
(***************************************************************************)
(* m11_elf64_plan_load of kernel/user/m11_elf_loader.c: an ELF image is    *)
(* checked against a user region and turned into a plan, one program       *)
(* header at a time.  An image is the fields that the loader reads; the    *)
(* identification and type fields are right or wrong.                      *)
(***************************************************************************)
EXTENDS MachineWord, Sequences

CONSTANTS EhdrSize,         \* sizeof(struct m11_elf64_ehdr)
          PhdrSize,         \* sizeof(struct m11_elf64_phdr)
          MaxLoadSegments,  \* M11_MAX_LOAD_SEGMENTS
          Aligns            \* the powers of two that are words

ASSUME ElfAssumption ==
  /\ EhdrSize \in Word /\ PhdrSize \in Word
  /\ MaxLoadSegments \in Nat
  /\ Aligns \subseteq Word \ {0}

(* struct m11_elf64_phdr; a flag that is none of R, W, X is "other". *)
Flag == {"R", "W", "X", "other"}
ProgramHeader == [load : BOOLEAN, flags : SUBSET Flag, offset : Word, vaddr : Word,
                  filesz : Word, memsz : Word, align : Word]

(* What m11_validate_ident and the three checks after it look at, in order. *)
HeaderField == <<"MAGIC", "CLASS", "ENDIAN", "VERSION", "TYPE", "MACHINE", "EHSIZE">>

(* struct m11_elf64_ehdr and the table it points to; wrong is the set of   *)
(* the fields above, and PHENTSIZE, that do not have the wanted value.     *)
IsImage(img) == /\ img.size \in Word /\ img.phoff \in Word /\ img.entry \in Word
                /\ img.wrong \subseteq {HeaderField[k] : k \in DOMAIN HeaderField} \cup {"PHENTSIZE"}
                /\ img.ph \in Seq(ProgramHeader)
                /\ PhdrSize * Len(img.ph) \in Word

-----------------------------------------------------------------------------
(* m11_add_overflow_u64 *)
Overflows(a, b) == Plus(a, b) < a

(* Mutant: the sum is compared without a look at the overflow. *)
ValidateUserRangeMutant(r, base, size) ==
  /\ r.base < r.limit /\ size # 0
  /\ r.base <= base /\ Plus(base, size) <= r.limit

(* m11_validate_user_range returns M11_OK. *)
ValidateUserRange(r, base, size) ==
  /\ r.base < r.limit
  /\ size # 0
  /\ ~Overflows(base, size)
  /\ r.base <= base /\ Plus(base, size) <= r.limit /\ base < Plus(base, size)

(* The code of the first check that failed; a check is a pair of its       *)
(* failure and its code.                                                   *)
Verdict(checks) ==
  LET failed == {k \in DOMAIN checks : checks[k][1]}
  IN  IF failed = {} THEN "OK" ELSE checks[CHOOSE k \in failed : \A j \in failed : k <= j][2]

(* [off, off + len) does not fit in the image. *)
BeyondImage(off, len, size) == Overflows(off, len) \/ Plus(off, len) > size \/ off > size

(* m11_validate_phdr_bounds; the product of two 16-bit numbers does not wrap. *)
PhdrChecks(img) ==
  << <<img.ph = <<>>, "PHBOUNDS">>,
     <<"PHENTSIZE" \in img.wrong, "PHENTSIZE">>,
     <<BeyondImage(img.phoff, PhdrSize * Len(img.ph), img.size), "PHBOUNDS">> >>

(* m11_validate_load_segment *)
LoadSegment(h, size, r) ==
  Verdict(<< <<"other" \in h.flags, "FLAGS">>,
             <<{"W", "X"} \subseteq h.flags, "FLAGS">>,
             <<h.memsz < h.filesz, "SEGBOUNDS">>,
             <<h.align > 1 /\ h.align \notin Aligns, "ALIGN">>,
             <<h.align > 1 /\ h.vaddr % h.align # h.offset % h.align, "ALIGN">>,
             <<BeyondImage(h.offset, h.filesz, size), "SEGBOUNDS">>,
             <<~ValidateUserRange(r, h.vaddr, h.memsz), "SEGRANGE">> >>)

(* The checks before the loop. *)
HeaderVerdict(img, r) ==
  Verdict(<< <<img.size < EhdrSize, "SIZE">> >>
            \o [k \in DOMAIN HeaderField |-> <<HeaderField[k] \in img.wrong, HeaderField[k]>>]
            \o PhdrChecks(img)
            \o << <<~ValidateUserRange(r, img.entry, 1), "ENTRY">> >>)

-----------------------------------------------------------------------------
VARIABLES elf,       \* the image and the region of the call
          plan,      \* *out_plan
          idx,       \* the header the loop is at
          elf_rc     \* "none", "running", or what the call returned

loadvars == <<elf, plan, idx, elf_rc>>

(* struct m11_segment_plan and struct m11_process_image_plan *)
SegmentOf(h) == [offset |-> h.offset, vaddr |-> h.vaddr, filesz |-> h.filesz,
                 memsz |-> h.memsz, align |-> h.align, flags |-> h.flags]
ZeroPlan == [entry |-> 0, segments |-> <<>>]
NoImage == [image |-> [size |-> 0, wrong |-> {}, phoff |-> 0, entry |-> 0, ph |-> <<>>],
            region |-> [base |-> 0, limit |-> 0]]

(* No call yet. *)
LoadInit == elf = NoImage /\ plan = ZeroPlan /\ idx = 0 /\ elf_rc = "none"

(* m11_elf64_plan_load up to its loop. *)
PlanLoad(img, r) ==
  /\ elf_rc = "none"
  /\ elf' = [image |-> img, region |-> r]
  /\ idx' = 1
  /\ IF HeaderVerdict(img, r) = "OK"
       THEN elf_rc' = "running" /\ plan' = [entry |-> img.entry, segments |-> <<>>]
       ELSE elf_rc' = HeaderVerdict(img, r) /\ plan' = ZeroPlan

(* One iteration of the loop for header h, the current one. *)
AtHeader(h) == /\ elf_rc = "running"
               /\ idx <= Len(elf.image.ph)
               /\ h = elf.image.ph[idx]
               /\ UNCHANGED elf

Skip(h) == /\ AtHeader(h)
           /\ ~h.load
           /\ idx' = idx + 1
           /\ UNCHANGED <<plan, elf_rc>>

(* The plan is thrown away and the call returns code. *)
Reject(code) == elf_rc' = code /\ plan' = ZeroPlan /\ UNCHANGED idx

TooManySegments(h) == /\ AtHeader(h)
                      /\ h.load
                      /\ Len(plan.segments) >= MaxLoadSegments
                      /\ Reject("SEGCOUNT")

(* Mutant: the segments planned so far stay in the plan. *)
RejectSegmentMutant(h) == /\ AtHeader(h)
                          /\ h.load
                          /\ Len(plan.segments) < MaxLoadSegments
                          /\ LoadSegment(h, elf.image.size, elf.region) # "OK"
                          /\ elf_rc' = LoadSegment(h, elf.image.size, elf.region)
                          /\ UNCHANGED <<plan, idx>>

RejectSegment(h) == /\ AtHeader(h)
                    /\ h.load
                    /\ Len(plan.segments) < MaxLoadSegments
                    /\ LoadSegment(h, elf.image.size, elf.region) # "OK"
                    /\ Reject(LoadSegment(h, elf.image.size, elf.region))

AddSegment(h) == /\ AtHeader(h)
                 /\ h.load
                 /\ Len(plan.segments) < MaxLoadSegments
                 /\ LoadSegment(h, elf.image.size, elf.region) = "OK"
                 /\ plan' = [plan EXCEPT !.segments = Append(@, SegmentOf(h))]
                 /\ idx' = idx + 1
                 /\ UNCHANGED elf_rc

(* After the loop; a plan without a segment keeps its entry. *)
EndLoad == /\ elf_rc = "running"
           /\ idx > Len(elf.image.ph)
           /\ elf_rc' = IF plan.segments = <<>> THEN "SEGCOUNT" ELSE "OK"
           /\ UNCHANGED <<elf, plan, idx>>

LoadStep == \/ \E h \in {elf.image.ph[k] : k \in DOMAIN elf.image.ph} :
                 Skip(h) \/ TooManySegments(h) \/ RejectSegment(h) \/ AddSegment(h)
            \/ EndLoad

-----------------------------------------------------------------------------
(* Properties. *)

(* The PT_LOAD headers among the first n of the table ph, in order. *)
LoadsAmong(ph, n) ==
  LET loads[k \in 0..Len(ph)] == IF k = 0 THEN <<>>
                                 ELSE IF ph[k].load THEN Append(loads[k - 1], ph[k])
                                 ELSE loads[k - 1]
  IN  loads[n]

Loads == LoadsAmong(elf.image.ph, Len(elf.image.ph))

(* What an acceptable segment and image are, with numbers that do not wrap. *)
GoodSegment(h) ==
  /\ "other" \notin h.flags /\ ~{"W", "X"} \subseteq h.flags
  /\ h.align \in {0, 1} \/ \E k, l \in 0..WordCount : /\ h.align \in Aligns
                                                      /\ h.vaddr + k * h.align = h.offset + l * h.align
  /\ h.filesz <= h.memsz
  /\ h.offset + h.filesz <= elf.image.size
  /\ h.memsz # 0
  /\ elf.region.base <= h.vaddr /\ h.vaddr + h.memsz <= elf.region.limit

GoodImage ==
  /\ elf.image.size >= EhdrSize
  /\ elf.image.wrong = {}
  /\ elf.image.phoff + PhdrSize * Len(elf.image.ph) <= elf.image.size
  /\ elf.image.entry \in Inside(elf.region)
  /\ Len(Loads) \in 1..MaxLoadSegments
  /\ \A k \in DOMAIN Loads : GoodSegment(Loads[k])

(* The loader accepts exactly the good images, its plan then has every     *)
(* PT_LOAD header in order and nothing else, and a call that returns an    *)
(* error leaves no segment in the caller's plan, whichever header failed.  *)
PlanExact ==
  /\ elf_rc = "OK" => /\ plan.entry = elf.image.entry
                      /\ plan.segments = [k \in DOMAIN Loads |-> SegmentOf(Loads[k])]
  /\ elf_rc \notin {"none", "running"} => /\ elf_rc = "OK" <=> GoodImage
                                          /\ elf_rc # "OK" => plan.segments = <<>>

(* "Entry point harus berada pada segment executable yang valid": the      *)
(* entry point lies in an executable segment.                              *)
EntryExecutable ==
  elf_rc = "OK" => \E k \in DOMAIN plan.segments :
                     /\ "X" \in plan.segments[k].flags
                     /\ plan.segments[k].vaddr <= plan.entry
                     /\ plan.entry < plan.segments[k].vaddr + plan.segments[k].memsz
=============================================================================
