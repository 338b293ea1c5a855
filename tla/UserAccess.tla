----------------------------- MODULE UserAccess -----------------------------
(***************************************************************************)
(* How the kernel reaches the memory of a process: the conversions of      *)
(* os/src/mm/address.rs, the checked translations of page_table.rs and the *)
(* copies of user_access.rs, as operators on a page table and the memory.  *)
(*                                                                         *)
(* A page table maps page numbers to [ppn, flags].  A usize is a number    *)
(* below USIZE, a byte one below BYTE, and a word WORD bytes.  Option is   *)
(* [some |-> x] or NoneOpt; Panic is an unwrap of None or a bad index.     *)
(***************************************************************************)
EXTENDS Integers, Sequences, SequencesExt, FiniteSetsExt

CONSTANTS
  PAGE_SIZE,
  VA_SIZE,      \* 2^39
  BYTE, WORD    \* 256 and 8

USIZE == BYTE ^ WORD
USER_VA_LIMIT == VA_SIZE \div 2

ASSUME UserAccessAssumption ==
  /\ PAGE_SIZE \in Nat \ {0} /\ BYTE \in Nat \ {0} /\ WORD \in Nat \ {0}
  /\ VA_SIZE % (2 * PAGE_SIZE) = 0 /\ VA_SIZE < USIZE /\ PAGE_SIZE % WORD = 0

NoneOpt == [none |-> 0]
Panic == [panic |-> 0]
Invalid == [invalid |-> 0]
Some(x) == [some |-> x]

-----------------------------------------------------------------------------
(***************************************************************************)
(* Addresses.  A virtual address keeps the low bits of a usize; back in a  *)
(* usize it is sign extended.                                              *)
(***************************************************************************)
VirtAddr(v) == v % VA_SIZE
ToUsize(va) == IF va >= USER_VA_LIMIT THEN va + (USIZE - VA_SIZE) ELSE va
floor(va) == va \div PAGE_SIZE
page_offset(va) == va % PAGE_SIZE

Overflows(ptr, len) == ptr + len >= USIZE

(* The flags a page must have for the kernel to read or write it.          *)
Permits(flags, write) == "U" \in flags /\ (IF write THEN "W" ELSE "R") \in flags

Byte(ppn, offset) == ppn * PAGE_SIZE + offset

-----------------------------------------------------------------------------
(* Faulty variant: only the first page of the range is looked at.          *)
check_user_range_first(pt, ptr, len, write) ==
  \/ len = 0
  \/ /\ ~Overflows(ptr, len) /\ ptr < USER_VA_LIMIT /\ ptr + len <= USER_VA_LIMIT
     /\ floor(VirtAddr(ptr)) \in DOMAIN pt
     /\ Permits(pt[floor(VirtAddr(ptr))].flags, write)

(* Walks the pages the range [ptr, ptr + len) meets.                       *)
check_user_range(pt, ptr, len, write) ==
  LET end == ptr + len
      Walk[cur \in 0 .. end] ==
        \/ cur >= end
        \/ /\ floor(VirtAddr(cur)) \in DOMAIN pt
           /\ Permits(pt[floor(VirtAddr(cur))].flags, write)
           /\ Walk[Min({(cur \div PAGE_SIZE + 1) * PAGE_SIZE, end})]
  IN  \/ len = 0
      \/ /\ ~Overflows(ptr, len) /\ ptr < USER_VA_LIMIT /\ end <= USER_VA_LIMIT
         /\ Walk[ptr]

(* The bytes of a range, slice by slice, as places of physical memory.     *)
try_translated_byte_buffer(pt, ptr, len, write) ==
  LET end == ptr + len
      Slice(ppn, first, last) == [i \in 1 .. last - first |-> Byte(ppn, first + i - 1)]
      Walk[start \in 0 .. USIZE - 1] ==
        IF start >= end THEN << >>
        ELSE LET start_va == VirtAddr(start)
                 vpn == floor(start_va)
                 end_va == Min({(vpn + 1) * PAGE_SIZE, VirtAddr(end)})
                 last == IF page_offset(end_va) = 0 THEN PAGE_SIZE ELSE page_offset(end_va)
             IN  <<Slice(pt[vpn].ppn, page_offset(start_va), last)>> \o Walk[ToUsize(end_va)]
      Mapped == \A a \in ptr .. end - 1 : floor(VirtAddr(a)) \in DOMAIN pt
  IN  IF ~check_user_range(pt, ptr, len, write) THEN NoneOpt
      ELSE IF ~Mapped THEN Panic  \* translate(vpn).unwrap()
      ELSE Some(Walk[ptr])

(* Faulty variant: the scan takes no notice of the permissions.            *)
Scannable_any(pt, vpn) == vpn \in DOMAIN pt

(* The pages try_translated_str scans.                                     *)
Scannable(pt, vpn) == vpn \in DOMAIN pt /\ Permits(pt[vpn].flags, FALSE)

(* Scans page by page for the NUL and looks at no page behind it.  Every   *)
(* byte becomes a char.                                                    *)
try_translated_str(pt, mem, ptr, max_len) ==
  LET limit == ptr + max_len
      Walk[cur \in 0 .. limit] ==
        IF cur >= limit THEN NoneOpt
        ELSE IF ~Scannable(pt, floor(VirtAddr(cur))) THEN NoneOpt
        ELSE LET offset == cur % PAGE_SIZE
                 chunk == Min({PAGE_SIZE - offset, limit - cur})
                 bytes == [i \in 1 .. chunk |->
                             mem[Byte(pt[floor(VirtAddr(cur))].ppn, offset + i - 1)]]
                 zeros == {i \in 1 .. chunk : bytes[i] = 0}
             IN  IF zeros # {} THEN Some(SubSeq(bytes, 1, Min(zeros) - 1))
                 ELSE LET rest == Walk[cur + chunk]
                      IN  IF rest = NoneOpt THEN NoneOpt ELSE Some(bytes \o rest.some)
  IN  IF ptr = 0 \/ max_len = 0 \/ Overflows(ptr, max_len) \/ limit > USER_VA_LIMIT
      THEN NoneOpt ELSE Walk[ptr]

(* A value must not lie across the end of a page.                          *)
OnePage(addr, size) == addr \div PAGE_SIZE = (addr + size - 1) \div PAGE_SIZE

(* try_translated_ref and, with write, try_translated_refmut: where in     *)
(* physical memory the value begins.                                       *)
try_translated_ref(pt, addr, type, write) ==
  IF \/ type.size = 0 \/ addr = 0 \/ addr % type.align # 0
     \/ Overflows(addr, type.size) \/ addr + type.size > USER_VA_LIMIT
     \/ ~OnePage(addr, type.size)
     \/ ~check_user_range(pt, addr, type.size, write)
  THEN NoneOpt
  ELSE Some(Byte(pt[floor(VirtAddr(addr))].ppn, page_offset(addr)))

-----------------------------------------------------------------------------
(* What UserBuffer's iterator goes through.                                *)
Places(buffers) == FlattenSeq(buffers)

(* A value from and to user memory, with the size the caller's type has.   *)
copy_from_user(pt, mem, src, size) ==
  LET buffers == try_translated_byte_buffer(pt, src, size, FALSE)
  IN  IF size = 0 THEN Invalid
      ELSE IF "some" \notin DOMAIN buffers THEN buffers
      ELSE Some([i \in DOMAIN Places(buffers.some) |-> mem[Places(buffers.some)[i]]])

(* Faulty variant: every slice is filled from the start of the value.      *)
Filled_restart(mem, buffers, value) ==
  [b \in DOMAIN mem |->
     IF \E j \in DOMAIN buffers : Contains(buffers[j], b)
     THEN LET j == CHOOSE j \in DOMAIN buffers : Contains(buffers[j], b)
          IN  value[CHOOSE i \in DOMAIN buffers[j] : buffers[j][i] = b]
     ELSE mem[b]]

(* Memory once the slices hold the value.                                  *)
Filled(mem, buffers, value) ==
  [b \in DOMAIN mem |->
     IF Contains(Places(buffers), b)
     THEN value[CHOOSE i \in DOMAIN Places(buffers) : Places(buffers)[i] = b]
     ELSE mem[b]]

copy_to_user(pt, mem, dst, value) ==
  LET buffers == try_translated_byte_buffer(pt, dst, Len(value), TRUE)
  IN  IF value = << >> THEN Invalid
      ELSE IF "some" \notin DOMAIN buffers THEN buffers
      ELSE Some(Filled(mem, buffers.some, value))

(* A word is its bytes, the lowest first.                                  *)
ToWord(bytes) == FoldRight(LAMBDA b, acc : acc * BYTE + b, bytes, 0)
FromWord(w) == [i \in 1 .. WORD |-> (w \div BYTE ^ (i - 1)) % BYTE]

=============================================================================
