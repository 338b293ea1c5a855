----------------------------- MODULE UserMemory -----------------------------
(***************************************************************************)
(* A process whose system calls make the kernel read and write its memory: *)
(* one call on any page table, with the answers of UserAccess, or sys_exec *)
(* (os/src/syscall/process.rs, TaskControlBlock::exec in os/src/task/      *)
(* task.rs) with the arguments on the stack of the new program and _start  *)
(* (user/src/lib.rs), which reads them from there.                         *)
(*                                                                         *)
(* The call, and what the program has in memory, are inputs that Init      *)
(* chooses.  A char above 127 takes two bytes in a String; the bytes from  *)
(* BYTE / 2 up stand for these.                                            *)
(***************************************************************************)
EXTENDS UserAccess, TLC

CONSTANTS
  Tables,       \* the page tables of the calling process
  Pointers, Lengths, Types,   \* what it passes
  Nuls,         \* where a string may end
  MAX_STR_LEN, MAX_ARGV,
  ArgLists,     \* the argument lists it passes to exec
  Bases,        \* where it keeps them
  Strays,       \* pointers to them that are not
  NewTable, STACK_TOP, USER_STACK_SIZE   \* from_elf's address space

VARIABLES
  table, mem,   \* the address space of the process
  pc,           \* "ready", "answered", "started", "running" or "panicked"
  call          \* the call made: its arguments and what came of it

vars == <<table, mem, pc, call>>

(* As many bytes of memory as there are addresses, with no NUL in them.    *)
Size == VA_SIZE
Filler == [b \in 0 .. Size - 1 |-> 1 + (b % (BYTE - 1))]

Requests ==
  [op : {"buffer"}, ptr : Pointers, len : Lengths, write : BOOLEAN]
    \cup [op : {"ref"}, ptr : Pointers, type : Types, write : BOOLEAN]
    \cup [op : {"str"}, ptr : Pointers, nul : Nuls]
    \cup [op : {"copy_from", "copy_to"}, ptr : Pointers, len : Lengths]
    \cup [op : {"exec"}, base : Bases, args : ArgLists, argv : Strays, exists : BOOLEAN]
    \cup {[op |-> "exec", base |-> base, args |-> args, argv |-> base, exists |-> exists] :
             base \in Bases, args \in ArgLists, exists \in BOOLEAN}

Init ==
  /\ table \in Tables
  /\ mem = Filler
  /\ pc = "ready"
  /\ call \in Requests

Mapped(a) == floor(a) \in DOMAIN table
Place(pt, a) == Byte(pt[floor(a)].ppn, page_offset(a))

Asked(op) == pc = "ready" /\ call.op = op
Answer(answer) == pc' = "answered" /\ call' = call @@ [answer |-> answer]

-----------------------------------------------------------------------------
(* A system call that reads or writes a buffer.                            *)
Buffer ==
  /\ Asked("buffer")
  /\ Answer(try_translated_byte_buffer(table, call.ptr, call.len, call.write))
  /\ UNCHANGED <<table, mem>>

(* One that refers to a value in place.                                    *)
Ref ==
  /\ Asked("ref")
  /\ Answer(try_translated_ref(table, call.ptr, call.type, call.write))
  /\ UNCHANGED <<table, mem>>

(* One that takes a string, which ends at nul.                             *)
Str ==
  /\ Asked("str") /\ Mapped(call.nul)
  /\ mem' = [mem EXCEPT ![Place(table, call.nul)] = 0]
  /\ Answer(try_translated_str(table, mem', call.ptr, MAX_STR_LEN))
  /\ UNCHANGED table

(* One that copies a value in.                                             *)
CopyFrom ==
  /\ Asked("copy_from")
  /\ Answer(copy_from_user(table, mem, call.ptr, call.len))
  /\ UNCHANGED <<table, mem>>

(* One that copies a value out.                                            *)
Value(n) == [i \in 1 .. n |-> i - 1]

CopyTo ==
  LET written == copy_to_user(table, mem, call.ptr, Value(call.len))
      ok == "some" \in DOMAIN written
  IN  /\ Asked("copy_to")
      /\ mem' = IF ok THEN written.some ELSE mem
      /\ Answer(IF ok THEN Some(call.len) ELSE written)
      /\ UNCHANGED table

-----------------------------------------------------------------------------
(***************************************************************************)
(* exec.  A program keeps its arguments at base: the pointers, a zero, and *)
(* the strings one after the other, each with its NUL.                     *)
(***************************************************************************)
Before(args, i) == FoldLeft(LAMBDA n, s : n + Len(s) + 1, 0, SubSeq(args, 1, i - 1))
StringAt(base, args, i) == base + (Len(args) + 1) * WORD + Before(args, i)

Block(base, args) ==
  FlattenSeq([i \in DOMAIN args |-> FromWord(StringAt(base, args, i))])
    \o FromWord(0) \o FlattenSeq([i \in DOMAIN args |-> Append(args[i], 0)])

Prepared(base, args) ==
  LET block == Block(base, args)
  IN  [b \in DOMAIN mem |->
         IF \E i \in DOMAIN block : Place(table, base + i - 1) = b
         THEN block[CHOOSE i \in DOMAIN block : Place(table, base + i - 1) = b]
         ELSE mem[b]]

(* char::encode_utf8 of the chars a string was read into.                  *)
Utf8(b) ==
  IF b < BYTE \div 2 THEN <<b>>
  ELSE IF b < 3 * (BYTE \div 4) THEN <<3 * (BYTE \div 4), b>>
  ELSE <<3 * (BYTE \div 4) + 1, b - BYTE \div 4>>
as_bytes(s) == FlattenSeq([i \in DOMAIN s |-> Utf8(s[i])])

(* sys_exec's loop over the pointers: an error, or the arguments.          *)
ReadArgs(m, argv) ==
  LET Walk[n \in 0 .. MAX_ARGV + 1] ==
        LET word == copy_from_user(table, m, (argv + n * WORD) % USIZE, WORD)
            ptr == ToWord(word.some)
        IN  IF "some" \notin DOMAIN word THEN [error |-> -14]
            ELSE IF ptr = 0 THEN [args |-> << >>]
            ELSE IF n >= MAX_ARGV THEN [error |-> -1]
            ELSE LET arg == try_translated_str(table, m, ptr, MAX_STR_LEN)
                     rest == Walk[n + 1]
                 IN  IF arg = NoneOpt THEN [error |-> -14]
                     ELSE IF "error" \in DOMAIN rest THEN rest
                     ELSE [args |-> <<as_bytes(arg.some)>> \o rest.args]
  IN  Walk[0]

(* Writing the bytes of a value through references to the new space.       *)
WordType == [size |-> WORD, align |-> WORD]
ByteType == [size |-> 1, align |-> 1]

Slot(argv_base, i) == try_translated_ref(NewTable, argv_base + i * WORD, WordType, TRUE)

StoreAt(m, place, bytes) ==
  [b \in DOMAIN m |-> IF b \in place .. place + Len(bytes) - 1
                      THEN bytes[b - place + 1] ELSE m[b]]


(* What a string takes on the stack.                                       *)
Room(arg) == Len(arg) + 1

(* The body of exec's loop: the i-th string and the pointer to it.         *)
PushString(s, i, arg, argv_base) ==
  LET sp == (s.sp - Room(arg)) % USIZE
      refs == [k \in 1 .. Len(arg) + 1 |->
                 try_translated_ref(NewTable, sp + k - 1, ByteType, TRUE)]
      slot == Slot(argv_base, i - 1)
  IN  IF s.panic \/ \E k \in DOMAIN refs : refs[k] = NoneOpt
      THEN [s EXCEPT !.panic = TRUE]
      ELSE [s EXCEPT !.sp = sp,
              !.mem = FoldLeft(LAMBDA m, k : StoreAt(m, refs[k].some, <<Append(arg, 0)[k]>>),
                               StoreAt(s.mem, slot.some, FromWord(sp)),
                               [k \in 1 .. Len(arg) + 1 |-> k])]

(* TaskControlBlock::exec: what it leaves on the new stack and in the      *)
(* registers of the new trap context.                                      *)
exec(args) ==
  LET argv_base == (STACK_TOP - (Len(args) + 1) * WORD) % USIZE
      unmapped == \E i \in 0 .. Len(args) : Slot(argv_base, i) = NoneOpt
      zeros == [b \in 0 .. Size - 1 |-> 0]
      pushed == FoldLeft(LAMBDA s, i : PushString(s, i, args[i], argv_base),
                  [sp |-> argv_base, panic |-> FALSE,
                   mem |-> StoreAt(zeros, Slot(argv_base, Len(args)).some, FromWord(0))],
                  [i \in DOMAIN args |-> i])
  IN  IF unmapped \/ pushed.panic THEN [panic |-> TRUE]
      ELSE [panic |-> FALSE, mem |-> pushed.mem, argc |-> Len(args), argv |-> argv_base,
            sp |-> (pushed.sp \div WORD) * WORD]

(* sys_exec: the path is the program's first argument; whether there is    *)
(* such a file is an input.                                                *)
sys_exec ==
  LET m == Prepared(call.base, call.args)
      path == try_translated_str(table, m, StringAt(call.base, call.args, 1), MAX_STR_LEN)
      read == ReadArgs(m, call.argv)
      new == exec(read.args)
      Fails(code) == Answer(code) /\ mem' = m /\ UNCHANGED table
  IN  /\ Asked("exec")
      /\ \A i \in DOMAIN Block(call.base, call.args) : Mapped(call.base + i - 1)
      /\ IF path = NoneOpt THEN Fails(-14)
         ELSE IF "error" \in DOMAIN read THEN Fails(read.error)
         ELSE IF ~call.exists THEN Fails(-1)
         ELSE IF new.panic
         THEN /\ pc' = "panicked" /\ mem' = m
              /\ UNCHANGED <<call, table>>
         ELSE /\ pc' = "started"
              /\ call' = call @@ [argc |-> new.argc, argv_base |-> new.argv, sp |-> new.sp]
              /\ table' = NewTable /\ mem' = new.mem

(* _start: the arguments as the new program finds them; every load goes    *)
(* to a page of its own.                                                   *)
Load(a) == mem[Place(table, a)]

_start ==
  LET Pointer(i) == ToWord([k \in 1 .. WORD |-> Load(call.argv_base + (i - 1) * WORD + k - 1)])
      End(a) == CHOOSE n \in 0 .. USER_STACK_SIZE :
                  Load(a + n) = 0 /\ \A k \in 0 .. n - 1 : Load(a + k) # 0
      String(a) == [k \in 1 .. End(a) |-> Load(a + k - 1)]
  IN  /\ pc = "started"
      /\ pc' = "running"
      /\ call' = call @@ [seen |-> [i \in 1 .. call.argc |-> String(Pointer(i))]]
      /\ UNCHANGED <<table, mem>>

Next == Buffer \/ Ref \/ Str \/ CopyFrom \/ CopyTo \/ sys_exec \/ _start

Spec == Init /\ [][Next]_vars

-----------------------------------------------------------------------------
(* What the process itself may do with an address of the user half.        *)
Accessible(a, write) ==
  a < USER_VA_LIMIT /\ floor(a) \in DOMAIN table /\ Permits(table[floor(a)].flags, write)

Span(ptr, len) == ptr .. ptr + len - 1

(* The place of each byte of a range.                                      *)
PlacesOf(ptr, len) == [i \in 1 .. len |-> Place(table, ptr + i - 1)]

(***************************************************************************)
(* The kernel reaches a range of user memory exactly when the process may  *)
(* access each byte of it itself: then the slices, or the reference, are   *)
(* the bytes of the range in order and no others, for any pages behind it; *)
(* otherwise the call is refused.  This includes ranges that overflow,     *)
(* that end at USER_VA_LIMIT, and values that lie across two pages.        *)
(***************************************************************************)
AccessExact ==
  pc = "answered" /\ call.op \in {"buffer", "ref", "copy_from", "copy_to"} =>
    LET len == IF call.op = "ref" THEN call.type.size ELSE call.len
        write == call.op = "copy_to" \/ (call.op # "copy_from" /\ call.write)
        allowed == \A a \in Span(call.ptr, len) : Accessible(a, write)
        places == PlacesOf(call.ptr, len)
        granted == "some" \in DOMAIN call.answer
        inPlace == /\ call.ptr # 0 /\ call.ptr % call.type.align = 0
                   /\ \A i \in DOMAIN places : places[i] = places[1] + i - 1
    IN  /\ call.answer # Panic
        /\ granted <=> /\ allowed
                       /\ call.op = "ref" => inPlace
                       /\ call.op \in {"copy_from", "copy_to"} => len # 0
        /\ granted /\ call.op = "buffer" =>
             /\ Places(call.answer.some) = places
             /\ \A j \in DOMAIN call.answer.some : call.answer.some[j] # << >>
        /\ granted /\ call.op = "ref" => call.answer.some = places[1]
        /\ granted /\ call.op = "copy_from" =>
             call.answer.some = [i \in DOMAIN places |-> mem[places[i]]]

(***************************************************************************)
(* copy_to_user leaves the value in the range, byte for byte, and changes  *)
(* no other byte of any page; if it is refused it changes nothing.         *)
(***************************************************************************)
CopyExact ==
  pc = "answered" /\ call.op = "copy_to" =>
    LET places == PlacesOf(call.ptr, call.len)
    IN  mem = IF "some" \notin DOMAIN call.answer THEN Filler
              ELSE [b \in DOMAIN Filler |->
                      IF Contains(places, b)
                      THEN Value(call.len)[CHOOSE i \in DOMAIN places : places[i] = b]
                      ELSE Filler[b]]

(***************************************************************************)
(* A string is accepted exactly when its NUL comes within MAX_STR_LEN      *)
(* bytes and every byte up to it is readable to the process, whatever the  *)
(* pages behind it are; MAX_STR_LEN bytes must be left in the user half.   *)
(* What is returned is the bytes up to the NUL.                            *)
(***************************************************************************)
StringsExact ==
  pc = "answered" /\ call.op = "str" =>
    LET ptr == call.ptr
        ends == {n \in 0 .. MAX_STR_LEN - 1 :
                   /\ \A a \in ptr .. ptr + n : Accessible(a, FALSE)
                   /\ Load(ptr + n) = 0}
    IN  call.answer = IF ptr = 0 \/ ptr + MAX_STR_LEN > USER_VA_LIMIT \/ ends = {}
                      THEN NoneOpt
                      ELSE Some([i \in 1 .. Min(ends) |-> Load(ptr + i - 1)])


=============================================================================
