------------------------------- MODULE Memlib -------------------------------
(***************************************************************************)
(* memlib.c: the simulated memory an allocator of the malloc lab works in. *)
(*                                                                         *)
(* mem_init takes one area of MAX_HEAP bytes from libc; mem_sbrk moves a   *)
(* break through it.  An area of that size is fresh from the kernel, so    *)
(* its words start as 0; mem_reset_brk takes the break back and leaves the *)
(* words as they are.  The lab is built with -m32: a word has 4 bytes, and *)
(* addresses are computed modulo the size of the address space, which is   *)
(* the parameter Span here.                                                *)
(*                                                                         *)
(* A heap is a record: mem holds the words of the area by address, mem_brk *)
(* the break, free_listp the list head of mm.c, and ret the value the last *)
(* call returned.                                                          *)
(***************************************************************************)
EXTENDS Integers

CONSTANTS
    MAX_HEAP,       \* config.h: bytes of the area
    mem_start_brk,  \* the first byte of the area, as libc's malloc placed it
    Span            \* the number of addresses, and of values of a word

ASSUME AreaAssumption ==
    /\ MAX_HEAP \in Nat /\ MAX_HEAP % 8 = 0
    /\ mem_start_brk \in Nat \ {0} /\ mem_start_brk % 8 = 0
    /\ Span \in Nat /\ Span % 8 = 0 /\ mem_start_brk + MAX_HEAP < Span

WSIZE == 4
NULL == 0
Failed == -1

mem_max_addr == mem_start_brk + MAX_HEAP

Storage == {mem_start_brk + WSIZE * k : k \in 0 .. (MAX_HEAP \div WSIZE) - 1}

mem_init ==
    [mem |-> [a \in Storage |-> 0], mem_brk |-> mem_start_brk,
     free_listp |-> NULL, ret |-> NULL]

mem_reset_brk(h) == [h EXCEPT !.mem_brk = mem_start_brk]

mem_heap_lo == mem_start_brk
mem_heap_hi(h) == h.mem_brk - 1

(* Mutant: the limit is not tested. *)
Mutmem_sbrk(h, incr) ==
    [h EXCEPT !.mem_brk = @ + incr, !.ret = h.mem_brk]

(* Out of memory is the value (void * )-1, never NULL. *)
mem_sbrk(h, incr) ==
    IF incr < 0 \/ h.mem_brk + incr > mem_max_addr
    THEN [h EXCEPT !.ret = Failed]
    ELSE [h EXCEPT !.mem_brk = @ + incr, !.ret = h.mem_brk]

(* A word outside the area is some other memory of the process: read as 0, *)
(* written without effect on the heap.                                     *)
GET(h, a) == IF a \in Storage THEN h.mem[a] ELSE 0

PUT(h, a, v) == IF a \in Storage THEN [h EXCEPT !.mem[a] = v % Span] ELSE h
=============================================================================
