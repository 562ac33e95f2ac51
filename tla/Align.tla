------------------------------- MODULE Align --------------------------------
(***************************************************************************)
(* Addresses and their alignment (allocator.rs).                           *)
(***************************************************************************)
EXTENDS Integers

CONSTANT UsizeMax  \* usize::MAX, that is 2^w - 1 for a width w

ASSUME UsizeAssumption == UsizeMax \in Nat

Modulus == UsizeMax + 1

\* (addr + align - 1) & !(align - 1), for an align that is a power of two.
align_up(addr, align) ==
  LET x == (addr + align - 1) % Modulus IN x - (x % align)

\* addr.checked_add(size) is Some.
Checked_add(addr, size) == addr + size <= UsizeMax

Saturating_add(a, b) == IF a + b > UsizeMax THEN UsizeMax ELSE a + b
=============================================================================
