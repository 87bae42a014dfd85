---------------------------- MODULE MachineWord ----------------------------
(***************************************************************************)
(* Unsigned 64-bit arithmetic as the crate uses it.  WordMax stands for    *)
(* u64::MAX; TLC runs use a smaller word so that the boundary is reached.  *)
(* The names are those of Rust's integer methods.                          *)
(***************************************************************************)
EXTENDS Integers

CONSTANT WordMax

ASSUME WordMaxAssumption == WordMax \in Nat \ {0}

U64 == 0 .. WordMax

\* The result None of a checked operation.
Overflow == -1

checked_add(a, b) == IF a + b \in U64 THEN a + b ELSE Overflow

checked_sub(a, b) == IF a - b \in U64 THEN a - b ELSE Overflow

checked_mul(a, b) == IF a * b \in U64 THEN a * b ELSE Overflow

saturating_mul(a, b) == IF a * b \in U64 THEN a * b ELSE WordMax

\* The + of a build without overflow checks.
wrapping_add(a, b) == (a + b) % (WordMax + 1)

u64_min(a, b) == IF a <= b THEN a ELSE b
=============================================================================
