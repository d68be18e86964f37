--------------------------- MODULE RingArithmetic ---------------------------
(***************************************************************************)
(* Positions of a ring of N slots.  The devices' rings advance an index i  *)
(* to (i + 1) % BUFFER_SIZE; the invariants speak of positions up to two   *)
(* rounds ahead of a slot.                                                 *)
(***************************************************************************)
EXTENDS Integers, TLAPS

\* x % N for the positions the invariants speak of.
Wrap(x, N) == IF x < N THEN x ELSE IF x < 2 * N THEN x - N ELSE 0

\* A position at most two rounds ahead is reduced by subtracting rounds.
LEMMA ModWrap ==
  ASSUME NEW N \in Nat \ {0}, NEW x \in 0 .. 2 * N
  PROVE  x % N = Wrap(x, N)
<1>1. CASE x \in 0 .. N - 1
  BY <1>1 DEF Wrap
<1>2. CASE x \in N .. 2 * N - 1
  BY <1>2 DEF Wrap
<1>3. CASE x = 2 * N
  BY <1>3 DEF Wrap
<1>4. QED
  BY <1>1, <1>2, <1>3

\* Reducing a position gives a slot; reducing a slot changes nothing.
LEMMA PositionInRing ==
  ASSUME NEW N \in Nat \ {0}, NEW x \in Nat
  PROVE  x % N \in 0 .. N - 1 /\ (x < N => x % N = x)
  OBVIOUS

\* Two positions less than a round apart are different slots.
LEMMA PositionsDiffer ==
  ASSUME NEW N \in Nat \ {0}, NEW a \in Nat, NEW b \in Nat,
         a < b, b - a < N, b < 2 * N
  PROVE  a % N # b % N
<1>1. a \in 0 .. 2 * N /\ b \in 0 .. 2 * N
  OBVIOUS
<1>2. a % N = Wrap(a, N) /\ b % N = Wrap(b, N)
  BY <1>1, ModWrap
<1>3. Wrap(a, N) # Wrap(b, N)
  BY <1>1 DEF Wrap
<1>4. QED
  BY <1>2, <1>3

\* The slot after a position's slot is the next position's slot.
LEMMA NextPosition ==
  ASSUME NEW N \in Nat \ {0}, NEW x \in 0 .. 2 * N - 1
  PROVE  ((x % N) + 1) % N = (x + 1) % N
<1>1. x \in 0 .. 2 * N /\ x + 1 \in 0 .. 2 * N
  OBVIOUS
<1>2. Wrap(x, N) + 1 \in 0 .. 2 * N
  BY <1>1 DEF Wrap
<1>3. /\ x % N = Wrap(x, N) /\ (x + 1) % N = Wrap(x + 1, N)
      /\ (Wrap(x, N) + 1) % N = Wrap(Wrap(x, N) + 1, N)
  BY <1>1, <1>2, ModWrap
<1>4. Wrap(Wrap(x, N) + 1, N) = Wrap(x + 1, N)
  BY <1>1 DEF Wrap
<1>5. QED
  BY <1>3, <1>4

\* Advancing an index moves every position by one.
LEMMA ShiftedPosition ==
  ASSUME NEW N \in Nat \ {0}, NEW f \in 0 .. N - 1, NEW k \in 0 .. N
  PROVE  (((f + 1) % N) + k) % N = (f + 1 + k) % N
<1>1. f + 1 \in 0 .. 2 * N /\ f + 1 + k \in 0 .. 2 * N
  OBVIOUS
<1>2. (f + 1) % N = Wrap(f + 1, N)
  BY <1>1, ModWrap
<1>3. Wrap(f + 1, N) + k \in 0 .. 2 * N
  BY <1>1 DEF Wrap
<1>4. /\ (Wrap(f + 1, N) + k) % N = Wrap(Wrap(f + 1, N) + k, N)
      /\ (f + 1 + k) % N = Wrap(f + 1 + k, N)
  BY <1>1, <1>3, ModWrap
<1>5. Wrap(Wrap(f + 1, N) + k, N) = Wrap(f + 1 + k, N)
  BY <1>1 DEF Wrap
<1>6. QED
  BY <1>2, <1>4, <1>5
=============================================================================
