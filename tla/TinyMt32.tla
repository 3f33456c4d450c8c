------------------------------- MODULE TinyMt32 -------------------------------
(***************************************************************************)
(* The pseudo-random generator TinyMT32 (swif_prng.c): its 127-bit state,  *)
(* four words of which one bit is not used, and the functions on it.       *)
(***************************************************************************)
EXTENDS Word, TLC

Bits32 == Positions(32)
Uint32 == SUBSET Bits32

States == [0 .. 3 -> Uint32]

Status(a, b, c, d) == (0 :> a) @@ (1 :> b) @@ (2 :> c) @@ (3 :> d)

(* A 32-bit constant from its two halves.                                  *)
Halves(high, low) == ShiftLeft(ToWord(high, 16), 16, 32) \union ToWord(low, 16)

(* 0x8f7011ee, 0xfc78ff1f and 0x3793fdff.                                  *)
TINYMT32_MAT1_PARAM == Halves(36720, 4590)
TINYMT32_MAT2_PARAM == Halves(64632, 65311)
TINYMT32_TMAT_PARAM == Halves(14227, 65023)

TINYMT32_MASK == Bits32 \ {31}

(* 1812433253 = 0x6c078965.                                                *)
Multiplier == Halves(27655, 35173)

tinymt32_next_state(st) ==
  LET sum == Xor(Xor(st[0] \intersect TINYMT32_MASK, st[1]), st[2])
      x == Xor(sum, ShiftLeft(sum, 1, 32))
      y == Xor(st[3], Xor(ShiftRight(st[3], 1), x))
      odd == 0 \in y
  IN  Status(st[1],
             Xor(st[2], IF odd THEN TINYMT32_MAT1_PARAM ELSE {}),
             Xor(Xor(x, ShiftLeft(y, 10, 32)),
                 IF odd THEN TINYMT32_MAT2_PARAM ELSE {}),
             y)

(* The k-th turn of the loop that spreads the seed over the state.         *)
MixSeed(st, k) ==
  LET last == st[(k - 1) % 4]
      product == Times(Xor(last, ShiftRight(last, 30)), Multiplier, 32)
  IN  [st EXCEPT ![k % 4] = Xor(@, Plus(ToWord(k, 3), product, 32))]

tinymt32_init(seed) ==
  LET mixed[k \in 0 .. 7] ==
        IF k = 0
        THEN Status(seed, TINYMT32_MAT1_PARAM, TINYMT32_MAT2_PARAM, TINYMT32_TMAT_PARAM)
        ELSE MixSeed(mixed[k - 1], k)
      moved[k \in 0 .. 8] ==
        IF k = 0 THEN mixed[7] ELSE tinymt32_next_state(moved[k - 1])
  IN  moved[8]

tinymt32_temper(st) ==
  LET t1 == Plus(st[0], ShiftRight(st[2], 8), 32)
  IN  Xor(Xor(st[3], t1), IF 0 \in t1 THEN TINYMT32_TMAT_PARAM ELSE {})

(* The n-th word drawn from a seed.                                        *)
tinymt32_generate_uint32(seed, n) ==
  LET state[k \in 0 .. n] ==
        IF k = 0 THEN tinymt32_init(seed) ELSE tinymt32_next_state(state[k - 1])
  IN  tinymt32_temper(state[n])
===============================================================================
