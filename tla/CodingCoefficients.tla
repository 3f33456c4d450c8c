-------------------------- MODULE CodingCoefficients --------------------------
(***************************************************************************)
(* The generator of coding coefficients (swif_coding_coefficients.c) and   *)
(* the calls that reach it: the one of the encoder, the one of the decoder *)
(* for the repair packet the encoder's side sent, and a direct call.       *)
(*                                                                         *)
(* A repair packet does not carry coefficients, but what both ends need to *)
(* draw the same ones: a key, a density and the size of the window.        *)
(***************************************************************************)
EXTENDS TinyMt32, GF256

CONSTANTS
  Keys,           (* Keys passed to the encoder: numbers of 32 bits.       *)
  Densities,      (* Densities passed to the encoder, and to direct calls  *)
  BadDensity,     (* also this one, which the generator refuses.           *)
  MaxWindow,      (* The size of the tables of coefficients.               *)
  Windows,        (* The sizes of windows to draw coefficients for.        *)
  NssBits,        (* The bits for the window size in a packet: 12.         *)
  MaxDraws,       (* A bound on the words drawn in a call.                 *)
  NULL            (* No packet.                                            *)

ASSUME DensitiesAssumption ==
  Densities \subseteq 0 .. 15 /\ BadDensity \in Nat /\ BadDensity > 15
ASSUME MaxWindowAssumption == MaxWindow \in Nat \ {0} /\ Windows \subseteq 0 .. MaxWindow
ASSUME NssBitsAssumption == NssBits \in 1 .. 12
ASSUME KeysAssumption == Keys \subseteq Nat
ASSUME MaxDrawsAssumption == MaxDraws \in Nat

VARIABLES
  cc_tab,         (* The table of each caller.                             *)
  call,           (* The arguments of the call under way, and its table.   *)
  pc,             (* "idle", or what the generator draws next.             *)
  draws,          (* Its PRNG (s): the number of words drawn from the key. *)
  entry,          (* The entry it fills in (i).                            *)
  packet,         (* The repair packet sent last.                          *)
  received        (* Has the decoder drawn the coefficients of it?         *)

vars == <<cc_tab, call, pc, draws, entry, packet, received>>

Callers == {"encoder", "decoder", "application"}
Entries == 0 .. MaxWindow - 1
Sizes == 0 .. MaxWindow

Calls == [caller : Callers, repair_key : 0 .. 2^16 - 1, cc_nb : Sizes,
          dt : Densities \union {BadDensity}, m : {1, 2, 8}]

IdleCall == [caller |-> "application", repair_key |-> 0, cc_nb |-> 0,
             dt |-> BadDensity, m |-> 8]

Seeds == {idx % 2^16 : idx \in Keys}

(* The words drawn from each key, and the low bits of the n-th one.        *)
Words ==
  [key \in Seeds |->
     [n \in 1 .. MaxDraws |-> tinymt32_generate_uint32(ToWord(key, 16), n)]]

tinymt32_rand16(n) == Words[call.repair_key][n] \intersect Positions(4)
tinymt32_rand256(n) == Words[call.repair_key][n] \intersect Positions(8)

(* A new table; the application draws into one that it drops afterwards.   *)
NoCoefficients == [k \in Entries |-> Zero]

Init ==
  /\ cc_tab = [c \in Callers |-> NoCoefficients]
  /\ call = IdleCall /\ pc = "idle" /\ draws = 0 /\ entry = 0
  /\ packet = NULL /\ received = FALSE

-------------------------------------------------------------------------------
(* What the generator draws first for an entry: one bit in GF(2), a value  *)
(* of the field at full density, and otherwise whether it is zero.         *)
FirstDraw(c) == IF c.m = 1 THEN "bit" ELSE IF c.dt = 15 THEN "value" ELSE "density"

(* swif_rlc_generate_coding_coefficients: a bad density or a bad field is  *)
(* refused; a table of ones needs no draw.                                 *)
Generate(c) ==
  /\ pc = "idle"
  /\ IF c.dt > 15 \/ c.m \notin {1, 8}
     THEN UNCHANGED <<cc_tab, call, pc, draws, entry>>
     ELSE IF c.m = 1 /\ c.dt = 15
     THEN /\ cc_tab' = [cc_tab EXCEPT ![c.caller] =
                [k \in Entries |-> IF k < c.cc_nb THEN One ELSE @[k]]]
          /\ call' = c /\ pc' = "bit" /\ entry' = c.cc_nb
          /\ UNCHANGED draws
     ELSE /\ call' = c
          /\ pc' = FirstDraw(c)
          /\ draws' = 0
          /\ entry' = 0
          /\ UNCHANGED cc_tab

(* (uint16_t)key.                                                          *)
RepairKey(idx) == idx % 2^16

(* swif_rlc_encoder_generate_coding_coefs, for a window of nss symbols.    *)
EncoderGenerate(idx, dt, nss) ==
  /\ Generate([caller |-> "encoder", repair_key |-> RepairKey(idx),
               cc_nb |-> nss, dt |-> dt, m |-> 8])
  /\ packet' = [repair_key |-> idx % 2^16,
                dt_nss |-> dt * 2^NssBits + (nss % 2^NssBits)]
  /\ received' = FALSE

(* Mutant: the density is read in three bits.                              *)
DensityCut(p) == (p.dt_nss \div 2^NssBits) % 8

(* The density and the size of the window in a packet.                     *)
Density(p) == p.dt_nss \div 2^NssBits
Nss(p) == p.dt_nss % 2^NssBits

(* swif_rlc_decoder_generate_coding_coefs, once the symbols of the window  *)
(* are listed.                                                             *)
DecoderGenerate ==
  /\ packet # NULL
  /\ Generate([caller |-> "decoder", repair_key |-> packet.repair_key,
               cc_nb |-> Nss(packet), dt |-> Density(packet), m |-> 8])
  /\ received' = TRUE
  /\ UNCHANGED packet

(* A direct call of the generator.                                         *)
ApplicationGenerate(key, nb, dt, m) ==
  /\ Generate([caller |-> "application", repair_key |-> key,
               cc_nb |-> nb, dt |-> dt, m |-> m])
  /\ UNCHANGED <<packet, received>>

-------------------------------------------------------------------------------
Fill(value) == cc_tab' = [cc_tab EXCEPT ![call.caller][entry] = value]

(* Mutant: one turn too many.                                              *)
WindowPassed == entry <= call.cc_nb

(* The condition of the loops over the table.                              *)
InWindow == entry < call.cc_nb

(* Mutant: the PRNG is initialised again for each draw.                    *)
FirstWordAgain == draws' = 1

(* Every draw moves the generator on.                                     *)
Advance == draws < MaxDraws /\ draws' = draws + 1

DrawBit ==
  /\ pc = "bit" /\ InWindow
  /\ Advance
  /\ Fill(IF ToNumber(tinymt32_rand16(draws')) <= call.dt THEN One ELSE Zero)
  /\ entry' = entry + 1
  /\ UNCHANGED <<call, pc>>

DrawDensity ==
  /\ pc = "density" /\ InWindow
  /\ Advance
  /\ IF ToNumber(tinymt32_rand16(draws')) <= call.dt
     THEN pc' = "value" /\ UNCHANGED <<cc_tab, entry>>
     ELSE Fill(Zero) /\ entry' = entry + 1 /\ UNCHANGED pc
  /\ UNCHANGED call

(* Mutant: a zero is kept.                                                 *)
AnyValue(value) == TRUE

(* The condition of the inner loop.                                        *)
Kept(value) == value # Zero

DrawValue ==
  /\ pc = "value" /\ InWindow
  /\ Advance
  /\ LET value == tinymt32_rand256(draws')
     IN  /\ Fill(value)
         /\ IF Kept(value)
            THEN entry' = entry + 1 /\ pc' = FirstDraw(call)
            ELSE UNCHANGED <<entry, pc>>
  /\ UNCHANGED call

Return ==
  /\ pc # "idle" /\ ~(entry < call.cc_nb)
  /\ pc' = "idle" /\ call' = IdleCall /\ draws' = 0 /\ entry' = 0
  /\ cc_tab' = [cc_tab EXCEPT !["application"] = NoCoefficients]

Draw == (DrawBit \/ DrawDensity \/ DrawValue \/ Return) /\ UNCHANGED <<packet, received>>

Next ==
  \/ \E idx \in Keys, dt \in Densities, nss \in Windows : EncoderGenerate(idx, dt, nss)
  \/ DecoderGenerate
  \/ \E key \in Seeds, nb \in Windows,
        dt \in Densities \union {BadDensity}, m \in {1, 2, 8} :
       ApplicationGenerate(key, nb, dt, m)
  \/ Draw

(* The generator runs in the thread of its caller.                         *)
Spec == Init /\ [][Next]_vars /\ WF_vars(Draw)

-------------------------------------------------------------------------------
TypeOK ==
  /\ cc_tab \in [Callers -> [Entries -> Bytes]]
  /\ call \in Calls
  /\ pc \in {"idle", "bit", "density", "value"}
  /\ draws \in 0 .. MaxDraws
  /\ entry \in 0 .. call.cc_nb
  /\ packet \in [repair_key : 0 .. 2^16 - 1, dt_nss : 0 .. 2^16 - 1] \union {NULL}
  /\ received \in BOOLEAN

(***************************************************************************)
(* The decoder draws the coefficients the encoder used, from what a packet *)
(* tells of them: whatever the key was cut to, and for the symbols the     *)
(* packet announces when the size of the window was cut too.               *)
(***************************************************************************)
EndsAgree ==
  received /\ pc = "idle" =>
    \A k \in 0 .. Nss(packet) - 1 : cc_tab["decoder"][k] = cc_tab["encoder"][k]

(***************************************************************************)
(* "With value 15, all coefficients are guaranteed to be non zero"         *)
(* (swif_coding_coefficients.c:26-28): at full density the elimination can *)
(* divide by every coefficient with the table of inverses.                 *)
(***************************************************************************)
FullDensityInvertible ==
  pc # "idle" /\ call.dt = 15 =>
    \A k \in 0 .. entry - 1 :
      LET coef == cc_tab[call.caller][k]
      IN  gf256_div(gf256_mul(coef, {0, 6}), coef) = {0, 6}

(* A call ends, although a zero is drawn again as often as it comes.       *)
CallsEnd == pc # "idle" ~> pc = "idle"
===============================================================================
