------------------------------ MODULE RlcEncoder ------------------------------
(***************************************************************************)
(* The RLC encoder (swif_encoder_rlc_cb_t, encoder half of swif_rlc_api.c):*)
(* the coding window is a ring of pointers to source symbols, next to a    *)
(* table of coding coefficients, from which repair symbols are built.      *)
(*                                                                         *)
(* A source symbol is its identifier (its payload is the unit vector of    *)
(* it), and a repair symbol is the vector of the combination it carries.   *)
(*                                                                         *)
(* swif_rlc_encoder_reset_coding_window, _remove_source_symbol_from_..,    *)
(* _set_parameters and _get_parameters return SWIF_STATUS_OK without       *)
(* touching the control block, so they have no action.                     *)
(***************************************************************************)
EXTENDS GaloisField, Sequences, FiniteSetsExt

CONSTANTS
  max_coding_window_size,
  EsiSpan,                 (* The number of values of an esi_t: 2^32.      *)
  NULL                     (* A slot that was never written; no report.    *)

ASSUME WindowSizeAssumption == max_coding_window_size \in Nat \ {0}
ASSUME EsiSpanAssumption == EsiSpan \in Nat /\ MaxId < EsiSpan
ASSUME NullAssumption == NULL \notin Ids

INVALID_ESI == EsiSpan - 1

VARIABLES
  ew_tab, ew_left, ew_right, ew_esi_right, ew_ss_nb, cc_tab,
  registered,  (* source_symbol_removed_from_coding_window_callback # NULL *)
  removed,     (* The identifier last passed to that callback.             *)
  new_buf      (* The repair symbol built last.                            *)

ring == <<ew_tab, ew_left, ew_right, ew_esi_right, ew_ss_nb>>
vars == <<ring, cc_tab, registered, removed, new_buf>>

Slots == 0 .. max_coding_window_size - 1

(* Mutant: the index runs past the end of the table.                       *)
AdvanceUnbounded(k) == k + 1

(* The slot after k.                                                       *)
Advance(k) == (k + 1) % max_coding_window_size

-------------------------------------------------------------------------------
(* swif_rlc_encoder_create.                                                *)
Init ==
  /\ ew_tab = [k \in Slots |-> NULL]
  /\ ew_left = 0 /\ ew_right = 0
  /\ ew_esi_right = INVALID_ESI
  /\ ew_ss_nb = 0
  /\ cc_tab = [k \in Slots |-> Zero]
  /\ registered = FALSE
  /\ removed = NULL
  /\ new_buf = ZeroVector

(* swif_rlc_encoder_set_callback_functions, with or without a callback.    *)
SetCallbackFunctions(on) ==
  /\ registered' = on
  /\ UNCHANGED <<ring, cc_tab, removed, new_buf>>

(***************************************************************************)
(* swif_rlc_encoder_add_source_symbol_to_coding_window, its three cases;   *)
(* an identifier that does not follow the last one is refused with         *)
(* SWIF_STATUS_ERROR, which changes nothing.                               *)
(***************************************************************************)
Expected(esi) ==
  ew_esi_right # INVALID_ESI => esi = (ew_esi_right + 1) % EsiSpan

(* Mutant: the symbol before the oldest one is reported.                   *)
EsiBeforeLeft == (ew_esi_right - ew_ss_nb) % EsiSpan

(* The identifier reported as removed, computed from the newest one.       *)
EsiLeft == (ew_esi_right + 1 - ew_ss_nb) % EsiSpan

(* Mutant: the left end stays where it was.                                *)
SlideRightOnly(esi) ==
  /\ ew_ss_nb = max_coding_window_size
  /\ Expected(esi)
  /\ removed' = IF registered THEN EsiLeft ELSE removed
  /\ ew_tab' = [ew_tab EXCEPT ![ew_left] = esi]
  /\ ew_right' = ew_left
  /\ ew_esi_right' = esi
  /\ UNCHANGED <<ew_left, ew_ss_nb, cc_tab, registered, new_buf>>

(* The window is full: the oldest symbol is replaced.                      *)
SlideWindow(esi) ==
  /\ ew_ss_nb = max_coding_window_size
  /\ Expected(esi)
  /\ removed' = IF registered THEN EsiLeft ELSE removed
  /\ ew_tab' = [ew_tab EXCEPT ![ew_left] = esi]
  /\ ew_right' = ew_left
  /\ ew_left' = Advance(ew_left)
  /\ ew_esi_right' = esi
  /\ UNCHANGED <<ew_ss_nb, cc_tab, registered, new_buf>>

(* The window is empty.                                                    *)
AddFirst(esi) ==
  /\ ew_ss_nb # max_coding_window_size /\ ew_ss_nb = 0
  /\ Expected(esi)
  /\ ew_tab' = [ew_tab EXCEPT ![ew_right] = esi]
  /\ ew_esi_right' = esi
  /\ ew_ss_nb' = ew_ss_nb + 1
  /\ UNCHANGED <<ew_left, ew_right, cc_tab, registered, removed, new_buf>>

(* The window has room.                                                    *)
AddNext(esi) ==
  /\ ew_ss_nb # max_coding_window_size /\ ew_ss_nb # 0
  /\ Expected(esi)
  /\ ew_right' = Advance(ew_right)
  /\ ew_tab' = [ew_tab EXCEPT ![ew_right'] = esi]
  /\ ew_esi_right' = esi
  /\ ew_ss_nb' = ew_ss_nb + 1
  /\ UNCHANGED <<ew_left, cc_tab, registered, removed, new_buf>>

(***************************************************************************)
(* swif_rlc_encoder_set_coding_coefs_tab: nb_coefs_in_tab is asserted to   *)
(* be at most the size of the window.                                      *)
(***************************************************************************)
SetCodingCoefsTab(coding_coefs_tab, nb_coefs_in_tab) ==
  /\ cc_tab' = [k \in Slots |->
                  IF k < nb_coefs_in_tab THEN coding_coefs_tab[k] ELSE cc_tab[k]]
  /\ UNCHANGED <<ring, registered, removed, new_buf>>

(***************************************************************************)
(* swif_rlc_encoder_generate_coding_coefs: one coefficient for each symbol *)
(* in the window, drawn by the PRNG: never zero at full density (dt = 15), *)
(* anything below it.  (A larger dt is refused by the generator, the       *)
(* refusal is not looked at, and the table stays as it is.)                *)
(***************************************************************************)
GenerateCodingCoefs(cc, full_density) ==
  /\ full_density => \A k \in Slots : k < ew_ss_nb => cc[k] # Zero
  /\ cc_tab' = [k \in Slots |-> IF k < ew_ss_nb THEN cc[k] ELSE cc_tab[k]]
  /\ UNCHANGED <<ring, registered, removed, new_buf>>

(* Mutant: the last turn of the loop is missed.                            *)
RepairIndicesShort == ew_left .. ew_ss_nb - 2

(* The indices of the loop of build_repair.                                *)
RepairIndices == ew_left .. ew_ss_nb - 1

(***************************************************************************)
(* The turns of a loop that adds to a buffer, for each index, a symbol     *)
(* times its coefficient.                                                  *)
(***************************************************************************)
AddCombination(buf, coefs, symbols, indices) ==
  FoldSet(LAMBDA k, sum : symbol_add_scaled(sum, coefs[k], UnitVector(symbols[k])),
          buf, indices)

(* That loop: what it reads, at an index reduced to a slot.                *)
RepairLoop(buf) ==
  AddCombination(buf,
                 [k \in RepairIndices |-> cc_tab[k % max_coding_window_size]],
                 [k \in RepairIndices |-> ew_tab[k % max_coding_window_size]],
                 RepairIndices)

(* Mutant: a buffer handed in by the application is not cleared.           *)
BuildOnTop ==
  /\ new_buf' = RepairLoop(new_buf)
  /\ UNCHANGED <<ring, cc_tab, registered, removed>>

(* swif_rlc_build_repair_symbol, into a buffer cleared first.              *)
BuildRepairSymbol ==
  /\ new_buf' = RepairLoop(ZeroVector)
  /\ UNCHANGED <<ring, cc_tab, registered, removed>>

Next ==
  \/ \E on \in BOOLEAN : SetCallbackFunctions(on)
  \/ \E esi \in Ids : SlideWindow(esi) \/ AddFirst(esi) \/ AddNext(esi)
  \/ \E nb \in 0 .. max_coding_window_size :
       \E tab \in [0 .. nb - 1 -> F] : SetCodingCoefsTab(tab, nb)
  \/ \E cc \in [Slots -> F], full \in BOOLEAN : GenerateCodingCoefs(cc, full)
  \/ BuildRepairSymbol

Spec == Init /\ [][Next]_vars

-------------------------------------------------------------------------------
(* Mutant: the interval is one too long.                                   *)
CodingWindowInformationLong ==
  [first |-> (ew_esi_right - ew_ss_nb) % EsiSpan,
   last  |-> ew_esi_right,
   nss   |-> ew_ss_nb]

(* swif_rlc_encoder_get_coding_window_information: what it returns.        *)
CodingWindowInformation ==
  [first |-> (ew_esi_right - ew_ss_nb + 1) % EsiSpan,
   last  |-> ew_esi_right,
   nss   |-> ew_ss_nb]

(* The symbols in the window, the oldest first, as the ring stores them.   *)
Window ==
  [n \in 1 .. ew_ss_nb |-> ew_tab[(ew_left + n - 1) % max_coding_window_size]]

RingTypeOK ==
  /\ ew_tab \in [Slots -> Ids \union {NULL}]
  /\ ew_left \in Slots /\ ew_right \in Slots
  /\ ew_esi_right \in Ids \union {INVALID_ESI}
  /\ ew_ss_nb \in 0 .. max_coding_window_size
  /\ cc_tab \in [Slots -> F]
  /\ registered \in BOOLEAN
  /\ removed \in Ids \union {NULL}

TypeOK == RingTypeOK /\ new_buf \in Vector

(***************************************************************************)
(* The ring, read from ew_left, holds exactly the ew_ss_nb identifiers     *)
(* that end in ew_esi_right, in order, whatever number of times it went    *)
(* round, and ew_right is the slot of the newest.                          *)
(***************************************************************************)
WindowContents ==
  ew_ss_nb > 0 =>
    /\ ew_tab[ew_right] = ew_esi_right
    /\ \A n \in 1 .. ew_ss_nb : Window[n] = ew_esi_right - ew_ss_nb + n

(***************************************************************************)
(* What get_coding_window_information tells, and the server writes in the  *)
(* header of a repair packet, are the two ends of the ring.                *)
(***************************************************************************)
InformationIsWindow ==
  ew_ss_nb > 0 =>
    /\ CodingWindowInformation.first = Window[1]
    /\ CodingWindowInformation.last = Window[ew_ss_nb]

(* A repair symbol never involves a symbol that is not in the window:      *)
(* nothing is left of an earlier repair symbol or of a removed symbol.     *)
RepairWithinWindow ==
  [][BuildRepairSymbol =>
       \A c \in Ids : new_buf'[c] # Zero => \E n \in 1 .. ew_ss_nb : Window[n] = c]_vars

(* The combination of the window: its n-th symbol with the n-th            *)
(* coefficient.                                                            *)
CombinationOfWindow ==
  AddCombination(ZeroVector, [n \in 1 .. ew_ss_nb |-> cc_tab[n - 1]], Window,
                 1 .. ew_ss_nb)

(* Until the window slides, a repair symbol is that combination.           *)
RepairUntilSlide ==
  [][BuildRepairSymbol /\ ew_left = 0 => new_buf' = CombinationOfWindow]_vars

(***************************************************************************)
(* "an encoding window slides progressively over the packet flow, the      *)
(* encoder computes a linear combination of packets in this encoding       *)
(* window" (README.md:66), with coefficients "associated to each of the    *)
(* source symbols currently in the encoding window" (swif_api.h:627-628):  *)
(* whatever the position of the window, a repair symbol is the combination *)
(* of all of it.                                                           *)
(***************************************************************************)
RepairIsCombination ==
  [][BuildRepairSymbol => new_buf' = CombinationOfWindow]_vars

(* The ring implements the sliding window of module CodingWindow.          *)
W == INSTANCE CodingWindow WITH window <- Window, NONE <- NULL

ImplementsCodingWindow == W!Spec

-------------------------------------------------------------------------------
(***************************************************************************)
(* The inductive invariant, for identifiers that stop short of             *)
(* INVALID_ESI: the ring only starts to turn when it is full.              *)
(***************************************************************************)
NoWrap == MaxId < INVALID_ESI

RingShape ==
  /\ ew_ss_nb = 0 => ew_left = 0 /\ ew_right = 0 /\ ew_esi_right = INVALID_ESI
  /\ ew_ss_nb > 0 => ew_esi_right \in Ids /\ ew_esi_right + 1 >= ew_ss_nb
  /\ ew_ss_nb < max_coding_window_size => ew_left = 0
  /\ ew_ss_nb > 0 => ew_right = (ew_left + ew_ss_nb - 1) % max_coding_window_size

IInv == RingTypeOK /\ RingShape /\ WindowContents
===============================================================================
