------------------------------ MODULE RlcDecoder ------------------------------
(***************************************************************************)
(* The RLC decoder (swif_decoder_rlc_cb_t, decoder half of swif_rlc_api.c):*)
(* the coding window the application prepares for a repair symbol, the     *)
(* coefficients generated for it, and the linear system to which received  *)
(* symbols are submitted (module FullSymbolSet).                           *)
(*                                                                         *)
(* The window is only a first identifier and a count: the symbol built for *)
(* the system covers the nb_id identifiers from first_id on.               *)
(*                                                                         *)
(* swif_rlc_decoder_set_coding_coefs_tab, _remove_source_symbol_from_..,   *)
(* _set_parameters and _get_parameters return SWIF_STATUS_OK without       *)
(* touching the control block, so they have no action.  A callback is      *)
(* registered (swif_rlc_decoder_set_callback_functions) before any symbol  *)
(* is submitted.                                                           *)
(***************************************************************************)
EXTENDS FullSymbol

CONSTANTS
  FULL_SYMBOL_SET_INITIAL_SIZE,
  NULL,
  max_coding_window_size,
  symbol_size,               (* In bytes.                                  *)
  MaxListed                  (* Bound on nb_id, which has none in the code.*)

ASSUME DecoderAssumption ==
  /\ max_coding_window_size \in Nat \ {0}
  /\ symbol_size \in Nat \ {0}
  /\ MaxListed \in Nat

(* What the linear system assumes of its own.                              *)
ASSUME SystemAssumption ==
  /\ FULL_SYMBOL_SET_INITIAL_SIZE \in Nat \ {0}
  /\ NULL \notin FullSymbols

VARIABLES
  size, first_symbol_id, full_symbol_tab,
  pc, new_symbol1, new_symbol, i, is_zero,
  notified, lent, known, dropped,
  first_id, nb_id,
  coef_tab,       (* NULL, or the coefficients; its domain is its capacity.*)
  fault,          (* Whether an assertion failed or the memory is corrupt. *)
  listed          (* History: identifiers listed since the last reset.     *)

S == INSTANCE FullSymbolSet

system == <<size, first_symbol_id, full_symbol_tab, pc, new_symbol1, new_symbol,
            i, is_zero, notified, lent, known, dropped>>
window == <<first_id, nb_id, listed>>
vars == <<system, window, coef_tab, fault>>

Capacity == IF coef_tab = NULL THEN 0 ELSE Cardinality(DOMAIN coef_tab)

(* What may happen when the first n entries of a table of `capacity' are   *)
(* written: past its end, the program may stop, at once or later.          *)
Faults(n, capacity) == IF n > capacity THEN {"none", "memory"} ELSE {"none"}

(* The application calls when no earlier call is running.                  *)
Ready == pc = "idle" /\ fault = "none"

(* swif_rlc_decoder_create: calloc leaves first_id at 0.                   *)
Init ==
  /\ S!Init
  /\ first_id = 0 /\ nb_id = 0 /\ listed = {}
  /\ coef_tab = NULL
  /\ fault = "none"

-------------------------------------------------------------------------------
(* Mutant: the count is kept.                                              *)
ResetFirstId ==
  LET capacity == IF coef_tab = NULL THEN symbol_size ELSE Capacity
  IN  /\ Ready
      /\ coef_tab' = [n \in 0 .. capacity - 1 |->
                        IF n < symbol_size THEN Zero ELSE coef_tab[n]]
      /\ fault' \in Faults(symbol_size, capacity)
      /\ first_id' = SYMBOL_ID_NONE
      /\ listed' = {}
      /\ UNCHANGED <<system, nb_id>>

(***************************************************************************)
(* swif_rlc_decoder_reset_coding_window: the table, allocated here or      *)
(* before, is cleared over symbol_size entries, whatever its capacity.     *)
(***************************************************************************)
ResetCodingWindow ==
  LET capacity == IF coef_tab = NULL THEN symbol_size ELSE Capacity
  IN  /\ Ready
      /\ coef_tab' = [n \in 0 .. capacity - 1 |->
                        IF n < symbol_size THEN Zero ELSE coef_tab[n]]
      /\ fault' \in Faults(symbol_size, capacity)
      /\ first_id' = SYMBOL_ID_NONE
      /\ nb_id' = 0
      /\ listed' = {}
      /\ UNCHANGED system

FirstListed(esi) == IF first_id = SYMBOL_ID_NONE THEN esi ELSE first_id

(* Whether swif_rlc_decoder_add_source_symbol_to_coding_window returns     *)
(* SWIF_STATUS_OK.  The difference is a uint32_t.                          *)
Accepted(esi) == (esi - FirstListed(esi)) % IdSpan <= max_coding_window_size

AddSourceSymbol(esi) ==
  /\ Ready
  /\ nb_id < MaxListed
  /\ first_id' = FirstListed(esi)
  /\ \/ /\ Accepted(esi)
        /\ nb_id' = nb_id + 1
        /\ listed' = listed \union {esi}
     \/ /\ ~Accepted(esi)
        /\ UNCHANGED <<nb_id, listed>>
  /\ UNCHANGED <<system, coef_tab, fault>>

(* Mutant: a table for the symbols in the window only.                     *)
CapacityForWindow == IF coef_tab = NULL THEN nb_id ELSE Capacity

(* The capacity of the table once it is allocated, one entry for each      *)
(* symbol of the largest window.                                           *)
GenerationCapacity == IF coef_tab = NULL THEN max_coding_window_size ELSE Capacity

(***************************************************************************)
(* swif_rlc_decoder_generate_coding_coefs: cc[n] is what the generator     *)
(* draws for the n-th symbol.  A table allocated here is not cleared.      *)
(***************************************************************************)
GenerateCodingCoefs(cc) ==
  /\ Ready
  /\ \/ /\ nb_id > max_coding_window_size
        /\ fault' = "assert"
        /\ UNCHANGED coef_tab
     \/ /\ nb_id <= max_coding_window_size
        /\ \E memory \in [0 .. GenerationCapacity - 1 -> F] :
             /\ coef_tab # NULL => memory = coef_tab
             /\ coef_tab' = [n \in DOMAIN memory |->
                               IF n < nb_id THEN cc[n] ELSE memory[n]]
        /\ fault' \in Faults(nb_id, GenerationCapacity)
  /\ UNCHANGED <<system, window>>

(* swif_rlc_decoder_decode_with_new_source_symbol starts.                  *)
DecodeWithNewSourceSymbol(esi, data) ==
  /\ Ready
  /\ S!AddWithElimination(full_symbol_create_from_source(esi, data))
  /\ UNCHANGED <<window, coef_tab, fault>>

(* Mutant: the coefficients laid from the last identifier on.              *)
HeadersShifted ==
  {v \in Vector : \A c \in Ids :
     IF c \in first_id + 1 .. first_id + nb_id
     THEN c - first_id - 1 < Capacity => v[c] = coef_tab[c - first_id - 1]
     ELSE v[c] = Zero}

(* The headers full_symbol_create may build: coef_tab from first_id on.    *)
(* What it reads past the end of the table may be anything.                *)
Headers ==
  {v \in Vector : \A c \in Ids :
     IF c \in first_id .. first_id + nb_id - 1
     THEN c - first_id < Capacity => v[c] = coef_tab[c - first_id]
     ELSE v[c] = Zero}

(***************************************************************************)
(* swif_rlc_decoder_decode_with_new_repair_symbol starts.  An empty window *)
(* makes an assertion of full_symbol_alloc fail.  MaxId bounds the window. *)
(***************************************************************************)
DecodeWithNewRepairSymbol(data) ==
  /\ Ready
  /\ \/ /\ nb_id = 0
        /\ fault' = "assert"
        /\ UNCHANGED system
     \/ /\ nb_id > Capacity
        /\ fault' = "memory"
        /\ UNCHANGED system
     \/ /\ nb_id > 0 /\ coef_tab # NULL
        /\ first_id + nb_id - 1 <= MaxId
        /\ \E header \in Headers :
             S!AddWithElimination([coef |-> header, data |-> data])
        /\ UNCHANGED fault
  /\ UNCHANGED <<window, coef_tab>>

(* A step of the linear system, inside a call to the decoder.              *)
SystemStep ==
  /\ S!Step
  /\ UNCHANGED <<window, coef_tab, fault>>

(* Any application: calls in any order.                                    *)
Next ==
  \/ ResetCodingWindow
  \/ \E esi \in Ids : AddSourceSymbol(esi)
  \/ \E cc \in [0 .. max_coding_window_size - 1 -> F] : GenerateCodingCoefs(cc)
  \/ \E esi \in Ids : DecodeWithNewSourceSymbol(esi, UnitVector(esi))
  \/ \E data \in Vector : DecodeWithNewRepairSymbol(data)
  \/ SystemStep

Spec == Init /\ [][Next]_vars

-------------------------------------------------------------------------------
WindowTypeOK ==
  /\ first_id \in Ids \union {SYMBOL_ID_NONE}
  /\ nb_id \in 0 .. MaxListed
  /\ listed \subseteq Ids
  /\ \/ coef_tab = NULL
     \/ \E capacity \in {symbol_size, max_coding_window_size} :
          coef_tab \in [0 .. capacity - 1 -> F]
  /\ fault \in {"none", "memory", "assert"}

(***************************************************************************)
(* Whatever the application calls, a window without a first identifier     *)
(* counts no symbol ("assert(rlc_dec->nb_id == 0)", swif_rlc_api.c:316),   *)
(* and the first identifier and the count describe accepted symbols.       *)
(***************************************************************************)
FirstIsListed ==
  /\ first_id = SYMBOL_ID_NONE => nb_id = 0
  /\ nb_id > 0 =>
       /\ listed # {} /\ Cardinality(listed) <= nb_id
       /\ \A id \in listed : (id - first_id) % IdSpan <= max_coding_window_size

(***************************************************************************)
(* The table of the linear system stays in reduced echelon form even when  *)
(* the application prepares a window that is not the one the symbol was    *)
(* built over: a wrong header spoils payloads, never the table.            *)
(***************************************************************************)
EchelonForAnyCalls == S!ReducedEchelon
===============================================================================
