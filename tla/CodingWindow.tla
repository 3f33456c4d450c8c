----------------------------- MODULE CodingWindow -----------------------------
(***************************************************************************)
(* What the encoder promises of its sliding window, without saying how it  *)
(* is stored: a queue of at most max_coding_window_size consecutive source *)
(* symbols, in which a new symbol pushes the oldest one out, and the       *)
(* application, once it registered a callback, is told which one left.     *)
(***************************************************************************)
EXTENDS Integers, Sequences

CONSTANTS
  Ids,                      (* The identifiers (ESI) of source symbols.    *)
  max_coding_window_size,
  NONE                      (* Nothing was reported yet.                   *)

VARIABLES
  window,      (* The symbols in the window, the oldest first.             *)
  registered,  (* Whether the application registered a callback.           *)
  removed      (* The identifier reported last.                            *)

vars == <<window, registered, removed>>

Init ==
  /\ window = <<>>
  /\ registered = FALSE
  /\ removed = NONE

Add(esi) ==
  /\ window # <<>> => esi = window[Len(window)] + 1
  /\ IF Len(window) < max_coding_window_size
     THEN /\ window' = Append(window, esi)
          /\ UNCHANGED removed
     ELSE /\ window' = Append(Tail(window), esi)
          /\ removed' = IF registered THEN Head(window) ELSE removed
  /\ UNCHANGED registered

Register(on) ==
  /\ registered' = on
  /\ UNCHANGED <<window, removed>>

Next ==
  \/ \E esi \in Ids : Add(esi)
  \/ \E on \in BOOLEAN : Register(on)

Spec == Init /\ [][Next]_vars
===============================================================================
