----------------------------- MODULE SimpleServer -----------------------------
(***************************************************************************)
(* The sender of the demo (simple_server.c): it announces the session,     *)
(* feeds its source symbols one by one to the encoder (module RlcEncoder), *)
(* and interleaves repair symbols so that tot_enc packets carry tot_src    *)
(* source symbols.  Any packet may be lost: should_be_lost drops them at   *)
(* random.                                                                 *)
(*                                                                         *)
(* repair_counter is a double that grows by (tot_enc - tot_src) / tot_src  *)
(* with each source symbol and is compared with 1.0.  Here it is an        *)
(* integer that counts parts of 1 / tot_src.  The sums of the code are off *)
(* by far less than one part, so they agree with it except where the exact *)
(* value is 1.0: there the code may see slightly less, and which of the    *)
(* two happens depends on the code rate.                                   *)
(***************************************************************************)
EXTENDS GaloisField, Sequences

CONSTANTS
  tot_enc,                   (* The packets of the session, floor(tot_src  *)
                             (* / code_rate).                              *)
  ew_size,                   (* The size of the encoding window.           *)
  IdSpan,                    (* The number of values of an esi_t: 2^32.    *)
  NssSpan,                   (* Those of the field nss of a header: 2^12.  *)
  full_density,              (* Whether dt is 15.                          *)
  NULL

tot_src == MaxId + 1

ASSUME RateAssumption == tot_enc \in Nat /\ tot_enc >= tot_src
ASSUME EwSizeAssumption == ew_size \in Nat \ {0, 1}
ASSUME SpanAssumption == IdSpan \in Nat /\ NssSpan \in Nat \ {0} /\ MaxId < IdSpan - 1
ASSUME FullDensityAssumption == full_density \in BOOLEAN
ASSUME NullAssumption == NULL \notin Ids

VARIABLES
  ew_tab, ew_left, ew_right, ew_esi_right, ew_ss_nb, cc_tab,
  registered, removed, new_buf,
  server_pc,       (* Where the server is.                                 *)
  server_esi,      (* The source symbol it reads.                          *)
  server_idx,      (* Its index in enc_symbols_tab: the key of a repair.   *)
  repair_counter,  (* The repair symbols due, in parts of 1 / tot_src.     *)
  network          (* The packets on their way, the oldest first.          *)

E == INSTANCE RlcEncoder WITH max_coding_window_size <- ew_size, EsiSpan <- IdSpan

encoder == <<ew_tab, ew_left, ew_right, ew_esi_right, ew_ss_nb, cc_tab,
             registered, removed, new_buf>>
server == <<encoder, server_pc, server_esi, server_idx, repair_counter>>
vars == <<server, network>>

(* The three kinds of packets, told apart by their lengths.                *)
OtiPacket == [kind |-> "oti"]

SourcePacket(esi) == [kind |-> "source", esi |-> esi]

RepairPacket(esi, nss, coefs, data) ==
  [kind |-> "repair", esi |-> esi, nss |-> nss, coefs |-> coefs, data |-> data]

Init ==
  /\ E!Init
  /\ server_pc = "oti" /\ server_esi = 0 /\ server_idx = 0 /\ repair_counter = 0
  /\ network = <<>>

-------------------------------------------------------------------------------
(* sendto, unless the packet is lost.                                      *)
Send(packet) == network' \in {network, Append(network, packet)}

(* The FEC OTI is sent and the encoder is created with its callback.       *)
Start ==
  /\ server_pc = "oti"
  /\ Send(OtiPacket)
  /\ E!SetCallbackFunctions(TRUE)
  /\ server_pc' = "source"
  /\ UNCHANGED <<server_esi, server_idx, repair_counter>>

(* Mutant: as if all the packets were repair packets.                      *)
RepairsPerSourceOfAll == tot_enc

(* The repair symbols due with each source symbol, in the same parts.      *)
RepairsPerSource == tot_enc - tot_src

(***************************************************************************)
(* A turn of the main loop begins: the symbol is stored in                 *)
(* enc_symbols_tab[idx], with no look at the size of that table, added to  *)
(* the window and sent.                                                    *)
(***************************************************************************)
SendSource ==
  /\ server_pc = "source"
  /\ E!AddFirst(server_esi) \/ E!AddNext(server_esi) \/ E!SlideWindow(server_esi)
  /\ Send(SourcePacket(server_esi))
  /\ repair_counter' = repair_counter + RepairsPerSource
  /\ server_idx' = server_idx + 1
  /\ server_pc' = "repair"
  /\ UNCHANGED server_esi

(* The condition of the inner loop may hold; at tot_src exactly it may     *)
(* also fail (NoRepairIsDue).                                              *)
RepairIsDue == repair_counter >= tot_src /\ server_idx < tot_enc

(* A turn of that loop, in three calls to the encoder.                     *)
GenerateCoefs ==
  /\ server_pc = "repair"
  /\ RepairIsDue
  /\ repair_counter' = repair_counter - tot_src
  /\ \E cc \in [E!Slots -> F] : E!GenerateCodingCoefs(cc, full_density)
  /\ server_pc' = "build"
  /\ UNCHANGED <<server_esi, server_idx, network>>

BuildRepair ==
  /\ server_pc = "build"
  /\ E!BuildRepairSymbol
  /\ server_pc' = "send"
  /\ UNCHANGED <<server_esi, server_idx, repair_counter, network>>

(* The header is what the encoder reports of its window.                   *)
Header ==
  LET info == E!CodingWindowInformation
  IN  RepairPacket(info.first, info.nss % NssSpan,
        [k \in 0 .. ew_size - 1 |-> IF k < info.nss % NssSpan THEN cc_tab[k] ELSE Zero],
        new_buf)

Consistent ==
  LET info == E!CodingWindowInformation
  IN  info.nss = (info.last - info.first + 1) % IdSpan

SendRepair ==
  /\ server_pc = "send"
  /\ IF Consistent
     THEN /\ Send(Header)
          /\ server_idx' = server_idx + 1
          /\ server_pc' = "repair"
     ELSE /\ server_pc' = "error"
          /\ UNCHANGED <<server_idx, network>>
  /\ UNCHANGED <<encoder, server_esi, repair_counter>>

NoRepairIsDue == repair_counter <= tot_src \/ server_idx >= tot_enc

(* The inner loop is left, and the next source symbol is read, if any.     *)
NextSource ==
  /\ server_pc = "repair"
  /\ NoRepairIsDue
  /\ server_esi' = server_esi + 1
  /\ server_pc' = IF server_esi + 1 < tot_src THEN "source" ELSE "done"
  /\ UNCHANGED <<encoder, server_idx, repair_counter, network>>

ServerStep ==
  \/ Start
  \/ SendSource
  \/ GenerateCoefs
  \/ BuildRepair
  \/ SendRepair
  \/ NextSource

(* The server alone, in front of a network that keeps every packet.        *)
Spec == Init /\ [][ServerStep]_vars /\ WF_vars(ServerStep)

-------------------------------------------------------------------------------
ServerTypeOK ==
  /\ E!TypeOK
  /\ server_pc \in {"oti", "source", "repair", "build", "send", "done", "error"}
  /\ server_esi \in 0 .. tot_src
  /\ server_idx \in 0 .. tot_enc
  /\ repair_counter \in Nat

(***************************************************************************)
(* The schedule: enc_symbols_tab has tot_enc entries, and only the inner   *)
(* loop compares the index with that.  Whatever was rounded, a source      *)
(* symbol finds its entry when it is read, and no more than one repair     *)
(* symbol of the announced number is missing at the end.                   *)
(***************************************************************************)
ScheduleFits ==
  /\ server_pc \in {"source", "build", "send"} => server_idx < tot_enc
  /\ server_pc = "done" => server_idx \in {tot_enc - 1, tot_enc}

(***************************************************************************)
(* The server never stops on an error: the encoder takes every symbol, and *)
(* what it reports of its window adds up ("there is no ESI loop back to    *)
(* zero, so check consistency", simple_server.c:299).                      *)
(***************************************************************************)
NeverRefused ==
  /\ server_pc # "error"
  /\ server_pc = "source" => E!Expected(server_esi)

(* The counter is what is due for the source symbols read, less what was   *)
(* sent for it: the invariant the schedule rests on.                       *)
Read == IF server_pc \in {"repair", "build", "send"} THEN server_esi + 1 ELSE server_esi

Repairs ==
  (server_idx - Read) + (IF server_pc \in {"build", "send"} THEN 1 ELSE 0)

CounterIsBalance ==
  server_pc # "error" => repair_counter = Read * RepairsPerSource - Repairs * tot_src

(* The inductive invariant of the schedule.                                *)
ScheduleInv ==
  /\ server_pc \in {"oti", "source", "repair", "build", "send", "done", "error"}
  /\ server_esi \in Nat /\ server_idx \in Nat /\ repair_counter \in Nat
  /\ server_pc = "oti" => server_esi = 0 /\ server_idx = 0
  /\ server_pc = "source" => server_esi < tot_src
  /\ server_pc = "done" => server_esi = tot_src /\ NoRepairIsDue
  /\ server_pc # "error" => Read <= tot_src
  /\ CounterIsBalance

(* The encoder has seen the symbols that were read, and its window is no   *)
(* longer than that.                                                       *)
EncoderFollows ==
  server_pc # "error" =>
    /\ ew_ss_nb \in Nat
    /\ Read = 0 => ew_ss_nb = 0 /\ ew_esi_right = E!INVALID_ESI
    /\ Read > 0 => /\ ew_ss_nb > 0 /\ ew_ss_nb <= Read
                   /\ ew_esi_right = Read - 1
===============================================================================
