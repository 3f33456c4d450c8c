-------------------------- MODULE SimpleServerProofs --------------------------
(***************************************************************************)
(* The schedule of the demo server fits its table, and its encoder never   *)
(* refuses a symbol, for every number of symbols, code rate and window.    *)
(***************************************************************************)
EXTENDS SimpleServer, FiniteSetTheorems, SequenceTheorems, TLAPS

(* The encoder of the server, with the theorems about it.                  *)
P == INSTANCE RlcEncoderProofs WITH max_coding_window_size <- ew_size, EsiSpan <- IdSpan

(* A quotient: no more repair symbols than announced are due.              *)
LEMMA QuotientBound ==
  ASSUME NEW t \in Nat, t > 0, NEW m \in Nat, NEW n \in Nat, n <= t,
         NEW r \in Int, r * t <= n * m
  PROVE  r <= m
<1>1. SUFFICES ASSUME r >= m + 1 PROVE FALSE
  OBVIOUS
<1>2. n * m <= t * m
  <2> DEFINE d == t - n
  <2>1. d \in Nat /\ t = n + d
    OBVIOUS
  <2>2. d * m \in Nat
    BY <2>1
  <2>3. t * m = n * m + d * m
    BY <2>1
  <2>4. n * m \in Nat /\ t * m \in Nat
    OBVIOUS
  <2> HIDE DEF d
  <2>5. QED
    BY <2>2, <2>3, <2>4
<1>3. (m + 1) * t <= r * t
  <2> DEFINE e == r - (m + 1)
  <2>1. e \in Nat /\ r = (m + 1) + e
    BY <1>1
  <2>2. e * t \in Nat
    BY <2>1
  <2>3. r * t = (m + 1) * t + e * t
    BY <2>1
  <2>4. r * t \in Int /\ (m + 1) * t \in Int
    OBVIOUS
  <2> HIDE DEF e
  <2>5. QED
    BY <2>2, <2>3, <2>4
<1>4. (m + 1) * t = t * m + t
  OBVIOUS
<1>5. QED
  <2> DEFINE x == t * m
             y == n * m
             z == r * t
  <2>1. x \in Int /\ y \in Int /\ z \in Int
    OBVIOUS
  <2>2. z <= y /\ y <= x /\ x + t <= z
    BY <1>2, <1>3, <1>4
  <2> HIDE DEF x, y, z
  <2>3. QED
    BY <2>1, <2>2

(* The index is at most that of the packets read and due.                  *)
LEMMA IndexBound ==
  ASSUME ScheduleInv, server_pc # "error"
  PROVE  /\ tot_src \in Nat /\ tot_src > 0 /\ RepairsPerSource \in Nat
         /\ Read \in Nat /\ Repairs \in Int
         /\ tot_enc = tot_src + RepairsPerSource
         /\ repair_counter = Read * RepairsPerSource - Repairs * tot_src
         /\ Repairs <= RepairsPerSource
<1>1. /\ tot_src \in Nat /\ tot_src > 0 /\ RepairsPerSource \in Nat
      /\ tot_enc = tot_src + RepairsPerSource
  BY MaxIdAssumption, RateAssumption DEF tot_src, RepairsPerSource
<1>2. Read \in Nat /\ Read <= tot_src /\ Repairs \in Int
  BY <1>1 DEF ScheduleInv, Read, Repairs
<1>3. /\ repair_counter \in Nat
      /\ repair_counter = Read * RepairsPerSource - Repairs * tot_src
  BY DEF ScheduleInv, CounterIsBalance
<1>4. Repairs * tot_src <= Read * RepairsPerSource
  <2> DEFINE x == Read * RepairsPerSource
             y == Repairs * tot_src
  <2>1. x \in Int /\ y \in Int
    BY <1>1, <1>2
  <2>2. repair_counter = x - y
    BY <1>3
  <2> HIDE DEF x, y
  <2>3. y <= x
    BY <1>3, <2>1, <2>2
  <2>4. QED
    BY <2>3 DEF x, y
<1>5. Repairs <= RepairsPerSource
  BY <1>1, <1>2, <1>4, QuotientBound
<1>6. QED
  BY <1>1, <1>2, <1>3, <1>5

(***************************************************************************)
(* The invariant of the schedule, one action at a time.                    *)
(***************************************************************************)
LEMMA ScheduleInit == Init => ScheduleInv
<1>1. ASSUME Init PROVE ScheduleInv
  <2>1. tot_src \in Nat /\ RepairsPerSource \in Int
    BY MaxIdAssumption, RateAssumption DEF tot_src, RepairsPerSource
  <2>2. Read = 0 /\ Repairs = 0
    BY <1>1 DEF Init, Read, Repairs
  <2>3. QED
    BY <1>1, <2>1, <2>2 DEF Init, ScheduleInv, CounterIsBalance
<1>2. QED
  BY <1>1

LEMMA ScheduleNext ==
  ASSUME ScheduleInv, [ServerStep]_server
  PROVE  ScheduleInv'
<1> DEFINE m == RepairsPerSource
<1>1. tot_src \in Nat /\ tot_src > 0 /\ m \in Nat
  BY MaxIdAssumption, RateAssumption DEF tot_src, RepairsPerSource
<1>2. CASE Start
  <2>1. /\ server_pc = "oti" /\ server_pc' = "source"
        /\ UNCHANGED <<server_esi, server_idx, repair_counter>>
    BY <1>2 DEF Start
  <2>2. Read' = Read /\ Repairs' = Repairs
    BY <2>1 DEF Read, Repairs
  <2>3. QED
    BY <1>1, <2>1, <2>2 DEF ScheduleInv, CounterIsBalance, NoRepairIsDue
<1>3. CASE SendSource
  <2>1. /\ server_pc = "source" /\ server_pc' = "repair"
        /\ repair_counter' = repair_counter + m
        /\ server_idx' = server_idx + 1 /\ server_esi' = server_esi
    BY <1>3 DEF SendSource
  <2>2. Read' = Read + 1 /\ Repairs' = Repairs /\ Read \in Nat /\ Repairs \in Int
    BY <2>1 DEF Read, Repairs, ScheduleInv
  <2>3. repair_counter = Read * m - Repairs * tot_src
    BY <2>1 DEF ScheduleInv, CounterIsBalance
  <2>4. repair_counter' = Read' * m - Repairs' * tot_src
    BY <1>1, <2>1, <2>2, <2>3
  <2>5. Read' <= tot_src
    BY <1>1, <2>1, <2>2 DEF ScheduleInv, Read
  <2>6. RepairsPerSource' = m
    BY DEF RepairsPerSource
  <2>7. QED
    BY <1>1, <2>1, <2>4, <2>5, <2>6 DEF ScheduleInv, CounterIsBalance, NoRepairIsDue
<1>4. CASE GenerateCoefs
  <2>1. /\ server_pc = "repair" /\ server_pc' = "build"
        /\ repair_counter >= tot_src
        /\ repair_counter' = repair_counter - tot_src
        /\ UNCHANGED <<server_esi, server_idx>>
    BY <1>4 DEF GenerateCoefs, RepairIsDue
  <2>2. Read' = Read /\ Repairs' = Repairs + 1 /\ Read \in Nat /\ Repairs \in Int
    BY <2>1 DEF Read, Repairs, ScheduleInv
  <2>3. repair_counter = Read * m - Repairs * tot_src /\ repair_counter \in Nat
    BY <2>1 DEF ScheduleInv, CounterIsBalance
  <2>4. repair_counter' = Read' * m - Repairs' * tot_src
    BY <1>1, <2>1, <2>2, <2>3
  <2>5. RepairsPerSource' = m
    BY DEF RepairsPerSource
  <2>6. QED
    BY <1>1, <2>1, <2>2, <2>3, <2>4, <2>5 DEF ScheduleInv, CounterIsBalance, NoRepairIsDue
<1>5. CASE BuildRepair
  <2>1. /\ server_pc = "build" /\ server_pc' = "send"
        /\ UNCHANGED <<server_esi, server_idx, repair_counter>>
    BY <1>5 DEF BuildRepair
  <2>2. Read' = Read /\ Repairs' = Repairs
    BY <2>1 DEF Read, Repairs
  <2>3. QED
    BY <1>1, <2>1, <2>2 DEF ScheduleInv, CounterIsBalance, NoRepairIsDue
<1>6. CASE SendRepair
  <2>1. server_pc = "send" /\ UNCHANGED <<server_esi, repair_counter>>
    BY <1>6 DEF SendRepair
  <2>2. CASE Consistent
    <3>1. server_pc' = "repair" /\ server_idx' = server_idx + 1
      BY <1>6, <2>2 DEF SendRepair
    <3>2. Read' = Read /\ Repairs' = Repairs
      BY <2>1, <3>1 DEF Read, Repairs, ScheduleInv
    <3>3. QED
      BY <1>1, <2>1, <3>1, <3>2 DEF ScheduleInv, CounterIsBalance, NoRepairIsDue
  <2>3. CASE ~Consistent
    <3>1. server_pc' = "error" /\ server_idx' = server_idx
      BY <1>6, <2>3 DEF SendRepair
    <3>2. QED
      BY <2>1, <3>1 DEF ScheduleInv, CounterIsBalance
  <2>4. QED
    BY <2>2, <2>3
<1>7. CASE NextSource
  <2>1. /\ server_pc = "repair" /\ NoRepairIsDue
        /\ server_esi' = server_esi + 1
        /\ server_pc' = IF server_esi + 1 < tot_src THEN "source" ELSE "done"
        /\ UNCHANGED <<server_idx, repair_counter>>
    BY <1>7 DEF NextSource
  <2>2. Read' = Read /\ Repairs' = Repairs /\ Read = server_esi + 1
    BY <2>1 DEF Read, Repairs, ScheduleInv
  <2>3. NoRepairIsDue'
    BY <2>1 DEF NoRepairIsDue, tot_src
  <2>4. QED
    BY <1>1, <2>1, <2>2, <2>3 DEF ScheduleInv, CounterIsBalance
<1>8. CASE UNCHANGED server
  <2>1. UNCHANGED <<server_pc, server_esi, server_idx, repair_counter>>
    BY <1>8 DEF server
  <2>2. Read' = Read /\ Repairs' = Repairs
    BY <2>1 DEF Read, Repairs
  <2>3. QED
    BY <2>1, <2>2 DEF ScheduleInv, CounterIsBalance, NoRepairIsDue
<1>9. QED
  BY <1>2, <1>3, <1>4, <1>5, <1>6, <1>7, <1>8 DEF ServerStep

-------------------------------------------------------------------------------
(* The encoder follows the server.                                         *)
LEMMA FollowsInit == Init => EncoderFollows
BY DEF Init, EncoderFollows, Read, E!Init

LEMMA FollowsNext ==
  ASSUME ScheduleInv, EncoderFollows, [ServerStep]_server
  PROVE  EncoderFollows'
<1>1. E!INVALID_ESI' = E!INVALID_ESI
  BY DEF E!INVALID_ESI
<1>2. CASE SendSource
  <2>1. /\ server_pc = "source" /\ server_pc' = "repair" /\ server_esi' = server_esi
        /\ server_esi \in Nat
    BY <1>2 DEF SendSource, ScheduleInv
  <2>2. Read = server_esi /\ Read' = server_esi + 1
    BY <2>1 DEF Read
  <2>3. ew_ss_nb \in Nat /\ ew_ss_nb <= server_esi
    BY <2>1, <2>2 DEF EncoderFollows
  <2>4. /\ ew_esi_right' = server_esi
        /\ ew_ss_nb' = ew_ss_nb + 1 \/ (ew_ss_nb' = ew_ss_nb /\ ew_ss_nb = ew_size)
    BY <1>2 DEF SendSource, E!AddFirst, E!AddNext, E!SlideWindow
  <2>5. ew_ss_nb' \in Nat /\ ew_ss_nb' > 0 /\ ew_ss_nb' <= server_esi + 1
    BY <2>1, <2>3, <2>4, EwSizeAssumption
  <2>6. QED
    BY <2>1, <2>2, <2>4, <2>5 DEF EncoderFollows
<1>3. ASSUME UNCHANGED <<ew_ss_nb, ew_esi_right>>, server_pc' # "error" => Read' = Read,
             server_pc # "error"
      PROVE  EncoderFollows'
  BY <1>1, <1>3 DEF EncoderFollows
<1>4. CASE Start
  <2>1. /\ server_pc = "oti" /\ server_pc' = "source" /\ server_esi' = server_esi
        /\ UNCHANGED <<ew_ss_nb, ew_esi_right>>
    BY <1>4 DEF Start, E!SetCallbackFunctions, E!ring
  <2>2. QED
    BY <1>3, <2>1 DEF Read
<1>5. CASE GenerateCoefs
  <2>1. /\ server_pc = "repair" /\ server_pc' = "build" /\ server_esi' = server_esi
        /\ UNCHANGED <<ew_ss_nb, ew_esi_right>>
    BY <1>5 DEF GenerateCoefs, E!GenerateCodingCoefs, E!ring
  <2>2. QED
    BY <1>3, <2>1 DEF Read
<1>6. CASE BuildRepair
  <2>1. /\ server_pc = "build" /\ server_pc' = "send" /\ server_esi' = server_esi
        /\ UNCHANGED <<ew_ss_nb, ew_esi_right>>
    BY <1>6 DEF BuildRepair, E!BuildRepairSymbol, E!ring
  <2>2. QED
    BY <1>3, <2>1 DEF Read
<1>7. CASE SendRepair
  <2>1. /\ server_pc = "send" /\ server_pc' \in {"repair", "error"}
        /\ server_esi' = server_esi
        /\ UNCHANGED <<ew_ss_nb, ew_esi_right>>
    BY <1>7 DEF SendRepair, encoder
  <2>2. QED
    BY <1>3, <2>1 DEF Read
<1>8. CASE NextSource
  <2>1. /\ server_pc = "repair" /\ server_pc' \in {"source", "done"}
        /\ server_esi' = server_esi + 1
        /\ UNCHANGED <<ew_ss_nb, ew_esi_right>>
    BY <1>8 DEF NextSource, encoder
  <2>2. QED
    BY <1>3, <2>1 DEF Read
<1>9. CASE UNCHANGED server
  <2>1. UNCHANGED <<ew_ss_nb, ew_esi_right, server_pc, server_esi>>
    BY <1>9 DEF server, encoder
  <2>2. QED
    BY <1>1, <2>1 DEF EncoderFollows, Read
<1>10. QED
  BY <1>2, <1>4, <1>5, <1>6, <1>7, <1>8, <1>9 DEF ServerStep

(* The consistency check of the server always passes.                      *)
LEMMA WindowAddsUp ==
  ASSUME ScheduleInv, EncoderFollows, server_pc = "send"
  PROVE  Consistent
<1> DEFINE first == Read - ew_ss_nb
<1>1. /\ Read \in Nat /\ Read > 0 /\ Read <= tot_src
      /\ ew_ss_nb \in Nat /\ ew_ss_nb > 0 /\ ew_ss_nb <= Read
      /\ ew_esi_right = Read - 1
  BY DEF ScheduleInv, EncoderFollows, Read
<1>2. IdSpan \in Nat /\ tot_src < IdSpan /\ tot_src \in Nat
  BY SpanAssumption, MaxIdAssumption DEF tot_src
<1>3. first \in Nat /\ first < IdSpan /\ first % IdSpan = first
  BY <1>1, <1>2
<1>4. ew_esi_right - ew_ss_nb + 1 = first /\ ew_esi_right - first + 1 = ew_ss_nb
  BY <1>1
<1>5. ew_ss_nb % IdSpan = ew_ss_nb
  BY <1>1, <1>2
<1>6. /\ E!CodingWindowInformation.first = (ew_esi_right - ew_ss_nb + 1) % IdSpan
      /\ E!CodingWindowInformation.last = ew_esi_right
      /\ E!CodingWindowInformation.nss = ew_ss_nb
  BY DEF E!CodingWindowInformation
<1> HIDE DEF first
<1>7. QED
  BY <1>3, <1>4, <1>5, <1>6 DEF Consistent

LEMMA NoErrorNext ==
  ASSUME ScheduleInv, EncoderFollows, server_pc # "error", [ServerStep]_server
  PROVE  server_pc' # "error"
<1>1. CASE SendRepair
  <2>1. Consistent
    BY <1>1, WindowAddsUp DEF SendRepair
  <2>2. QED
    BY <1>1, <2>1 DEF SendRepair
<1>2. CASE NextSource
  BY <1>2 DEF NextSource
<1>3. QED
  BY <1>1, <1>2 DEF ServerStep, Start, SendSource, GenerateCoefs, BuildRepair, server

(***************************************************************************)
(* The theorems.                                                           *)
(***************************************************************************)

(* The counter, the index and the symbols read agree in every state.       *)
THEOREM ScheduleInvariance == Spec => [](ScheduleInv /\ EncoderFollows /\ server_pc # "error")
<1>1. Init => ScheduleInv /\ EncoderFollows /\ server_pc # "error"
  BY ScheduleInit, FollowsInit DEF Init
<1>2. /\ ScheduleInv /\ EncoderFollows /\ server_pc # "error"
      /\ [ServerStep]_vars
      => (ScheduleInv /\ EncoderFollows /\ server_pc # "error")'
  BY ScheduleNext, FollowsNext, NoErrorNext DEF vars
<1>3. QED
  BY <1>1, <1>2, PTL DEF Spec

(* The table of encoding symbols is long enough, and at most one repair    *)
(* symbol is missing at the end, for every number of symbols and of        *)
(* packets, and however the rounding of the counter falls.                 *)
THEOREM ScheduleFitsTable == Spec => []ScheduleFits
<1>1. ASSUME ScheduleInv, server_pc # "error" PROVE ScheduleFits
  <2>1. /\ tot_src \in Nat /\ tot_src > 0 /\ RepairsPerSource \in Nat
        /\ Read \in Nat /\ Repairs \in Int
        /\ tot_enc = tot_src + RepairsPerSource
        /\ repair_counter = Read * RepairsPerSource - Repairs * tot_src
        /\ Repairs <= RepairsPerSource
    BY <1>1, IndexBound
  <2>2. server_esi \in Nat /\ server_idx \in Nat /\ Read <= tot_src
    BY <1>1 DEF ScheduleInv
  <2>3. ASSUME server_pc = "source" PROVE server_idx < tot_enc
    BY <1>1, <2>1, <2>2, <2>3 DEF ScheduleInv, Read, Repairs
  <2>4. ASSUME server_pc \in {"build", "send"} PROVE server_idx < tot_enc
    BY <1>1, <2>1, <2>2, <2>4 DEF Read, Repairs
  <2>5. ASSUME server_pc = "done" PROVE server_idx \in {tot_enc - 1, tot_enc}
    <3>1. Read = tot_src /\ NoRepairIsDue /\ Repairs = server_idx - tot_src
      BY <1>1, <2>2, <2>5 DEF ScheduleInv, Read, Repairs
    <3>2. server_idx <= tot_enc
      BY <2>1, <2>2, <3>1
    <3>3. ASSUME server_idx < tot_enc - 1 PROVE FALSE
      <4> DEFINE missing == RepairsPerSource - Repairs
      <4>1. missing \in Nat /\ missing >= 2
        BY <2>1, <2>2, <3>1, <3>3
      <4>2. repair_counter = missing * tot_src
        BY <2>1, <3>1
      <4>3. repair_counter <= tot_src
        BY <2>1, <2>2, <3>1, <3>3 DEF NoRepairIsDue
      <4> HIDE DEF missing
      <4>4. missing * tot_src >= 2 * tot_src
        BY <2>1, <4>1
      <4>5. QED
        BY <2>1, <4>2, <4>3, <4>4
    <3>4. QED
      BY <2>1, <2>2, <3>2, <3>3
  <2>6. QED
    BY <2>3, <2>4, <2>5 DEF ScheduleFits
<1>2. QED
  BY ScheduleInvariance, <1>1, PTL

(* The encoder takes every symbol of the server, and what it reports of    *)
(* its window adds up, however often the window slid.                      *)
THEOREM ServerNeverRefused == Spec => []NeverRefused
<1>1. ASSUME ScheduleInv, EncoderFollows, server_pc # "error" PROVE NeverRefused
  <2>1. ASSUME server_pc = "source", ew_esi_right # E!INVALID_ESI
        PROVE  server_esi = (ew_esi_right + 1) % IdSpan
    <3>1. Read = server_esi /\ server_esi \in Nat /\ server_esi < tot_src
      BY <1>1, <2>1 DEF Read, ScheduleInv
    <3>2. Read > 0 /\ ew_esi_right + 1 = server_esi
      BY <1>1, <2>1, <3>1 DEF EncoderFollows
    <3>3. tot_src < IdSpan /\ IdSpan \in Nat /\ tot_src \in Nat
      BY SpanAssumption, MaxIdAssumption DEF tot_src
    <3>4. QED
      BY <3>1, <3>2, <3>3
  <2>2. QED
    BY <1>1, <2>1 DEF NeverRefused, E!Expected
<1>2. QED
  BY ScheduleInvariance, <1>1, PTL

-------------------------------------------------------------------------------
(***************************************************************************)
(* The server only touches its encoder through the calls of module         *)
(* RlcEncoder, with identifiers the module covers, so the theorems about   *)
(* the encoder hold in the server.                                         *)
(***************************************************************************)
LEMMA EncoderOperators ==
  /\ E!Ids = Ids /\ P!Ids = Ids /\ E!Slots = P!Slots /\ E!ring = P!ring
  /\ E!INVALID_ESI = P!INVALID_ESI /\ E!ZeroVector = P!ZeroVector /\ E!Vector = P!Vector
  /\ E!EsiLeft = P!EsiLeft /\ \A k : E!Advance(k) = P!Advance(k)
  /\ \A esi : E!Expected(esi) <=> P!Expected(esi)
  /\ E!vars = P!vars /\ (UNCHANGED encoder => UNCHANGED E!vars)
<1>1. /\ E!Ids = Ids /\ P!Ids = Ids /\ E!Slots = P!Slots /\ E!ring = P!ring
      /\ E!INVALID_ESI = P!INVALID_ESI
  BY DEF E!Ids, P!Ids, Ids, E!Slots, P!Slots, E!ring, P!ring, E!INVALID_ESI, P!INVALID_ESI
<1>2. E!ZeroVector = P!ZeroVector /\ E!Vector = P!Vector
  BY <1>1 DEF E!ZeroVector, P!ZeroVector, E!Vector, P!Vector
<1>3. E!EsiLeft = P!EsiLeft /\ \A k : E!Advance(k) = P!Advance(k)
  BY DEF E!EsiLeft, P!EsiLeft, E!Advance, P!Advance
<1>4. \A esi : E!Expected(esi) <=> P!Expected(esi)
  BY <1>1 DEF E!Expected, P!Expected
<1>5. E!vars = P!vars
  BY <1>1 DEF E!vars, P!vars
<1>6. UNCHANGED encoder => UNCHANGED E!vars
  BY DEF E!vars, E!ring, encoder
<1>7. QED
  BY <1>1, <1>2, <1>3, <1>4, <1>5, <1>6

LEMMA SameRepair == E!RepairLoop(E!ZeroVector) = P!RepairLoop(P!ZeroVector)
<1>1. E!RepairIndices = P!RepairIndices
  BY DEF E!RepairIndices, P!RepairIndices
<1>2. \A buf, coefs, symbols, S :
        E!AddCombination(buf, coefs, symbols, S) = P!AddCombination(buf, coefs, symbols, S)
  BY Zenon
     DEF E!AddCombination, P!AddCombination, E!FoldSet, P!FoldSet,
         E!MapThenFoldSet, P!MapThenFoldSet, E!symbol_add_scaled, P!symbol_add_scaled,
         E!UnitVector, P!UnitVector, E!Ids, P!Ids
<1>3. QED
  BY <1>1, <1>2, EncoderOperators DEF E!RepairLoop, P!RepairLoop

LEMMA SameEncoder ==
  /\ E!Init => P!Init
  /\ [E!Next]_(E!vars) => [P!Next]_(P!vars)
  /\ E!TypeOK <=> P!TypeOK
<1>1. E!Init => P!Init
  BY EncoderOperators DEF E!Init, P!Init
<1>2. \A on \in BOOLEAN : E!SetCallbackFunctions(on) => P!SetCallbackFunctions(on)
  BY EncoderOperators
     DEF E!ring, P!ring, E!SetCallbackFunctions, P!SetCallbackFunctions
<1>3. \A esi \in E!Ids : E!SlideWindow(esi) => P!SlideWindow(esi)
  BY EncoderOperators DEF E!SlideWindow, P!SlideWindow
<1>4. \A esi \in E!Ids : /\ E!AddFirst(esi) => P!AddFirst(esi)
                         /\ E!AddNext(esi) => P!AddNext(esi)
  BY EncoderOperators DEF E!AddFirst, P!AddFirst, E!AddNext, P!AddNext
<1>5. \A nb, tab : E!SetCodingCoefsTab(tab, nb) => P!SetCodingCoefsTab(tab, nb)
  BY EncoderOperators
     DEF E!ring, P!ring, E!SetCodingCoefsTab, P!SetCodingCoefsTab
<1>6. \A cc, full : E!GenerateCodingCoefs(cc, full) => P!GenerateCodingCoefs(cc, full)
  BY EncoderOperators
     DEF E!ring, P!ring, E!GenerateCodingCoefs, P!GenerateCodingCoefs
<1>7. E!BuildRepairSymbol => P!BuildRepairSymbol
  BY EncoderOperators, SameRepair
     DEF E!ring, P!ring, E!BuildRepairSymbol, P!BuildRepairSymbol
<1>8. E!Next => P!Next
  BY <1>2, <1>3, <1>4, <1>5, <1>6, <1>7, EncoderOperators DEF E!Next, P!Next
<1>9. UNCHANGED E!vars => UNCHANGED P!vars
  BY EncoderOperators DEF E!vars, P!vars, E!ring, P!ring
<1>10. E!TypeOK <=> P!TypeOK
  BY EncoderOperators DEF E!TypeOK, P!TypeOK, E!RingTypeOK, P!RingTypeOK
<1>11. QED
  BY <1>1, <1>8, <1>9, <1>10

LEMMA EncoderStep ==
  ASSUME ScheduleInv, [ServerStep]_server
  PROVE  [E!Next]_(E!vars)
<1>1. CASE Start
  BY <1>1 DEF Start, E!Next
<1>2. CASE SendSource
  <2>1. server_esi \in E!Ids
    BY <1>2, MaxIdAssumption, EncoderOperators DEF SendSource, ScheduleInv, tot_src, Ids
  <2>2. QED
    BY <1>2, <2>1 DEF SendSource, E!Next
<1>3. CASE GenerateCoefs
  BY <1>3, FullDensityAssumption DEF GenerateCoefs, E!Next
<1>4. CASE BuildRepair
  BY <1>4 DEF BuildRepair, E!Next
<1>5. CASE SendRepair \/ NextSource \/ UNCHANGED server
  BY <1>5, EncoderOperators DEF SendRepair, NextSource, server
<1>6. QED
  BY <1>1, <1>2, <1>3, <1>4, <1>5 DEF ServerStep

(* Every behaviour of the server is one of its encoder.                    *)
THEOREM ServerDrivesEncoder == Spec => E!Spec
<1>1. Init => E!Init
  BY DEF Init
<1>2. ScheduleInv /\ [ServerStep]_vars => [E!Next]_(E!vars)
  BY EncoderStep DEF vars
<1>3. QED
  BY <1>1, <1>2, ScheduleInvariance, PTL DEF Spec, E!Spec

LEMMA EncoderTypes == Spec => []E!TypeOK
<1>1. P!NoWrap
  BY SpanAssumption DEF P!NoWrap, P!INVALID_ESI
<1>2. P!Spec => []P!TypeOK
  BY <1>1, P!EncoderTypeCorrect, FieldAssumption, MaxIdAssumption, EwSizeAssumption,
     SpanAssumption, NullAssumption, EncoderOperators
<1>3. E!Spec => P!Spec
  BY SameEncoder, PTL DEF E!Spec, P!Spec
<1>4. E!TypeOK <=> P!TypeOK
  BY SameEncoder
<1>5. QED
  BY <1>2, <1>3, <1>4, ServerDrivesEncoder, PTL

(***************************************************************************)
(* The types: among others, the index never goes past the end of the table *)
(* of encoding symbols, and the encoder keeps its own types.               *)
(***************************************************************************)
THEOREM ServerTypeCorrect == Spec => []ServerTypeOK
<1>1. ASSUME ScheduleInv, server_pc # "error", ScheduleFits, E!TypeOK
      PROVE  ServerTypeOK
  <2>1. /\ tot_src \in Nat /\ tot_src > 0 /\ RepairsPerSource \in Nat
        /\ Read \in Nat /\ Repairs \in Int /\ Repairs <= RepairsPerSource
        /\ tot_enc = tot_src + RepairsPerSource
    BY <1>1, IndexBound
  <2>2. server_esi \in Nat /\ server_idx \in Nat /\ repair_counter \in Nat /\ Read <= tot_src
    BY <1>1 DEF ScheduleInv
  <2>3. server_esi <= tot_src
    BY <1>1, <2>1, <2>2 DEF Read, ScheduleInv
  <2>4. server_idx <= tot_enc
    BY <1>1, <2>1, <2>2 DEF Read, Repairs, ScheduleInv
  <2>5. QED
    BY <1>1, <2>1, <2>2, <2>3, <2>4 DEF ServerTypeOK, ScheduleInv
<1>2. QED
  BY <1>1, ScheduleInvariance, ScheduleFitsTable, EncoderTypes, PTL
-------------------------------------------------------------------------------
(***************************************************************************)
(* What the server puts into a repair packet, as long as its window has    *)
(* not slid.                                                               *)
(***************************************************************************)

(* The callback is registered before the first symbol, so a window that    *)
(* slid has been reported.                                                 *)
SlideReported ==
  /\ registered \/ server_pc = "oti"
  /\ removed = NULL => ew_left = 0

(* The repair symbol to send is the combination its header announces.      *)
RepairInHand ==
  server_pc = "send" /\ removed = NULL =>
    LET first == ew_esi_right - ew_ss_nb + 1
    IN  /\ new_buf \in Vector
        /\ \A c \in Ids : new_buf[c] = IF c \in first .. first + ew_ss_nb - 1
                                       THEN cc_tab[c - first] ELSE Zero

ServerInv ==
  /\ ScheduleInv /\ EncoderFollows /\ server_pc # "error"
  /\ P!IInv /\ new_buf \in Vector /\ SlideReported /\ RepairInHand

LEMMA ServerInvInit == Init => ServerInv
<1>1. Init => ScheduleInv /\ EncoderFollows /\ server_pc # "error"
  BY ScheduleInit, FollowsInit DEF Init
<1>2. P!Init => P!IInv
  BY P!InitInv, FieldAssumption, MaxIdAssumption, EwSizeAssumption, SpanAssumption,
     NullAssumption, EncoderOperators
<1>3. Init => P!IInv
  BY <1>2, SameEncoder DEF Init
<1>4. Init => SlideReported /\ RepairInHand
  BY DEF Init, E!Init, SlideReported, RepairInHand
<1>5. Init => new_buf \in Vector
  BY EncoderOperators, FieldAssumption DEF Init, E!Init, E!ZeroVector, Vector
<1>6. QED
  BY <1>1, <1>3, <1>4, <1>5 DEF ServerInv

(* The encoder's invariant, and its buffer, for the server's steps.        *)
LEMMA RingKept ==
  ASSUME ScheduleInv, P!IInv, [ServerStep]_server
  PROVE  P!IInv' /\ (new_buf \in Vector => new_buf' \in Vector)
<1>1. P!NoWrap
  BY SpanAssumption DEF P!NoWrap, P!INVALID_ESI
<1>2. P!IInv /\ [P!Next]_(P!vars) => P!IInv'
  BY <1>1, P!NextInv, FieldAssumption, MaxIdAssumption, EwSizeAssumption,
     SpanAssumption, NullAssumption, EncoderOperators
<1>3. P!IInv /\ new_buf \in P!Vector /\ [P!Next]_(P!vars) => new_buf' \in P!Vector
  BY P!BufferTyped, FieldAssumption, MaxIdAssumption, EwSizeAssumption,
     SpanAssumption, NullAssumption, EncoderOperators
<1>4. P!Vector = Vector
  BY EncoderOperators DEF P!Vector, Vector
<1>5. QED
  BY <1>2, <1>3, <1>4, EncoderStep, SameEncoder

(* What the encoder reports is an identifier.                              *)
LEMMA EsiLeftIs ==
  ASSUME P!IInv, ew_ss_nb = ew_size
  PROVE  E!EsiLeft \in Ids
<1>1. /\ ew_esi_right \in Nat /\ ew_esi_right <= MaxId /\ ew_esi_right + 1 >= ew_size
      /\ ew_size \in Nat \ {0}
  BY EncoderOperators, EwSizeAssumption, MaxIdAssumption DEF P!IInv, P!RingShape, Ids
<1>2. PICK a \in Nat : a = ew_esi_right + 1 - ew_size /\ a <= MaxId
  BY <1>1, MaxIdAssumption
<1>3. a % IdSpan = a
  BY <1>2, SpanAssumption, MaxIdAssumption
<1>4. QED
  BY <1>2, <1>3 DEF E!EsiLeft, Ids

LEMMA SlideStep ==
  ASSUME ScheduleInv, P!IInv, SlideReported, [ServerStep]_server
  PROVE  SlideReported' /\ (removed # NULL => removed' # NULL)
<1>1. CASE Start
  BY <1>1 DEF Start, E!SetCallbackFunctions, E!ring, SlideReported
<1>2. CASE SendSource
  <2>1. /\ server_pc = "source" /\ server_pc' = "repair"
        /\ E!AddFirst(server_esi) \/ E!AddNext(server_esi) \/ E!SlideWindow(server_esi)
    BY <1>2 DEF SendSource
  <2>2. CASE E!AddFirst(server_esi) \/ E!AddNext(server_esi)
    BY <2>1, <2>2 DEF E!AddFirst, E!AddNext, SlideReported
  <2>3. CASE E!SlideWindow(server_esi)
    <3>1. /\ ew_ss_nb = ew_size /\ registered' = registered
          /\ removed' = IF registered THEN E!EsiLeft ELSE removed
      BY <2>3 DEF E!SlideWindow
    <3>2. registered
      BY <2>1 DEF SlideReported
    <3>3. removed' # NULL
      BY <3>1, <3>2, EsiLeftIs, NullAssumption
    <3>4. QED
      BY <3>1, <3>2, <3>3 DEF SlideReported
  <2>4. QED
    BY <2>1, <2>2, <2>3
<1>3. CASE GenerateCoefs
  BY <1>3 DEF GenerateCoefs, E!GenerateCodingCoefs, E!ring, SlideReported
<1>4. CASE BuildRepair
  BY <1>4 DEF BuildRepair, E!BuildRepairSymbol, E!ring, SlideReported
<1>5. CASE SendRepair \/ NextSource \/ UNCHANGED server
  BY <1>5 DEF SendRepair, NextSource, server, encoder, SlideReported
<1>6. QED
  BY <1>1, <1>2, <1>3, <1>4, <1>5 DEF ServerStep

LEMMA RepairInHandStep ==
  ASSUME ScheduleInv, EncoderFollows, P!IInv, SlideReported, RepairInHand,
         [ServerStep]_server
  PROVE  RepairInHand'
<1>1. CASE BuildRepair
  <2>1. /\ server_pc = "build" /\ new_buf' = E!RepairLoop(E!ZeroVector)
        /\ UNCHANGED <<ew_esi_right, ew_ss_nb, cc_tab, removed>>
    BY <1>1 DEF BuildRepair, E!BuildRepairSymbol, E!ring
  <2>2. SUFFICES ASSUME removed = NULL PROVE RepairInHand'
    BY <2>1 DEF RepairInHand
  <2>3. ew_left = 0 /\ ew_ss_nb > 0
    BY <2>1, <2>2 DEF SlideReported, EncoderFollows, ScheduleInv, Read
  <2>4. LET V == P!RepairLoop(P!ZeroVector)
            first == ew_esi_right - ew_ss_nb + 1
        IN  /\ V \in P!Vector /\ first \in P!Ids
            /\ \A c \in P!Ids : V[c] = IF c \in first .. first + ew_ss_nb - 1
                                       THEN cc_tab[c - first] ELSE Zero
    BY <2>3, P!RepairBeforeSlide, FieldAssumption, MaxIdAssumption, EwSizeAssumption,
       SpanAssumption, NullAssumption, EncoderOperators
  <2>5. P!Vector = Vector
    BY EncoderOperators DEF P!Vector, Vector
  <2>6. QED
    BY <2>1, <2>4, <2>5, SameRepair, EncoderOperators DEF RepairInHand
<1>2. CASE Start \/ SendSource \/ GenerateCoefs \/ SendRepair \/ NextSource
  <2>1. server_pc' # "send"
    BY <1>2 DEF Start, SendSource, GenerateCoefs, SendRepair, NextSource
  <2>2. QED
    BY <2>1 DEF RepairInHand
<1>3. CASE UNCHANGED server
  BY <1>3 DEF server, encoder, RepairInHand
<1>4. QED
  BY <1>1, <1>2, <1>3 DEF ServerStep

LEMMA ServerInvNext ==
  ASSUME ServerInv, [ServerStep]_server
  PROVE  ServerInv' /\ (removed # NULL => removed' # NULL)
BY ScheduleNext, FollowsNext, NoErrorNext, RingKept, SlideStep, RepairInHandStep
   DEF ServerInv

(* The header of a repair packet, and its payload until the window slid.   *)
LEMMA HeaderIs ==
  ASSUME ServerInv, server_pc = "send", tot_src < NssSpan
  PROVE  \E esi \in Ids, nss \in 1 .. ew_size, coefs \in [0 .. ew_size - 1 -> F] :
           /\ esi + nss - 1 <= MaxId /\ esi + nss = Read
           /\ \A k \in 0 .. ew_size - 1 : k >= nss => coefs[k] = Zero
           /\ Header = RepairPacket(esi, nss, coefs, new_buf) /\ new_buf \in Vector
           /\ removed = NULL => new_buf = [c \in Ids |-> IF c \in esi .. esi + nss - 1
                                                         THEN coefs[c - esi] ELSE Zero]
<1> DEFINE esi == ew_esi_right - ew_ss_nb + 1
           coefs == [k \in 0 .. ew_size - 1 |->
                       IF k < ew_ss_nb THEN cc_tab[k] ELSE Zero]
<1>1. /\ Read \in Nat /\ Read > 0 /\ Read <= MaxId + 1
      /\ ew_ss_nb \in Nat /\ ew_ss_nb > 0 /\ ew_ss_nb <= Read
      /\ ew_esi_right = Read - 1
  BY DEF ServerInv, ScheduleInv, EncoderFollows, Read, tot_src
<1>2. ew_ss_nb <= ew_size /\ ew_size \in Nat /\ cc_tab \in [0 .. ew_size - 1 -> F]
  BY EwSizeAssumption DEF ServerInv, P!IInv, P!RingTypeOK, P!Slots
<1>3. esi \in Nat /\ esi \in Ids /\ esi + ew_ss_nb - 1 = ew_esi_right
      /\ ew_esi_right <= MaxId
  BY <1>1, MaxIdAssumption DEF Ids
<1>4. ew_ss_nb % NssSpan = ew_ss_nb /\ esi % IdSpan = esi
  BY <1>1, <1>2, <1>3, SpanAssumption, MaxIdAssumption DEF tot_src
<1>5. /\ E!CodingWindowInformation.first = esi
      /\ E!CodingWindowInformation.nss = ew_ss_nb
  BY <1>4 DEF E!CodingWindowInformation
<1>6. coefs \in [0 .. ew_size - 1 -> F]
  BY <1>2, FieldAssumption
<1>7. Header = RepairPacket(esi, ew_ss_nb, coefs, new_buf)
  BY <1>4, <1>5 DEF Header
<1>8. ASSUME removed = NULL
      PROVE  new_buf = [c \in Ids |-> IF c \in esi .. esi + ew_ss_nb - 1
                                      THEN coefs[c - esi] ELSE Zero]
  <2>1. /\ new_buf \in Vector
        /\ \A c \in Ids : new_buf[c] = IF c \in esi .. esi + ew_ss_nb - 1
                                       THEN cc_tab[c - esi] ELSE Zero
    BY <1>8 DEF ServerInv, RepairInHand
  <2>2. new_buf = [c \in Ids |-> new_buf[c]]
    BY <2>1 DEF Vector
  <2>3. ASSUME NEW c \in Ids, c \in esi .. esi + ew_ss_nb - 1
        PROVE  coefs[c - esi] = cc_tab[c - esi]
    <3>1. c - esi \in 0 .. ew_size - 1 /\ c - esi < ew_ss_nb
      BY <1>1, <1>2, <1>3, <2>3
    <3>2. QED
      BY <3>1
  <2> HIDE DEF coefs
  <2>4. QED
    BY <2>1, <2>2, <2>3
<1>9. ew_ss_nb \in 1 .. ew_size /\ esi + ew_ss_nb = Read /\ new_buf \in Vector
  BY <1>1, <1>2 DEF ServerInv
<1>10. \A k \in 0 .. ew_size - 1 : k >= ew_ss_nb => coefs[k] = Zero
  BY <1>1, <1>2
<1>11. esi + ew_ss_nb - 1 <= MaxId
  BY <1>3
<1> HIDE DEF esi, coefs
<1>12. QED
  BY <1>3, <1>6, <1>7, <1>8, <1>9, <1>10, <1>11

-------------------------------------------------------------------------------
(***************************************************************************)
(* The packets on their way.  A packet speaks only of symbols read before  *)
(* it was sent, and the source packet of a symbol is the first packet that *)
(* speaks of it, whether the window slid or not.                           *)
(***************************************************************************)
WellFormed ==
  {p \in [esi : Ids, nss : 1 .. ew_size, coefs : [0 .. ew_size - 1 -> F], data : Vector] :
     /\ p.esi + p.nss - 1 <= MaxId
     /\ \A k \in 0 .. ew_size - 1 : k >= p.nss => p.coefs[k] = Zero}

(* The payload is the combination that the header announces.               *)
Honest ==
  {p \in WellFormed :
     p.data = [c \in Ids |-> IF c \in p.esi .. p.esi + p.nss - 1
                             THEN p.coefs[c - p.esi] ELSE Zero]}

Sendable ==
  {OtiPacket} \union {SourcePacket(esi) : esi \in Ids}
    \union {RepairPacket(p.esi, p.nss, p.coefs, p.data) : p \in WellFormed}

(* What a server whose window never slid sends.                            *)
Packets ==
  {OtiPacket} \union {SourcePacket(esi) : esi \in Ids}
    \union {RepairPacket(p.esi, p.nss, p.coefs, p.data) : p \in Honest}

(* A packet with two coefficients has two in its window.                   *)
LEMMA TwoCoefficients ==
  ASSUME NEW p \in WellFormed,
         ~(Cardinality({k \in DOMAIN p.coefs : p.coefs[k] # Zero}) < 2)
  PROVE  \E c, d \in 0 .. p.nss - 1 : c # d /\ p.coefs[c] # Zero /\ p.coefs[d] # Zero
<1> DEFINE S == {k \in DOMAIN p.coefs : p.coefs[k] # Zero}
<1>1. /\ p.nss \in 1 .. ew_size /\ p.coefs \in [0 .. ew_size - 1 -> F]
      /\ \A k \in 0 .. ew_size - 1 : k >= p.nss => p.coefs[k] = Zero
  BY DEF WellFormed
<1>2. S \subseteq 0 .. p.nss - 1 /\ \A k \in S : p.coefs[k] # Zero
  BY <1>1, EwSizeAssumption
<1> HIDE DEF S
<1>3. \E c, d \in S : c # d
  <2>1. SUFFICES ASSUME \A c, d \in S : c = d PROVE FALSE
    OBVIOUS
  <2>2. S = {} \/ \E c : S = {c}
    BY <2>1
  <2>3. Cardinality(S) = 0 \/ Cardinality(S) = 1
    BY <2>2, FS_EmptySet, FS_Singleton
  <2>4. QED
    BY <2>3 DEF S
<1>4. QED
  BY <1>2, <1>3

(* The packet speaks of the symbol c.                                      *)
Touches(packet, c) ==
  \/ packet.kind = "source" /\ packet.esi = c
  \/ packet.kind = "repair" /\ c \in packet.esi .. packet.esi + packet.nss - 1

YoungerUnsent ==
  \A n \in DOMAIN network : \A c \in Ids : c >= Read => ~Touches(network[n], c)

InOrder ==
  \A m, n \in DOMAIN network : \A c \in Ids :
    m < n /\ network[n] = SourcePacket(c) => ~Touches(network[m], c)

(* The source packet of c has not been received, and may still be.         *)
ToCome(c) == c >= Read \/ \E n \in DOMAIN network : network[n] = SourcePacket(c)

(* The repair packet in hand is well formed, and honest until the window   *)
(* slid.                                                                   *)
LEMMA HeaderIsSendable ==
  ASSUME ServerInv, server_pc = "send", tot_src < NssSpan
  PROVE  /\ Header \in Sendable /\ (removed = NULL => Header \in Packets)
         /\ \A c : Header # SourcePacket(c)
         /\ \A c \in Ids : c >= Read => ~Touches(Header, c)
<1>1. PICK esi \in Ids, nss \in 1 .. ew_size, coefs \in [0 .. ew_size - 1 -> F] :
        /\ esi + nss - 1 <= MaxId /\ esi + nss = Read
        /\ \A k \in 0 .. ew_size - 1 : k >= nss => coefs[k] = Zero
        /\ Header = RepairPacket(esi, nss, coefs, new_buf) /\ new_buf \in Vector
        /\ removed = NULL => new_buf = [c \in Ids |-> IF c \in esi .. esi + nss - 1
                                                      THEN coefs[c - esi] ELSE Zero]
  BY HeaderIs
<1> DEFINE p == [esi |-> esi, nss |-> nss, coefs |-> coefs, data |-> new_buf]
<1>2. p \in WellFormed
  BY <1>1 DEF WellFormed
<1>3. removed = NULL => p \in Honest
  BY <1>1, <1>2 DEF Honest
<1>4. Header = RepairPacket(p.esi, p.nss, p.coefs, p.data)
  BY <1>1
<1> HIDE DEF p
<1>5. Header \in Sendable /\ (removed = NULL => Header \in Packets)
  BY <1>2, <1>3, <1>4 DEF Sendable, Packets
<1>6. /\ \A c : Touches(Header, c) => c \in esi .. esi + nss - 1
      /\ \A c : Header # SourcePacket(c)
  BY <1>1 DEF RepairPacket, SourcePacket, Touches
<1>7. \A c \in Ids : c >= Read => c \notin esi .. esi + nss - 1
  BY <1>1, MaxIdAssumption DEF Ids
<1>8. QED
  BY <1>5, <1>6, <1>7

(* What the server sends.                                                  *)
LEMMA ServeSends ==
  ASSUME ServerInv, ServerStep, network \in Seq(Packets), removed = NULL, tot_src < NssSpan
  PROVE  network' \in Seq(Packets)
<1>1. ASSUME NEW packet \in Packets, Send(packet) PROVE network' \in Seq(Packets)
  BY <1>1, AppendProperties DEF Send
<1>2. CASE Start
  BY <1>1, <1>2 DEF Start, Packets
<1>3. CASE SendSource
  <2>1. server_esi \in Ids
    BY <1>3, MaxIdAssumption DEF SendSource, ServerInv, ScheduleInv, tot_src, Ids
  <2>2. QED
    BY <1>1, <1>3, <2>1 DEF SendSource, Packets
<1>4. CASE SendRepair
  <2>1. server_pc = "send"
    BY <1>4 DEF SendRepair
  <2>2. QED
    BY <1>1, <1>4, <2>1, HeaderIsSendable DEF SendRepair
<1>5. CASE GenerateCoefs \/ BuildRepair \/ NextSource
  BY <1>5 DEF GenerateCoefs, BuildRepair, NextSource
<1>6. QED
  BY <1>2, <1>3, <1>4, <1>5 DEF ServerStep

LEMMA ReadIsNat == ASSUME ServerInv PROVE Read \in Nat
BY DEF ServerInv, ScheduleInv, Read

(* What the server sends speaks of nothing it has not read, and the first  *)
(* packet about a symbol is its source packet.                             *)
LEMMA ServeOrder ==
  ASSUME ServerInv, ServerStep, network \in Seq(Sendable), YoungerUnsent, InOrder,
         tot_src < NssSpan
  PROVE  /\ network' \in Seq(Sendable) /\ YoungerUnsent' /\ InOrder'
         /\ \A c \in Ids : ToCome(c)' => ToCome(c)
<1>1. server_pc' # "error" /\ Read \in Nat /\ Read' \in Nat
  <2>1. ServerInv'
    BY ServerInvNext
  <2>2. Read' \in Nat
    <3>1. server_esi' \in Nat
      BY <2>1 DEF ServerInv, ScheduleInv
    <3>2. Read' = server_esi' \/ Read' = server_esi' + 1
      BY Zenon DEF Read
    <3>3. QED
      BY <3>1, <3>2
  <2>3. QED
    BY <2>1, <2>2, ReadIsNat DEF ServerInv
<1>2. ASSUME network' = network, Read' >= Read
      PROVE  /\ network' \in Seq(Sendable) /\ YoungerUnsent' /\ InOrder'
             /\ \A c \in Ids : ToCome(c)' => ToCome(c)
  <2>1. \A c \in Ids : c >= Read' => c >= Read
    BY <1>1, <1>2, MaxIdAssumption DEF Ids
  <2>2. QED
    BY <1>2, <2>1 DEF YoungerUnsent, InOrder, ToCome
<1>3. ASSUME NEW packet \in Sendable, Send(packet), Read' >= Read,
             \A c \in Ids : c >= Read' => ~Touches(packet, c),
             \A c \in Ids : packet = SourcePacket(c) => c >= Read
      PROVE  /\ network' \in Seq(Sendable) /\ YoungerUnsent' /\ InOrder'
             /\ \A c \in Ids : ToCome(c)' => ToCome(c)
  <2>1. CASE network' = network
    BY <1>2, <1>3, <2>1
  <2>2. CASE network' = Append(network, packet)
    <3>1. /\ network' \in Seq(Sendable) /\ Len(network) \in Nat
          /\ DOMAIN network = 1 .. Len(network) /\ DOMAIN network' = 1 .. Len(network) + 1
          /\ \A n \in 1 .. Len(network) : network'[n] = network[n]
          /\ network'[Len(network) + 1] = packet
      BY <2>2, AppendProperties
    <3>2. \A n \in DOMAIN network' :
            \/ n \in DOMAIN network /\ network'[n] = network[n]
            \/ n = Len(network) + 1 /\ network'[n] = packet
      BY <3>1
    <3>3. \A c \in Ids : c >= Read' => c >= Read
      BY <1>1, <1>3, MaxIdAssumption DEF Ids
    <3>4. YoungerUnsent'
      BY <1>3, <3>2, <3>3 DEF YoungerUnsent
    <3>5. InOrder'
      <4>1. SUFFICES ASSUME NEW m \in DOMAIN network', NEW n \in DOMAIN network',
                            NEW c \in Ids, m < n, network'[n] = SourcePacket(c)
                     PROVE  ~Touches(network'[m], c)
        BY DEF InOrder
      <4>2. m \in DOMAIN network /\ network'[m] = network[m]
        BY <3>1, <4>1
      <4>3. CASE n \in DOMAIN network
        BY <3>1, <4>1, <4>2, <4>3 DEF InOrder
      <4>4. CASE n = Len(network) + 1
        BY <1>3, <3>1, <4>1, <4>2, <4>4 DEF YoungerUnsent
      <4>5. QED
        BY <3>2, <4>3, <4>4
    <3>6. \A c \in Ids : ToCome(c)' => ToCome(c)
      BY <1>3, <3>2, <3>3 DEF ToCome
    <3>7. QED
      BY <3>1, <3>4, <3>5, <3>6
  <2>3. QED
    BY <1>3, <2>1, <2>2 DEF Send
<1>4. CASE Start
  <2>1. OtiPacket \in Sendable /\ Send(OtiPacket) /\ Read' = Read
    BY <1>4 DEF Start, Sendable, Read
  <2>2. \A c : ~Touches(OtiPacket, c) /\ OtiPacket # SourcePacket(c)
    BY DEF OtiPacket, SourcePacket, Touches
  <2>3. QED
    BY <1>1, <1>3, <2>1, <2>2
<1>5. CASE SendSource
  <2>1. /\ server_esi \in Ids /\ Send(SourcePacket(server_esi))
        /\ Read = server_esi /\ Read' = server_esi + 1
    BY <1>5, MaxIdAssumption DEF SendSource, ServerInv, ScheduleInv, tot_src, Ids, Read
  <2>2. SourcePacket(server_esi) \in Sendable
    BY <2>1 DEF Sendable
  <2>3. \A c : /\ Touches(SourcePacket(server_esi), c) => c = server_esi
               /\ SourcePacket(server_esi) = SourcePacket(c) => c = server_esi
    BY DEF SourcePacket, Touches
  <2>4. /\ Read' >= Read
        /\ \A c \in Ids : c >= Read' => ~Touches(SourcePacket(server_esi), c)
        /\ \A c \in Ids : SourcePacket(server_esi) = SourcePacket(c) => c >= Read
    BY <1>1, <2>1, <2>3, MaxIdAssumption DEF Ids
  <2>5. QED
    BY <1>3, <2>1, <2>2, <2>4
<1>6. CASE SendRepair
  <2>1. /\ server_pc = "send" /\ Send(Header) /\ server_pc' = "repair"
        /\ UNCHANGED server_esi
    BY <1>1, <1>6 DEF SendRepair
  <2>2. /\ Header \in Sendable /\ \A c : Header # SourcePacket(c)
        /\ \A c \in Ids : c >= Read => ~Touches(Header, c)
    BY <2>1, HeaderIsSendable
  <2>3. Read' = Read
    BY <2>1 DEF Read
  <2>4. QED
    BY <1>1, <1>3, <2>1, <2>2, <2>3
<1>7. CASE GenerateCoefs \/ BuildRepair \/ NextSource
  <2>1. network' = network /\ Read' = Read
    BY <1>7 DEF GenerateCoefs, BuildRepair, NextSource, Read
  <2>2. QED
    BY <1>1, <1>2, <2>1
<1>8. QED
  BY <1>4, <1>5, <1>6, <1>7 DEF ServerStep

(* The packets that are left when the n-th is taken.                       *)
Without(s, n) == SubSeq(s, 1, n - 1) \o SubSeq(s, n + 1, Len(s))

(* A packet taken out of a sequence of packets leaves one.                 *)
LEMMA RemoveKeepsPackets ==
  ASSUME NEW T, NEW s \in Seq(T), NEW n \in DOMAIN s
  PROVE  s[n] \in T /\ Without(s, n) \in Seq(T)
<1>1. n \in 1 .. Len(s) /\ Len(s) \in Nat /\ \A m \in 1 .. Len(s) : s[m] \in T
  OBVIOUS
<1>2. SubSeq(s, 1, n - 1) \in Seq(T)
  BY <1>1, SubSeqProperties
<1>3. SubSeq(s, n + 1, Len(s)) \in Seq(T)
  BY <1>1, SubSeqProperties
<1>4. QED
  BY <1>1, <1>2, <1>3, ConcatProperties DEF Without

(* A packet taken out leaves the others in order; those behind the first   *)
(* one announce symbols of which it does not speak.                        *)
LEMMA ReceiveOrder ==
  ASSUME network \in Seq(Sendable), NEW n \in DOMAIN network,
         network' = Without(network, n), UNCHANGED Read, YoungerUnsent, InOrder
  PROVE  /\ network[n] \in Sendable /\ network' \in Seq(Sendable)
         /\ YoungerUnsent' /\ InOrder'
         /\ \A c \in Ids : ToCome(c)' => ToCome(c)
         /\ n = 1 => \A c \in Ids : ToCome(c)' => ~Touches(network[n], c)
<1> DEFINE was(k) == IF k < n THEN k ELSE k + 1
<1>1. network[n] \in Sendable /\ network' \in Seq(Sendable)
  BY RemoveKeepsPackets
<1>2. n \in 1 .. Len(network) /\ Len(network) \in Nat /\ DOMAIN network = 1 .. Len(network)
  OBVIOUS
<1>3. \A k \in DOMAIN network' : was(k) \in DOMAIN network /\ network'[k] = network[was(k)]
  <2>1. /\ SubSeq(network, 1, n - 1) \in Seq(Sendable)
        /\ Len(SubSeq(network, 1, n - 1)) = n - 1
        /\ \A k \in 1 .. n - 1 : SubSeq(network, 1, n - 1)[k] = network[k]
    BY <1>2, SubSeqProperties
  <2>2. /\ SubSeq(network, n + 1, Len(network)) \in Seq(Sendable)
        /\ Len(SubSeq(network, n + 1, Len(network))) = Len(network) - n
        /\ \A k \in 1 .. Len(network) - n :
             SubSeq(network, n + 1, Len(network))[k] = network[n + k]
    BY <1>2, SubSeqProperties
  <2>3. network' = SubSeq(network, 1, n - 1) \o SubSeq(network, n + 1, Len(network))
    BY DEF Without
  <2>4. /\ DOMAIN network' = 1 .. Len(network) - 1
        /\ \A k \in 1 .. Len(network) - 1 :
             network'[k] = IF k <= n - 1 THEN SubSeq(network, 1, n - 1)[k]
                           ELSE SubSeq(network, n + 1, Len(network))[k - (n - 1)]
    <3> DEFINE left == SubSeq(network, 1, n - 1)
               right == SubSeq(network, n + 1, Len(network))
    <3>1. /\ left \in Seq(Sendable) /\ right \in Seq(Sendable) /\ network' = left \o right
          /\ Len(left) = n - 1 /\ Len(right) = Len(network) - n
      BY <2>1, <2>2, <2>3
    <3> HIDE DEF left, right
    <3>2. Len(left) + Len(right) = Len(network) - 1
      BY <1>2, <3>1
    <3>3. /\ DOMAIN network' = 1 .. Len(left) + Len(right)
          /\ \A k \in 1 .. Len(left) + Len(right) :
               network'[k] = IF k <= Len(left) THEN left[k] ELSE right[k - Len(left)]
      BY <3>1, ConcatProperties
    <3>4. QED
      BY <3>1, <3>2, <3>3 DEF left, right
  <2>5. SUFFICES ASSUME NEW k \in 1 .. Len(network) - 1
                 PROVE  was(k) \in 1 .. Len(network) /\ network'[k] = network[was(k)]
    BY <1>2, <2>4
  <2>6. CASE k < n
    <3>1. k \in 1 .. n - 1 /\ k <= n - 1 /\ was(k) = k
      BY <1>2, <2>6
    <3>2. QED
      BY <1>2, <2>1, <2>4, <3>1
  <2>7. CASE ~(k < n)
    <3>1. /\ k - (n - 1) \in 1 .. Len(network) - n /\ ~(k <= n - 1)
          /\ n + (k - (n - 1)) = k + 1 /\ was(k) = k + 1
      BY <1>2, <2>7
    <3>2. network'[k] = network[k + 1]
      BY <2>2, <2>4, <3>1
    <3>3. QED
      BY <1>2, <3>1, <3>2
  <2>8. QED
    BY <2>6, <2>7
<1>4. DOMAIN network' \subseteq Nat \ {0} /\ DOMAIN network \subseteq Nat
  BY <1>1, <1>2
<1>5. \A k, m \in DOMAIN network' : m < k => was(m) < was(k)
  BY <1>2, <1>4
<1>6. YoungerUnsent'
  BY <1>3 DEF YoungerUnsent
<1>7. InOrder'
  <2>1. SUFFICES ASSUME NEW m \in DOMAIN network', NEW k \in DOMAIN network',
                        NEW c \in Ids, m < k, network'[k] = SourcePacket(c)
                 PROVE  ~Touches(network'[m], c)
    BY DEF InOrder
  <2>2. was(m) < was(k)
    BY <1>5, <2>1
  <2> HIDE DEF was
  <2>3. QED
    BY <1>3, <2>1, <2>2 DEF InOrder
<1>8. \A c \in Ids : ToCome(c)' => ToCome(c)
  <2> HIDE DEF was
  <2>1. QED
    BY <1>3 DEF ToCome
<1>9. ASSUME n = 1, NEW c \in Ids, ToCome(c)' PROVE ~Touches(network[n], c)
  <2>1. CASE c >= Read
    BY <2>1 DEF YoungerUnsent
  <2>2. ASSUME NEW k \in DOMAIN network', network'[k] = SourcePacket(c)
        PROVE  ~Touches(network[n], c)
    <3>1. n < was(k)
      BY <1>4, <1>9
    <3> HIDE DEF was
    <3>2. QED
      BY <1>3, <2>2, <3>1 DEF InOrder
  <2>3. QED
    BY <1>9, <2>1, <2>2 DEF ToCome
<1> HIDE DEF was
<1>10. QED
  BY <1>1, <1>6, <1>7, <1>8, <1>9

===============================================================================
