----------------------- MODULE CodingCoefficientsProofs -----------------------
(***************************************************************************)
(* Proofs about the generator of coding coefficients, for every set of     *)
(* keys, every density and every size of the table.  Nothing is assumed of *)
(* the words the PRNG draws but that they are the same for the same key.   *)
(***************************************************************************)
EXTENDS CodingCoefficients, FiniteSetTheorems, WellFoundedInduction, TLAPS

(* A nonempty set of natural numbers has a smallest element.               *)
LEMMA LeastNatural ==
  ASSUME NEW S \in SUBSET Nat, S # {}
  PROVE  \E x \in S : \A y \in S : x <= y
<1> DEFINE Down == {0 .. x : x \in S}
<1>1. Down \subseteq FiniteSubsetsOf(Nat) /\ Down # {}
  <2>1. ASSUME NEW x \in S PROVE 0 .. x \in SUBSET Nat /\ IsFiniteSet(0 .. x)
    BY FS_Interval
  <2>2. QED
    BY <2>1 DEF FiniteSubsetsOf
<1>2. PICK D \in Down : \A E \in Down : ~(<<E, D>> \in StrictSubsetOrdering(Nat))
  BY <1>1, FS_StrictSubsetOrderingWellFounded, WFMin
<1>3. PICK x \in S : D = 0 .. x
  OBVIOUS
<1>4. ASSUME NEW y \in S, y < x PROVE FALSE
  <2>1. 0 .. y \subseteq 0 .. x /\ 0 .. y # 0 .. x /\ 0 .. x \subseteq Nat
    <3>1. x \in 0 .. x /\ x \notin 0 .. y
      BY <1>4
    <3>2. QED
      BY <1>4, <3>1
  <2>2. <<0 .. y, 0 .. x>> \in StrictSubsetOrdering(Nat)
    BY <2>1 DEF StrictSubsetOrdering
  <2>3. QED
    BY <1>2, <1>3, <2>2
<1>5. QED
  BY <1>4

-------------------------------------------------------------------------------
(***************************************************************************)
(* What the packet carries.                                                *)
(***************************************************************************)
LEMMA Unpack ==
  ASSUME NEW dt \in 0 .. 15, NEW nss \in Nat
  PROVE  LET bits == 2^NssBits
             both == dt * bits + (nss % bits)
         IN  /\ both \in 0 .. 2^16 - 1
             /\ both \div bits = dt
             /\ both % bits = nss % bits
             /\ nss % bits \in 0 .. nss
<1>1. \E k \in {2, 4, 8, 16, 32, 64, 128, 256, 512, 1024, 2048, 4096} : 2^NssBits = k
  <2>1. NssBits \in {1, 2, 3, 4, 5, 6, 7, 8, 9, 10, 11, 12}
    BY NssBitsAssumption
  <2>2. /\ 2^1 = 2 /\ 2^2 = 4 /\ 2^3 = 8 /\ 2^4 = 16 /\ 2^5 = 32 /\ 2^6 = 64
        /\ 2^7 = 128 /\ 2^8 = 256 /\ 2^9 = 512 /\ 2^10 = 1024 /\ 2^11 = 2048
        /\ 2^12 = 4096
    OBVIOUS
  <2>3. /\ NssBits = 1 => 2^NssBits = 2^1
        /\ NssBits = 2 => 2^NssBits = 2^2
        /\ NssBits = 3 => 2^NssBits = 2^3
        /\ NssBits = 4 => 2^NssBits = 2^4
        /\ NssBits = 5 => 2^NssBits = 2^5
        /\ NssBits = 6 => 2^NssBits = 2^6
        /\ NssBits = 7 => 2^NssBits = 2^7
        /\ NssBits = 8 => 2^NssBits = 2^8
        /\ NssBits = 9 => 2^NssBits = 2^9
        /\ NssBits = 10 => 2^NssBits = 2^10
        /\ NssBits = 11 => 2^NssBits = 2^11
        /\ NssBits = 12 => 2^NssBits = 2^12
    BY Zenon
  <2>4. QED
    BY <2>1, <2>2, <2>3
<1>2. ASSUME NEW k \in {2, 4, 8, 16, 32, 64, 128, 256, 512, 1024, 2048, 4096}
      PROVE  /\ dt * k + (nss % k) \in 0 .. 2^16 - 1
             /\ (dt * k + (nss % k)) \div k = dt
             /\ (dt * k + (nss % k)) % k = nss % k
             /\ nss % k \in 0 .. nss
  OBVIOUS
<1>3. QED
  BY <1>1, <1>2

(* The arguments of the three calls are among Calls.                       *)
Carries(p) == Density(p) \in Densities /\ Nss(p) \in Sizes

LEMMA SentPacket ==
  ASSUME NEW idx \in Keys, NEW dt \in Densities, NEW nss \in Windows
  PROVE  LET p == [repair_key |-> idx % 2^16,
                   dt_nss |-> dt * 2^NssBits + (nss % 2^NssBits)]
         IN  /\ p \in [repair_key : 0 .. 2^16 - 1, dt_nss : 0 .. 2^16 - 1]
             /\ Carries(p) /\ Density(p) = dt /\ Nss(p) <= nss
<1>1. dt \in 0 .. 15 /\ nss \in Nat /\ nss <= MaxWindow /\ MaxWindow \in Nat
  BY DensitiesAssumption, MaxWindowAssumption
<1>2. idx % 2^16 \in 0 .. 2^16 - 1
  <2>1. idx \in Nat
    BY KeysAssumption
  <2>2. QED
    BY <2>1
<1> DEFINE bits == 2^NssBits
           both == dt * bits + (nss % bits)
           p == [repair_key |-> idx % 2^16, dt_nss |-> both]
<1>3. /\ both \in 0 .. 2^16 - 1 /\ both \div bits = dt
      /\ both % bits = nss % bits /\ nss % bits \in 0 .. nss
  BY <1>1, Unpack
<1>4. p.dt_nss = both /\ p \in [repair_key : 0 .. 2^16 - 1, dt_nss : 0 .. 2^16 - 1]
  <2> HIDE DEF both
  <2>1. QED
    BY <1>2, <1>3
<1>5. Density(p) = dt /\ Nss(p) = nss % bits
  BY <1>3, <1>4, Zenon DEF Density, Nss
<1>6. Nss(p) <= nss /\ Nss(p) \in Sizes
  <2>1. \A n \in 0 .. nss : n <= nss /\ n \in 0 .. MaxWindow
    BY <1>1
  <2> HIDE DEF p, bits
  <2>2. QED
    BY <1>3, <1>5, <2>1 DEF Sizes
<1> HIDE DEF both
<1>7. QED
  BY <1>4, <1>5, <1>6, Zenon DEF Carries, both

-------------------------------------------------------------------------------
(***************************************************************************)
(* The types.  What the generator draws depends on the field and on the    *)
(* density of the call, and a packet carries arguments the generator takes. *)
(***************************************************************************)
CallKind ==
  /\ pc = "bit" => call.m = 1 /\ (call.dt = 15 => entry = call.cc_nb)
  /\ pc \in {"density", "value"} => call.m = 8
  /\ pc = "density" => call.dt # 15

TypeInv == TypeOK /\ CallKind /\ (packet # NULL => Carries(packet))

LEMMA BytesInUse ==
  /\ Zero \in Bytes /\ One \in Bytes
  /\ \A n : tinymt32_rand256(n) \in Bytes
BY DEF Zero, One, Bytes, Positions, tinymt32_rand256

LEMMA FirstDrawType ==
  ASSUME NEW c \in Calls, c.m \in {1, 8}
  PROVE  /\ FirstDraw(c) \in {"bit", "density", "value"}
         /\ FirstDraw(c) = "bit" <=> c.m = 1
         /\ FirstDraw(c) = "density" => c.dt # 15
BY DEF FirstDraw, Calls

(* A call that is refused changes nothing.                                 *)
LEMMA GenerateTypes ==
  ASSUME TypeOK, CallKind, NEW c \in Calls, Generate(c)
  PROVE  /\ cc_tab' \in [Callers -> [Entries -> Bytes]]
         /\ call' \in Calls
         /\ pc' \in {"idle", "bit", "density", "value"}
         /\ draws' \in 0 .. MaxDraws
         /\ entry' \in 0 .. call'.cc_nb
         /\ CallKind'
<1>1. c.cc_nb \in Nat /\ c.dt \in Int /\ c.caller \in Callers /\ c.m \in {1, 2, 8}
  <2>1. /\ c.cc_nb \in 0 .. MaxWindow /\ c.dt \in Densities \union {BadDensity}
        /\ c.caller \in Callers /\ c.m \in {1, 2, 8}
    BY DEF Calls, Sizes
  <2>2. \A dt \in Densities \union {BadDensity} : dt \in Int
    BY DensitiesAssumption
  <2>3. \A n \in 0 .. MaxWindow : n \in Nat
    BY MaxWindowAssumption
  <2>4. QED
    BY <2>1, <2>2, <2>3, Zenon
<1>2. CASE c.dt > 15 \/ c.m \notin {1, 8}
  <2>1. UNCHANGED <<cc_tab, call, pc, draws, entry>>
    BY <1>2 DEF Generate
  <2>2. CallKind'
    BY <2>1 DEF CallKind
  <2>3. QED
    BY <2>1, <2>2 DEF TypeOK
<1>3. CASE ~(c.dt > 15 \/ c.m \notin {1, 8}) /\ c.m = 1 /\ c.dt = 15
  <2>1. cc_tab' \in [Callers -> [Entries -> Bytes]]
    <3>1. cc_tab' = [cc_tab EXCEPT ![c.caller] =
                       [k \in Entries |-> IF k < c.cc_nb THEN One ELSE @[k]]]
      BY <1>3 DEF Generate
    <3>2. cc_tab[c.caller] \in [Entries -> Bytes] /\ cc_tab \in [Callers -> [Entries -> Bytes]]
      BY <1>1 DEF TypeOK
    <3>3. [k \in Entries |-> IF k < c.cc_nb THEN One ELSE cc_tab[c.caller][k]]
            \in [Entries -> Bytes]
      BY <3>2, BytesInUse
    <3>4. QED
      BY <3>1, <3>2, <3>3
  <2>2. call' = c /\ pc' = "bit" /\ entry' = c.cc_nb /\ draws' = draws
    BY <1>3 DEF Generate
  <2>3. CallKind'
    BY <1>3, <2>2 DEF CallKind
  <2>4. draws' \in 0 .. MaxDraws
    BY <2>2 DEF TypeOK
  <2>5. QED
    BY <1>1, <2>1, <2>2, <2>3, <2>4
<1>4. CASE ~(c.dt > 15 \/ c.m \notin {1, 8}) /\ ~(c.m = 1 /\ c.dt = 15)
  <2>1. cc_tab' = cc_tab /\ call' = c /\ pc' = FirstDraw(c) /\ entry' = 0 /\ draws' = 0
    BY <1>4 DEF Generate
  <2>2. /\ pc' \in {"bit", "density", "value"}
        /\ pc' = "bit" <=> c.m = 1
        /\ pc' = "density" => c.dt # 15
    BY <1>4, <2>1, FirstDrawType
  <2>3. CallKind'
    BY <1>4, <2>1, <2>2 DEF CallKind
  <2>4. cc_tab' \in [Callers -> [Entries -> Bytes]]
    BY <2>1 DEF TypeOK
  <2>5. QED
    BY <1>1, <2>1, <2>2, <2>3, <2>4, MaxDrawsAssumption
<1>5. QED
  BY <1>2, <1>3, <1>4

LEMMA DecoderCall ==
  ASSUME TypeInv, packet # NULL
  PROVE  [caller |-> "decoder", repair_key |-> packet.repair_key,
          cc_nb |-> Nss(packet), dt |-> Density(packet), m |-> 8] \in Calls
BY DEF TypeInv, TypeOK, Carries, Calls, Callers

(* The three calls, and what each says of the packet.                      *)
LEMMA EncoderCall ==
  ASSUME NEW idx \in Keys, NEW dt \in Densities, NEW nss \in Windows,
         EncoderGenerate(idx, dt, nss)
  PROVE  \E c \in Calls :
           /\ Generate(c)
           /\ c.caller = "encoder" /\ c.m = 8 /\ c.dt = dt /\ dt \in 0 .. 15
           /\ packet' \in [repair_key : 0 .. 2^16 - 1, dt_nss : 0 .. 2^16 - 1]
           /\ Carries(packet') /\ received' = FALSE
           /\ c.repair_key = packet'.repair_key /\ c.dt = Density(packet')
           /\ Nss(packet') <= c.cc_nb
<1> DEFINE c == [caller |-> "encoder", repair_key |-> RepairKey(idx),
                 cc_nb |-> nss, dt |-> dt, m |-> 8]
           p == [repair_key |-> idx % 2^16,
                 dt_nss |-> dt * 2^NssBits + (nss % 2^NssBits)]
<1>1. /\ p \in [repair_key : 0 .. 2^16 - 1, dt_nss : 0 .. 2^16 - 1]
      /\ Carries(p) /\ Density(p) = dt /\ Nss(p) <= nss
  BY SentPacket
<1>2. idx % 2^16 \in 0 .. 2^16 - 1 /\ dt \in 0 .. 15
  BY KeysAssumption, DensitiesAssumption
<1>3. c \in Calls
  BY <1>2, MaxWindowAssumption DEF Calls, Callers, RepairKey, Sizes
<1>4. Generate(c) /\ packet' = p /\ received' = FALSE
  BY DEF EncoderGenerate
<1>5. c.repair_key = p.repair_key /\ c.caller = "encoder" /\ c.m = 8 /\ c.dt = dt /\ c.cc_nb = nss
  BY DEF RepairKey
<1> HIDE DEF c, p
<1>6. QED
  BY <1>1, <1>2, <1>3, <1>4, <1>5

LEMMA ApplicationCall ==
  ASSUME NEW key \in Seeds, NEW nb \in Windows,
         NEW dt \in Densities \union {BadDensity}, NEW m \in {1, 2, 8},
         ApplicationGenerate(key, nb, dt, m)
  PROVE  \E c \in Calls : Generate(c) /\ c.caller = "application"
                         /\ packet' = packet /\ received' = received
<1> DEFINE c == [caller |-> "application", repair_key |-> key,
                 cc_nb |-> nb, dt |-> dt, m |-> m]
<1>1. key \in 0 .. 2^16 - 1
  BY KeysAssumption DEF Seeds
<1>2. c \in Calls
  BY <1>1, MaxWindowAssumption DEF Calls, Callers, Sizes
<1>3. Generate(c) /\ packet' = packet /\ received' = received
  BY DEF ApplicationGenerate
<1>4. QED
  BY <1>2, <1>3

LEMMA GeneratedCalls ==
  ASSUME TypeInv, Next
  PROVE  Draw \/ \E c \in Calls : Generate(c)
BY EncoderCall, DecoderCall, ApplicationCall DEF Next, DecoderGenerate

(* An entry is only filled in while it is one of the window's.             *)
LEMMA EntryType ==
  ASSUME TypeOK, InWindow
  PROVE  /\ entry \in Entries /\ entry \in Nat /\ entry + 1 \in 0 .. call.cc_nb
         /\ call.caller \in Callers /\ call.cc_nb \in Nat
         /\ \A v \in Bytes :
              [cc_tab EXCEPT ![call.caller][entry] = v] \in [Callers -> [Entries -> Bytes]]
<1>1. /\ call.cc_nb \in 0 .. MaxWindow /\ call.caller \in Callers
      /\ entry \in 0 .. call.cc_nb /\ entry < call.cc_nb /\ MaxWindow \in Nat
  BY MaxWindowAssumption DEF TypeOK, InWindow, Calls, Sizes
<1>2. /\ entry \in Entries /\ entry \in Nat /\ entry + 1 \in 0 .. call.cc_nb
      /\ call.caller \in Callers /\ call.cc_nb \in Nat
  BY <1>1 DEF Entries
<1>3. QED
  BY <1>2 DEF TypeOK

LEMMA AdvanceType ==
  ASSUME TypeOK, Advance
  PROVE  draws' \in 0 .. MaxDraws /\ draws' = draws + 1 /\ draws \in Nat
<1>1. draws \in 0 .. MaxDraws
  BY DEF TypeOK
<1>2. QED
  BY <1>1, MaxDrawsAssumption DEF Advance

LEMMA TypeStep ==
  ASSUME TypeInv, [Next]_vars
  PROVE  TypeInv'
<1>1. ASSUME NEW idx \in Keys, NEW dt \in Densities, NEW nss \in Windows,
             EncoderGenerate(idx, dt, nss)
      PROVE  TypeInv'
  <2>1. PICK c \in Calls :
          /\ Generate(c) /\ received' = FALSE /\ Carries(packet')
          /\ packet' \in [repair_key : 0 .. 2^16 - 1, dt_nss : 0 .. 2^16 - 1]
    BY <1>1, EncoderCall
  <2>2. QED
    BY <2>1, GenerateTypes DEF TypeInv, TypeOK
<1>2. CASE DecoderGenerate
  <2> DEFINE c == [caller |-> "decoder", repair_key |-> packet.repair_key,
                   cc_nb |-> Nss(packet), dt |-> Density(packet), m |-> 8]
  <2>1. packet # NULL /\ Generate(c) /\ packet' = packet /\ received' = TRUE
    BY <1>2 DEF DecoderGenerate
  <2>2. c \in Calls
    BY <2>1, DecoderCall
  <2> HIDE DEF c
  <2>3. QED
    BY <2>1, <2>2, GenerateTypes DEF TypeInv, TypeOK
<1>3. ASSUME NEW key \in Seeds, NEW nb \in Windows,
             NEW dt \in Densities \union {BadDensity}, NEW m \in {1, 2, 8},
             ApplicationGenerate(key, nb, dt, m)
      PROVE  TypeInv'
  <2>1. PICK c \in Calls : Generate(c) /\ packet' = packet /\ received' = received
    BY <1>3, ApplicationCall
  <2>2. QED
    BY <2>1, GenerateTypes DEF TypeInv, TypeOK
<1>4. CASE DrawBit /\ UNCHANGED <<packet, received>>
  <2>1. \E v \in Bytes : Fill(v)
    BY <1>4, BytesInUse DEF DrawBit
  <2>2. cc_tab' \in [Callers -> [Entries -> Bytes]]
    BY <1>4, <2>1, EntryType DEF DrawBit, Fill, TypeInv
  <2>3. draws' \in 0 .. MaxDraws
    BY <1>4, AdvanceType DEF DrawBit, TypeInv
  <2>4. entry' \in 0 .. call.cc_nb /\ entry # call.cc_nb
    BY <1>4, EntryType DEF DrawBit, TypeInv, InWindow
  <2>5. QED
    BY <1>4, <2>2, <2>3, <2>4 DEF DrawBit, TypeInv, TypeOK, CallKind
<1>5. CASE DrawDensity /\ UNCHANGED <<packet, received>>
  <2>1. cc_tab' \in [Callers -> [Entries -> Bytes]] /\ entry' \in 0 .. call.cc_nb
    BY <1>5, EntryType, BytesInUse DEF DrawDensity, Fill, TypeInv, TypeOK
  <2>2. draws' \in 0 .. MaxDraws
    BY <1>5, AdvanceType DEF DrawDensity, TypeInv
  <2>3. pc = "density" /\ pc' \in {"density", "value"} /\ call' = call
        /\ packet' = packet /\ received' = received
    BY <1>5 DEF DrawDensity
  <2>4. QED
    BY <2>1, <2>2, <2>3 DEF TypeInv, TypeOK, CallKind
<1>6. CASE DrawValue /\ UNCHANGED <<packet, received>>
  <2>1. pc = "value" /\ call' = call /\ packet' = packet /\ received' = received
    BY <1>6 DEF DrawValue
  <2>2. cc_tab' \in [Callers -> [Entries -> Bytes]]
    BY <1>6, EntryType, BytesInUse DEF DrawValue, Fill, TypeInv
  <2>3. draws' \in 0 .. MaxDraws
    BY <1>6, AdvanceType DEF DrawValue, TypeInv
  <2>4. \/ entry' = entry /\ pc' = pc
        \/ entry' = entry + 1 /\ pc' = FirstDraw(call)
    BY <1>6 DEF DrawValue
  <2>5. entry' \in 0 .. call.cc_nb
    BY <1>6, <2>4, EntryType DEF DrawValue, TypeInv, TypeOK
  <2>6. call.m = 8 /\ call \in Calls
    BY <2>1 DEF TypeInv, CallKind, TypeOK
  <2>7. /\ pc' \in {"density", "value"}
        /\ pc' = "density" => call.dt # 15
    BY <2>1, <2>4, <2>6, FirstDrawType
  <2>8. QED
    BY <2>1, <2>2, <2>3, <2>5, <2>6, <2>7 DEF TypeInv, TypeOK, CallKind
<1>7. CASE Return /\ UNCHANGED <<packet, received>>
  <2>1. IdleCall \in Calls /\ IdleCall.cc_nb = 0
    BY MaxWindowAssumption DEF IdleCall, Calls, Callers, Sizes
  <2>2. cc_tab' \in [Callers -> [Entries -> Bytes]]
    <3>1. NoCoefficients \in [Entries -> Bytes] /\ cc_tab \in [Callers -> [Entries -> Bytes]]
      BY BytesInUse DEF NoCoefficients, TypeInv, TypeOK
    <3>2. cc_tab' = [cc_tab EXCEPT !["application"] = NoCoefficients]
      BY <1>7 DEF Return
    <3>3. QED
      BY <3>1, <3>2 DEF Callers
  <2>3. pc' = "idle" /\ call' = IdleCall /\ draws' = 0 /\ entry' = 0
    BY <1>7 DEF Return
  <2>4. QED
    <3>1. CallKind'
      BY <2>3 DEF CallKind
    <3>2. entry' \in 0 .. call'.cc_nb /\ draws' \in 0 .. MaxDraws
      BY <2>1, <2>3, MaxDrawsAssumption
    <3>3. packet' = packet /\ received' = received
      BY <1>7
    <3>4. QED
      BY <2>1, <2>2, <2>3, <3>1, <3>2, <3>3 DEF TypeInv, TypeOK
<1>8. CASE UNCHANGED vars
  BY <1>8 DEF vars, TypeInv, TypeOK, CallKind
<1>9. QED
  BY <1>1, <1>2, <1>3, <1>4, <1>5, <1>6, <1>7, <1>8 DEF Next, Draw

LEMMA InitTypes ==
  ASSUME Init
  PROVE  TypeInv
<1>1. IdleCall \in Calls /\ IdleCall.cc_nb = 0
  BY MaxWindowAssumption DEF IdleCall, Calls, Callers, Sizes
<1>2. cc_tab \in [Callers -> [Entries -> Bytes]]
  BY BytesInUse DEF Init, NoCoefficients
<1>3. CallKind /\ draws \in 0 .. MaxDraws /\ entry \in 0 .. call.cc_nb
  BY <1>1, MaxDrawsAssumption DEF Init, CallKind
<1>4. QED
  BY <1>1, <1>2, <1>3 DEF Init, TypeInv, TypeOK

(* The table is never written past its end, nor past the window, whatever  *)
(* the caller asks for; and the decoder never passes arguments the         *)
(* generator would refuse.                                                 *)
THEOREM TypeInvariance == Spec => []TypeOK
<1>1. Init => TypeInv
  BY InitTypes
<1>2. TypeInv /\ [Next]_vars => TypeInv'
  BY TypeStep
<1>3. TypeInv => TypeOK
  BY DEF TypeInv
<1>4. QED
  BY <1>1, <1>2, <1>3, PTL DEF Spec

-------------------------------------------------------------------------------
(***************************************************************************)
(* Full density: the entries filled in so far are not zero.  A zero stays  *)
(* in the table only at the entry under way, which is drawn again.         *)
(***************************************************************************)
NonzeroSoFar ==
  pc # "idle" /\ call.dt = 15 =>
    \A k \in 0 .. entry - 1 : cc_tab[call.caller][k] \in Bytes \ {Zero}

(* A draw writes one entry, of the table of the call under way.            *)
LEMMA FillOthers ==
  ASSUME TypeOK, InWindow, NEW v \in Bytes, Fill(v)
  PROVE  /\ cc_tab'[call.caller][entry] = v
         /\ \A c \in Callers, k \in Entries :
              c # call.caller \/ k # entry => cc_tab'[c][k] = cc_tab[c][k]
<1>1. cc_tab \in [Callers -> [Entries -> Bytes]] /\ call.caller \in Callers /\ entry \in Entries
  BY EntryType DEF TypeOK
<1>2. cc_tab' = [cc_tab EXCEPT ![call.caller][entry] = v]
  BY DEF Fill
<1>3. QED
  BY <1>1, <1>2

(* The indices below the entry under way are indices of the table.         *)
LEMMA BelowEntry ==
  ASSUME TypeOK
  PROVE  /\ entry \in Nat /\ call.caller \in Callers
         /\ \A k \in 0 .. entry - 1 : k \in Entries /\ k < entry
<1>1. entry \in 0 .. call.cc_nb /\ call.cc_nb \in 0 .. MaxWindow /\ call.caller \in Callers
  BY DEF TypeOK, Calls, Sizes
<1>2. QED
  BY <1>1, MaxWindowAssumption DEF Entries

LEMMA GenerateNonzero ==
  ASSUME TypeOK, NEW c \in Calls, Generate(c)
  PROVE  NonzeroSoFar'
<1>1. c.cc_nb \in 0 .. MaxWindow /\ c.caller \in Callers /\ pc = "idle"
  BY DEF Calls, Sizes, Generate
<1>2. CASE c.dt > 15 \/ c.m \notin {1, 8}
  BY <1>1, <1>2 DEF Generate, NonzeroSoFar
<1>3. CASE ~(c.dt > 15 \/ c.m \notin {1, 8}) /\ c.m = 1 /\ c.dt = 15
  <2>1. /\ cc_tab' = [cc_tab EXCEPT ![c.caller] =
                        [k \in Entries |-> IF k < c.cc_nb THEN One ELSE @[k]]]
        /\ call' = c /\ entry' = c.cc_nb
    BY <1>3 DEF Generate
  <2>2. \A k \in 0 .. c.cc_nb - 1 : k \in Entries /\ k < c.cc_nb
    BY <1>1, MaxWindowAssumption DEF Entries
  <2>3. \A k \in Entries : k < c.cc_nb => cc_tab'[c.caller][k] = One
    BY <1>1, <2>1 DEF TypeOK
  <2>4. One \in Bytes \ {Zero}
    BY DEF One, Zero, Bytes, Positions
  <2>5. QED
    BY <2>1, <2>2, <2>3, <2>4 DEF NonzeroSoFar
<1>4. CASE ~(c.dt > 15 \/ c.m \notin {1, 8}) /\ ~(c.m = 1 /\ c.dt = 15)
  <2>1. entry' = 0
    BY <1>4 DEF Generate
  <2>2. QED
    BY <2>1 DEF NonzeroSoFar
<1>5. QED
  BY <1>2, <1>3, <1>4

LEMMA NonzeroStep ==
  ASSUME TypeInv, NonzeroSoFar, [Next]_vars
  PROVE  NonzeroSoFar'
<1>1. ASSUME NEW c \in Calls, Generate(c) PROVE NonzeroSoFar'
  BY <1>1, GenerateNonzero DEF TypeInv
<1>2. CASE (DrawBit \/ DrawDensity) /\ UNCHANGED <<packet, received>>
  <2>1. pc \in {"bit", "density"} /\ call' = call /\ entry < call.cc_nb
    BY <1>2 DEF DrawBit, DrawDensity, InWindow
  <2>2. entry # call.cc_nb
    BY <1>2, <2>1, EntryType DEF DrawBit, DrawDensity, TypeInv
  <2>3. call.dt # 15
    BY <2>1, <2>2 DEF TypeInv, CallKind
  <2>4. QED
    BY <2>1, <2>3 DEF NonzeroSoFar
<1>3. CASE DrawValue /\ UNCHANGED <<packet, received>>
  <2>1. PICK v \in Bytes :
          /\ Fill(v)
          /\ IF Kept(v) THEN entry' = entry + 1 ELSE entry' = entry
    BY <1>3, BytesInUse DEF DrawValue
  <2>2. pc = "value" /\ call' = call /\ InWindow /\ TypeOK
    BY <1>3 DEF DrawValue, TypeInv
  <2>3. /\ entry \in Nat /\ call.caller \in Callers /\ entry \in Entries
        /\ \A k \in 0 .. entry - 1 : k \in Entries /\ k < entry
    BY <2>2, BelowEntry, EntryType
  <2>4. SUFFICES ASSUME call.dt = 15, NEW k \in 0 .. entry' - 1
                 PROVE  cc_tab'[call.caller][k] \in Bytes \ {Zero}
    BY <2>2 DEF NonzeroSoFar
  <2>5. CASE k \in 0 .. entry - 1
    <3>1. cc_tab'[call.caller][k] = cc_tab[call.caller][k]
      BY <2>1, <2>2, <2>3, <2>5, FillOthers
    <3>2. QED
      BY <2>2, <2>4, <2>5, <3>1 DEF NonzeroSoFar
  <2>6. CASE k \notin 0 .. entry - 1
    <3>1. Kept(v) /\ k = entry
      BY <2>1, <2>3, <2>4, <2>6
    <3>2. cc_tab'[call.caller][entry] = v
      BY <2>1, <2>2, FillOthers
    <3>3. QED
      BY <3>1, <3>2 DEF Kept
  <2>7. QED
    BY <2>5, <2>6
<1>4. CASE Return /\ UNCHANGED <<packet, received>>
  BY <1>4 DEF Return, NonzeroSoFar
<1>5. CASE UNCHANGED vars
  BY <1>5 DEF vars, NonzeroSoFar
<1>6. Next => \/ \E c \in Calls : Generate(c)
              \/ Draw
  BY GeneratedCalls
<1>7. QED
  BY <1>1, <1>2, <1>3, <1>4, <1>5, <1>6 DEF Draw

(* Every coefficient drawn at full density can be divided by.              *)
THEOREM FullDensity == Spec => []FullDensityInvertible
<1>1. Init => TypeInv /\ NonzeroSoFar
  BY InitTypes DEF Init, NonzeroSoFar
<1>2. TypeInv /\ NonzeroSoFar /\ [Next]_vars => TypeInv' /\ NonzeroSoFar'
  BY TypeStep, NonzeroStep
<1>3. NonzeroSoFar => FullDensityInvertible
  <2>1. {0, 6} \in Bytes
    BY DEF Bytes, Positions
  <2>2. \A a \in Bytes \ {Zero} : gf256_div(gf256_mul(a, {0, 6}), a) = {0, 6}
    BY <2>1, DivisionAssumption
  <2>3. QED
    BY <2>2 DEF NonzeroSoFar, FullDensityInvertible
<1>4. QED
  BY <1>1, <1>2, <1>3, PTL DEF Spec

-------------------------------------------------------------------------------
(***************************************************************************)
(* The two ends.  A table is described by how many words had been drawn    *)
(* when each of its entries was begun (at): Drawn is what the loop makes   *)
(* of the words that follow.  Two tables drawn from the same key at the    *)
(* same density are then equal as far as both go, whatever the sizes of    *)
(* the windows were.                                                       *)
(***************************************************************************)
Passes(key, dt, n) == ToNumber(Words[key][n] \intersect Positions(4)) <= dt
ValueAt(key, n) == Words[key][n] \intersect Positions(8)

(* The words drawn before the first value of an entry begun after n words. *)
BeforeValues(dt, n) == IF dt = 15 THEN n ELSE n + 1

(* A zero entry costs one draw; another one takes the first value that is  *)
(* not zero.                                                               *)
Drawn(key, dt, n, next, value) ==
  \/ /\ dt # 15 /\ ~Passes(key, dt, n + 1)
     /\ next = n + 1 /\ value = Zero
  \/ /\ dt = 15 \/ Passes(key, dt, n + 1)
     /\ next > BeforeValues(dt, n)
     /\ \A j \in BeforeValues(dt, n) + 1 .. next - 1 : ValueAt(key, j) = Zero
     /\ value = ValueAt(key, next) /\ value # Zero

Entrywise(tab, key, dt, nb, at) ==
  /\ at[0] = 0
  /\ \A k \in 0 .. nb - 1 : Drawn(key, dt, at[k], at[k + 1], tab[k])

(* The first nb entries of a table are what n words gave.                  *)
DrawnUpTo(tab, key, dt, nb, n) ==
  \E at \in [0 .. nb -> Nat] : Entrywise(tab, key, dt, nb, at) /\ at[nb] = n

SameUpTo(tab, tab2, nb) == \A k \in 0 .. nb - 1 : tab2[k] = tab[k]

LEMMA DrawnOnce ==
  ASSUME NEW key, NEW dt, NEW n \in Nat, NEW next1 \in Nat, NEW next2 \in Nat,
         NEW value1, NEW value2,
         Drawn(key, dt, n, next1, value1), Drawn(key, dt, n, next2, value2)
  PROVE  next1 = next2 /\ value1 = value2
<1>1. BeforeValues(dt, n) \in Nat
  BY DEF BeforeValues
<1>2. CASE dt # 15 /\ ~Passes(key, dt, n + 1)
  BY <1>2, Zenon DEF Drawn
<1>3. CASE dt = 15 \/ Passes(key, dt, n + 1)
  <2>1. /\ next1 > BeforeValues(dt, n) /\ next2 > BeforeValues(dt, n)
        /\ \A j \in BeforeValues(dt, n) + 1 .. next1 - 1 : ValueAt(key, j) = Zero
        /\ \A j \in BeforeValues(dt, n) + 1 .. next2 - 1 : ValueAt(key, j) = Zero
        /\ ValueAt(key, next1) # Zero /\ ValueAt(key, next2) # Zero
        /\ value1 = ValueAt(key, next1) /\ value2 = ValueAt(key, next2)
    BY <1>3, Zenon DEF Drawn
  <2>2. ~(next1 < next2) /\ ~(next2 < next1)
    BY <1>1, <2>1
  <2>3. QED
    BY <2>1, <2>2
<1>4. QED
  BY <1>2, <1>3, Zenon

(* By induction on the entry: where two tables differ, or their entries    *)
(* were begun after different numbers of words, there is a first such one. *)
LEMMA SameTable ==
  ASSUME NEW nb \in Nat, NEW tab1, NEW tab2, NEW key, NEW dt, NEW n1, NEW n2,
         DrawnUpTo(tab1, key, dt, nb, n1), DrawnUpTo(tab2, key, dt, nb, n2)
  PROVE  SameUpTo(tab1, tab2, nb)
<1>0. PICK at1 \in [0 .. nb -> Nat], at2 \in [0 .. nb -> Nat] :
        Entrywise(tab1, key, dt, nb, at1) /\ Entrywise(tab2, key, dt, nb, at2)
  BY DEF DrawnUpTo
<1> DEFINE Apart == {k \in 0 .. nb : at1[k] # at2[k]}
<1>1. ASSUME NEW k \in 0 .. nb - 1, at1[k] = at2[k]
      PROVE  at1[k + 1] = at2[k + 1] /\ tab1[k] = tab2[k]
  <2>1. k \in 0 .. nb /\ k + 1 \in 0 .. nb
    OBVIOUS
  <2>2. at1[k] \in Nat /\ at1[k + 1] \in Nat /\ at2[k + 1] \in Nat
    BY <2>1
  <2>3. Drawn(key, dt, at1[k], at1[k + 1], tab1[k]) /\ Drawn(key, dt, at1[k], at2[k + 1], tab2[k])
    BY <1>0, <1>1 DEF Entrywise
  <2>4. QED
    BY <2>2, <2>3, DrawnOnce
<1>2. Apart = {}
  <2>1. SUFFICES ASSUME Apart # {} PROVE FALSE
    OBVIOUS
  <2>2. Apart \in SUBSET Nat
    OBVIOUS
  <2>3. PICK x \in Apart : \A y \in Apart : x <= y
    BY <2>1, <2>2, LeastNatural
  <2>4. x # 0
    BY <1>0, <2>3 DEF Entrywise
  <2>5. x - 1 \in 0 .. nb - 1 /\ x - 1 \notin Apart
    BY <2>3, <2>4
  <2>6. at1[x - 1] = at2[x - 1]
    BY <2>5
  <2>7. at1[(x - 1) + 1] = at2[(x - 1) + 1]
    BY <1>1, <2>5, <2>6
  <2>8. (x - 1) + 1 = x
    BY <2>3
  <2>9. QED
    BY <2>3, <2>7, <2>8
<1>3. \A k \in 0 .. nb - 1 : at1[k] = at2[k]
  BY <1>2
<1>4. QED
  BY <1>1, <1>3 DEF SameUpTo

(* Of two tables with the same entries, and of a beginning of a table.     *)
LEMMA TableKept ==
  ASSUME NEW nb \in Nat, NEW tab, NEW tab2, NEW key, NEW dt, NEW n,
         DrawnUpTo(tab, key, dt, nb, n), SameUpTo(tab, tab2, nb)
  PROVE  DrawnUpTo(tab2, key, dt, nb, n)
<1>1. PICK at \in [0 .. nb -> Nat] : Entrywise(tab, key, dt, nb, at) /\ at[nb] = n
  BY DEF DrawnUpTo
<1>2. Entrywise(tab2, key, dt, nb, at)
  BY <1>1 DEF Entrywise, SameUpTo
<1>3. QED
  BY <1>1, <1>2 DEF DrawnUpTo

LEMMA TableCut ==
  ASSUME NEW nb \in Nat, NEW some \in 0 .. nb, NEW tab, NEW key, NEW dt, NEW n,
         DrawnUpTo(tab, key, dt, nb, n)
  PROVE  \E m \in Nat : DrawnUpTo(tab, key, dt, some, m)
<1>1. PICK at \in [0 .. nb -> Nat] : Entrywise(tab, key, dt, nb, at) /\ at[nb] = n
  BY DEF DrawnUpTo
<1> DEFINE at2 == [k \in 0 .. some |-> at[k]]
<1>2. at2 \in [0 .. some -> Nat] /\ at2[0] = at[0] /\ at2[some] \in Nat
  OBVIOUS
<1>3. ASSUME NEW k \in 0 .. some - 1
      PROVE  at2[k] = at[k] /\ at2[k + 1] = at[k + 1] /\ k \in 0 .. nb - 1
  OBVIOUS
<1> HIDE DEF at2
<1>4. Entrywise(tab, key, dt, some, at2)
  BY <1>1, <1>2, <1>3 DEF Entrywise
<1>5. QED
  BY <1>2, <1>4 DEF DrawnUpTo

(* One more entry.                                                         *)
LEMMA TableGrows ==
  ASSUME NEW nb \in Nat, NEW tab, NEW tab2, NEW key, NEW dt, NEW n, NEW next \in Nat,
         DrawnUpTo(tab, key, dt, nb, n), SameUpTo(tab, tab2, nb),
         Drawn(key, dt, n, next, tab2[nb])
  PROVE  DrawnUpTo(tab2, key, dt, nb + 1, next)
<1>1. PICK at \in [0 .. nb -> Nat] : Entrywise(tab, key, dt, nb, at) /\ at[nb] = n
  BY DEF DrawnUpTo
<1> DEFINE at2 == [k \in 0 .. nb + 1 |-> IF k = nb + 1 THEN next ELSE at[k]]
<1>2. at2 \in [0 .. nb + 1 -> Nat] /\ at2[0] = at[0] /\ at2[nb + 1] = next /\ at2[nb] = at[nb]
  OBVIOUS
<1>3. ASSUME NEW k \in 0 .. nb - 1
      PROVE  at2[k] = at[k] /\ at2[k + 1] = at[k + 1]
  OBVIOUS
<1> HIDE DEF at2
<1>4. ASSUME NEW k \in 0 .. (nb + 1) - 1
      PROVE  Drawn(key, dt, at2[k], at2[k + 1], tab2[k])
  <2>1. CASE k = nb
    BY <1>1, <1>2, <2>1
  <2>2. CASE k # nb
    <3>1. k \in 0 .. nb - 1
      BY <2>2
    <3>2. QED
      BY <1>1, <1>3, <3>1 DEF Entrywise, SameUpTo
  <2>3. QED
    BY <2>1, <2>2
<1>5. Entrywise(tab2, key, dt, nb + 1, at2)
  BY <1>1, <1>2, <1>4 DEF Entrywise
<1>6. QED
  BY <1>2, <1>5 DEF DrawnUpTo

(***************************************************************************)
(* The call under way, in a field of 256 elements: the table is drawn up   *)
(* to its entry, which was begun after n words.                            *)
(***************************************************************************)
InEntry(n) ==
  \/ pc = "density" /\ call.dt # 15 /\ draws = n
  \/ /\ pc = "value"
     /\ call.dt = 15 \/ Passes(call.repair_key, call.dt, n + 1)
     /\ BeforeValues(call.dt, n) <= draws
     /\ \A j \in BeforeValues(call.dt, n) + 1 .. draws : ValueAt(call.repair_key, j) = Zero

CallFollows ==
  pc # "idle" /\ call.m = 8 =>
    \E n \in Nat :
      /\ DrawnUpTo(cc_tab[call.caller], call.repair_key, call.dt, entry, n)
      /\ InEntry(n)

(* A call that is not refused starts with an empty table drawn so far.     *)
LEMMA GenerateStarts ==
  ASSUME NEW c \in Calls, Generate(c)
  PROVE  /\ CallFollows'
         /\ pc = "idle" /\ (pc' # "idle" => call' = c)
         /\ c.dt \in 0 .. 15 /\ c.m = 8 => pc' # "idle" /\ cc_tab' = cc_tab
         /\ \A d \in Callers : d # c.caller => cc_tab'[d] = cc_tab[d]
         /\ c.m = 8 => cc_tab' = cc_tab
<1>1. CASE c.dt > 15 \/ c.m \notin {1, 8}
  BY <1>1 DEF Generate, CallFollows
<1>2. CASE ~(c.dt > 15 \/ c.m \notin {1, 8}) /\ c.m = 1 /\ c.dt = 15
  <2>1. call' = c /\ pc' = "bit" /\ pc = "idle"
    BY <1>2 DEF Generate
  <2>2. cc_tab' = [cc_tab EXCEPT ![c.caller] =
                     [k \in Entries |-> IF k < c.cc_nb THEN One ELSE @[k]]]
    BY <1>2 DEF Generate
  <2>3. QED
    BY <1>2, <2>1, <2>2 DEF CallFollows
<1>3. CASE ~(c.dt > 15 \/ c.m \notin {1, 8}) /\ ~(c.m = 1 /\ c.dt = 15)
  <2>1. /\ cc_tab' = cc_tab /\ call' = c /\ pc' = FirstDraw(c) /\ pc = "idle"
        /\ draws' = 0 /\ entry' = 0
    BY <1>3 DEF Generate
  <2>2. pc' # "idle"
    BY <1>3, <2>1, FirstDrawType
  <2>3. ASSUME c.m = 8 PROVE CallFollows'
    <3> DEFINE at == [k \in 0 .. 0 |-> 0]
    <3>1. at \in [0 .. 0 -> Nat] /\ at[0] = 0
      OBVIOUS
    <3>2. Entrywise(cc_tab'[c.caller], c.repair_key, c.dt, 0, at)
      BY <3>1 DEF Entrywise
    <3>3. DrawnUpTo(cc_tab'[c.caller], c.repair_key, c.dt, 0, 0)
      BY <3>1, <3>2 DEF DrawnUpTo
    <3>4. InEntry(0)'
      BY <2>1, <2>3 DEF InEntry, FirstDraw, BeforeValues
    <3> HIDE DEF at
    <3>5. QED
      BY <2>1, <3>3, <3>4 DEF CallFollows
  <2>4. QED
    BY <1>3, <2>1, <2>2, <2>3 DEF CallFollows
<1>4. QED
  BY <1>1, <1>2, <1>3

LEMMA DensityFollows ==
  ASSUME TypeInv, CallFollows, DrawDensity
  PROVE  CallFollows'
<1>0. PICK key, dt, tab, tab2 :
        /\ key = call.repair_key /\ dt = call.dt
        /\ tab = cc_tab[call.caller] /\ tab2 = cc_tab'[call.caller]
  OBVIOUS
<1>1. /\ TypeOK /\ pc = "density" /\ call' = call /\ InWindow /\ call.m = 8
      /\ draws' = draws + 1 /\ draws \in Nat
  BY AdvanceType DEF DrawDensity, TypeInv, CallKind
<1>2. /\ entry \in Nat /\ call.caller \in Callers /\ entry \in Entries
      /\ \A k \in 0 .. entry - 1 : k \in Entries /\ k < entry
  BY <1>1, BelowEntry, EntryType
<1>3. PICK e \in Nat, w \in Nat : e = entry /\ w = draws'
  BY <1>1, <1>2
<1>4. PICK n \in Nat : DrawnUpTo(tab, key, dt, e, n) /\ InEntry(n)
  BY <1>0, <1>1, <1>3 DEF CallFollows
<1>5. dt # 15 /\ n = draws /\ w = n + 1
  BY <1>0, <1>1, <1>3, <1>4 DEF InEntry
<1>6. CASE Passes(key, dt, w)
  <2>1. pc' = "value" /\ cc_tab' = cc_tab /\ entry' = entry
    BY <1>0, <1>3, <1>6 DEF DrawDensity, Passes, tinymt32_rand16
  <2>2. BeforeValues(dt, n) = w
    BY <1>5 DEF BeforeValues
  <2>3. InEntry(n)'
    BY <1>0, <1>1, <1>3, <1>5, <1>6, <2>1, <2>2 DEF InEntry
  <2>4. QED
    BY <1>0, <1>1, <1>3, <1>4, <1>5, <2>1, <2>3 DEF CallFollows
<1>7. CASE ~Passes(key, dt, w)
  <2>1. pc' = pc /\ Fill(Zero) /\ entry' = e + 1
    BY <1>0, <1>3, <1>7 DEF DrawDensity, Passes, tinymt32_rand16
  <2>2. tab2[e] = Zero /\ SameUpTo(tab, tab2, e)
    BY <1>0, <1>1, <1>2, <1>3, <2>1, FillOthers, BytesInUse DEF SameUpTo
  <2>3. Drawn(key, dt, n, w, tab2[e])
    BY <1>5, <1>7, <2>2, Zenon DEF Drawn
  <2>4. DrawnUpTo(tab2, key, dt, e + 1, w)
    BY <1>4, <2>2, <2>3, TableGrows
  <2>5. InEntry(w)'
    BY <1>0, <1>1, <1>3, <1>5, <2>1 DEF InEntry
  <2>6. QED
    BY <1>0, <1>1, <2>1, <2>4, <2>5 DEF CallFollows
<1>8. QED
  BY <1>6, <1>7

LEMMA ValueFollows ==
  ASSUME TypeInv, CallFollows, DrawValue
  PROVE  CallFollows'
<1>0. PICK key, dt, tab, tab2 :
        /\ key = call.repair_key /\ dt = call.dt
        /\ tab = cc_tab[call.caller] /\ tab2 = cc_tab'[call.caller]
  OBVIOUS
<1>1. /\ TypeOK /\ pc = "value" /\ call' = call /\ InWindow /\ call.m = 8
      /\ draws' = draws + 1 /\ draws \in Nat
  BY AdvanceType DEF DrawValue, TypeInv, CallKind
<1>2. /\ entry \in Nat /\ call.caller \in Callers /\ entry \in Entries
      /\ \A k \in 0 .. entry - 1 : k \in Entries /\ k < entry
  BY <1>1, BelowEntry, EntryType
<1>3. PICK e \in Nat, drawn \in Nat, w \in Nat :
        e = entry /\ drawn = draws /\ w = draws' /\ w = drawn + 1
  BY <1>1, <1>2
<1>4. PICK n \in Nat : DrawnUpTo(tab, key, dt, e, n) /\ InEntry(n)
  BY <1>0, <1>1, <1>3 DEF CallFollows
<1>5. PICK before \in Nat : before = BeforeValues(dt, n)
  BY DEF BeforeValues
<1>6. /\ dt = 15 \/ Passes(key, dt, n + 1)
      /\ before <= drawn
      /\ \A j \in before + 1 .. drawn : ValueAt(key, j) = Zero
  BY <1>0, <1>1, <1>3, <1>4, <1>5 DEF InEntry
<1>7. Fill(ValueAt(key, w)) /\ ValueAt(key, w) \in Bytes
  BY <1>0, <1>3, BytesInUse DEF DrawValue, ValueAt, tinymt32_rand256
<1>8. tab2[e] = ValueAt(key, w) /\ SameUpTo(tab, tab2, e)
  BY <1>0, <1>1, <1>2, <1>3, <1>7, FillOthers DEF SameUpTo
<1>9. CASE ValueAt(key, w) # Zero
  <2>1. pc' = FirstDraw(call) /\ entry' = e + 1
    BY <1>0, <1>3, <1>9 DEF DrawValue, Kept, ValueAt, tinymt32_rand256
  <2>2. w - 1 = drawn /\ w > before
    BY <1>3, <1>6
  <2>3. Drawn(key, dt, n, w, tab2[e])
    BY <1>5, <1>6, <1>8, <1>9, <2>2, Zenon DEF Drawn
  <2>4. DrawnUpTo(tab2, key, dt, e + 1, w)
    BY <1>4, <1>8, <2>3, TableGrows
  <2>5. InEntry(w)'
    <3>1. FirstDraw(call) = IF dt = 15 THEN "value" ELSE "density"
      BY <1>0, <1>1 DEF FirstDraw
    <3>2. \A j \in w + 1 .. w : ValueAt(key, j) = Zero
      OBVIOUS
    <3>3. QED
      BY <1>0, <1>1, <1>3, <2>1, <3>1, <3>2 DEF InEntry, BeforeValues
  <2>6. QED
    BY <1>0, <1>1, <2>1, <2>4, <2>5 DEF CallFollows
<1>10. CASE ValueAt(key, w) = Zero
  <2>1. pc' = pc /\ entry' = e
    BY <1>0, <1>3, <1>10 DEF DrawValue, Kept, ValueAt, tinymt32_rand256
  <2>2. DrawnUpTo(tab2, key, dt, e, n)
    BY <1>4, <1>8, TableKept
  <2>3. \A j \in before + 1 .. w : ValueAt(key, j) = Zero
    <3>1. \A j \in before + 1 .. w : j = w \/ j \in before + 1 .. drawn
      BY <1>3
    <3>2. QED
      BY <1>6, <1>10, <3>1
  <2>4. before <= w
    BY <1>3, <1>6
  <2>5. InEntry(n)'
    BY <1>0, <1>1, <1>3, <1>5, <1>6, <2>1, <2>3, <2>4 DEF InEntry
  <2>6. QED
    BY <1>0, <1>1, <2>1, <2>2, <2>5 DEF CallFollows
<1>11. QED
  BY <1>9, <1>10

(***************************************************************************)
(* The tables of the two ends, once a call has filled them in for the      *)
(* packet; and what their calls have to do with the packet meanwhile.      *)
(***************************************************************************)
InCall(c) == pc # "idle" /\ call.caller = c

Follows(c) ==
  \E n \in Nat :
    DrawnUpTo(cc_tab[c], packet.repair_key, Density(packet), Nss(packet), n)

AsThePacketSays ==
  call.m = 8 /\ call.repair_key = packet.repair_key /\ call.dt = Density(packet)

EndsInv ==
  /\ CallFollows
  /\ received => packet # NULL
  /\ InCall("encoder") => AsThePacketSays /\ Nss(packet) <= call.cc_nb /\ ~received
  /\ InCall("decoder") => AsThePacketSays /\ Nss(packet) = call.cc_nb /\ received
  /\ packet # NULL /\ ~InCall("encoder") => Follows("encoder")
  /\ received /\ ~InCall("decoder") => Follows("decoder")

(* A draw stays in its call, and writes no other table.                    *)
LEMMA DrawStays ==
  ASSUME TypeInv, DrawBit \/ DrawDensity \/ DrawValue
  PROVE  /\ pc # "idle" /\ pc' # "idle" /\ call' = call
         /\ \A c \in Callers : c # call.caller => cc_tab'[c] = cc_tab[c]
<1>1. cc_tab \in [Callers -> [Entries -> Bytes]]
  BY DEF TypeInv, TypeOK
<1>2. \A v : Fill(v) =>
        \A c \in Callers : c # call.caller => cc_tab'[c] = cc_tab[c]
  BY <1>1 DEF Fill
<1>3. CASE DrawBit
  BY <1>2, <1>3 DEF DrawBit
<1>4. CASE DrawDensity
  BY <1>2, <1>4 DEF DrawDensity
<1>5. CASE DrawValue
  BY <1>2, <1>5 DEF DrawValue, FirstDraw
<1>6. QED
  BY <1>3, <1>4, <1>5

LEMMA DrawFollows ==
  ASSUME TypeInv, CallFollows, DrawBit \/ DrawDensity \/ DrawValue
  PROVE  CallFollows'
<1>1. CASE DrawBit
  BY <1>1 DEF DrawBit, TypeInv, CallKind, CallFollows
<1>2. QED
  BY <1>1, DensityFollows, ValueFollows

(* The call that returns has filled in its table as far as it was asked.   *)
LEMMA ReturnFollows ==
  ASSUME TypeInv, CallFollows, Return, call.m = 8,
         NEW some \in 0 .. call.cc_nb
  PROVE  \E n \in Nat : DrawnUpTo(cc_tab[call.caller], call.repair_key, call.dt, some, n)
<1>1. entry \in Nat /\ some \in 0 .. entry
  <2>1. entry \in 0 .. call.cc_nb /\ call.cc_nb \in 0 .. MaxWindow
    BY DEF TypeInv, TypeOK, Calls, Sizes
  <2>2. ~(entry < call.cc_nb)
    BY DEF Return
  <2>3. QED
    BY <2>1, <2>2, MaxWindowAssumption
<1>2. PICK n \in Nat : DrawnUpTo(cc_tab[call.caller], call.repair_key, call.dt, entry, n)
  BY DEF Return, CallFollows
<1>3. QED
  BY <1>1, <1>2, TableCut

LEMMA EndsStep ==
  ASSUME TypeInv, EndsInv, [Next]_vars
  PROVE  EndsInv'
<1>0. {"encoder", "decoder", "application"} = Callers
  BY DEF Callers
<1>1. ASSUME NEW idx \in Keys, NEW dt \in Densities, NEW nss \in Windows,
             EncoderGenerate(idx, dt, nss)
      PROVE  EndsInv'
  <2>1. PICK c \in Calls :
          /\ Generate(c)
          /\ c.caller = "encoder" /\ c.m = 8 /\ c.dt \in 0 .. 15 /\ received' = FALSE
          /\ c.repair_key = packet'.repair_key /\ c.dt = Density(packet')
          /\ Nss(packet') <= c.cc_nb
    BY <1>1, EncoderCall
  <2>2. CallFollows' /\ pc' # "idle" /\ call' = c
    BY <2>1, GenerateStarts
  <2>3. InCall("encoder")' /\ ~InCall("decoder")'
    BY <2>1, <2>2 DEF InCall
  <2>4. AsThePacketSays' /\ (Nss(packet) <= call.cc_nb)' /\ ~received'
    BY <2>1, <2>2 DEF AsThePacketSays
  <2>5. QED
    BY <2>2, <2>3, <2>4 DEF EndsInv
<1>2. CASE DecoderGenerate
  <2> DEFINE c == [caller |-> "decoder", repair_key |-> packet.repair_key,
                   cc_nb |-> Nss(packet), dt |-> Density(packet), m |-> 8]
  <2>1. packet # NULL /\ Generate(c) /\ packet' = packet /\ received' = TRUE
    BY <1>2 DEF DecoderGenerate
  <2>2. c \in Calls
    BY <2>1, DecoderCall
  <2>3. /\ c.caller = "decoder" /\ c.m = 8 /\ c.repair_key = packet.repair_key
        /\ c.cc_nb = Nss(packet) /\ c.dt = Density(packet)
    OBVIOUS
  <2>4. c.dt \in 0 .. 15
    BY <2>1, <2>3, DensitiesAssumption DEF TypeInv, Carries
  <2> HIDE DEF c
  <2>5. CallFollows' /\ pc' # "idle" /\ call' = c /\ cc_tab' = cc_tab /\ pc = "idle"
    BY <2>1, <2>2, <2>3, <2>4, GenerateStarts
  <2>6. InCall("decoder")' /\ ~InCall("encoder")' /\ ~InCall("encoder")
    BY <2>3, <2>5 DEF InCall
  <2>7. AsThePacketSays' /\ (Nss(packet) = call.cc_nb)' /\ received'
    BY <2>1, <2>3, <2>5 DEF AsThePacketSays
  <2>8. Follows("encoder")'
    BY <2>1, <2>5, <2>6 DEF EndsInv, Follows
  <2>9. QED
    BY <2>1, <2>5, <2>6, <2>7, <2>8 DEF EndsInv
<1>3. ASSUME NEW key \in Seeds, NEW nb \in Windows,
             NEW dt \in Densities \union {BadDensity}, NEW m \in {1, 2, 8},
             ApplicationGenerate(key, nb, dt, m)
      PROVE  EndsInv'
  <2>1. PICK c \in Calls : Generate(c) /\ c.caller = "application"
                         /\ packet' = packet /\ received' = received
    BY <1>3, ApplicationCall
  <2>2. /\ CallFollows' /\ pc = "idle" /\ (pc' # "idle" => call' = c)
        /\ \A d \in Callers : d # c.caller => cc_tab'[d] = cc_tab[d]
    BY <2>1, GenerateStarts
  <2>3. cc_tab'["encoder"] = cc_tab["encoder"] /\ cc_tab'["decoder"] = cc_tab["decoder"]
    BY <1>0, <2>1, <2>2
  <2>4. /\ ~InCall("encoder")' /\ ~InCall("decoder")'
        /\ ~InCall("encoder") /\ ~InCall("decoder")
    BY <2>1, <2>2 DEF InCall
  <2>5. QED
    BY <2>1, <2>2, <2>3, <2>4 DEF EndsInv, Follows
<1>4. CASE (DrawBit \/ DrawDensity \/ DrawValue) /\ UNCHANGED <<packet, received>>
  <2>1. /\ pc # "idle" /\ pc' # "idle" /\ call' = call
        /\ \A c \in Callers : c # call.caller => cc_tab'[c] = cc_tab[c]
    BY <1>4, DrawStays
  <2>2. CallFollows'
    BY <1>4, DrawFollows DEF EndsInv
  <2>3. \A c \in Callers : InCall(c)' <=> InCall(c)
    BY <2>1 DEF InCall
  <2>4. \A c \in Callers : ~InCall(c) => (Follows(c)' <=> Follows(c))
    BY <1>4, <2>1 DEF InCall, Follows
  <2>5. AsThePacketSays' <=> AsThePacketSays
    BY <1>4, <2>1 DEF AsThePacketSays
  <2>6. QED
    BY <1>0, <1>4, <2>1, <2>2, <2>3, <2>4, <2>5 DEF EndsInv
<1>5. CASE Return /\ UNCHANGED <<packet, received>>
  <2>1. /\ pc # "idle" /\ pc' = "idle"
        /\ cc_tab' = [cc_tab EXCEPT !["application"] = NoCoefficients]
    BY <1>5 DEF Return
  <2>2. cc_tab'["encoder"] = cc_tab["encoder"] /\ cc_tab'["decoder"] = cc_tab["decoder"]
    BY <2>1 DEF TypeInv, TypeOK, Callers
  <2>3. CallFollows' /\ ~InCall("encoder")' /\ ~InCall("decoder")'
    BY <2>1 DEF CallFollows, InCall
  <2>4. \A c : Follows(c) /\ cc_tab'[c] = cc_tab[c] => Follows(c)'
    BY <1>5 DEF Follows
  <2>5. ASSUME packet # NULL PROVE Follows("encoder")'
    <3>1. CASE InCall("encoder")
      <4>1. Nss(packet) \in 0 .. call.cc_nb
        <5>1. /\ Nss(packet) \in 0 .. MaxWindow /\ call.cc_nb \in 0 .. MaxWindow
              /\ Nss(packet) <= call.cc_nb
          BY <2>5, <3>1 DEF TypeInv, TypeOK, Carries, Calls, Sizes, EndsInv
        <5>2. QED
          BY <5>1, MaxWindowAssumption
      <4>2. AsThePacketSays /\ call.caller = "encoder"
        BY <3>1 DEF EndsInv, InCall
      <4>3. Follows("encoder")
        BY <1>5, <4>1, <4>2, ReturnFollows DEF AsThePacketSays, Follows, EndsInv
      <4>4. QED
        BY <2>2, <2>4, <4>3
    <3>2. CASE ~InCall("encoder")
      BY <2>2, <2>4, <2>5, <3>2 DEF EndsInv
    <3>3. QED
      BY <3>1, <3>2
  <2>6. ASSUME received PROVE Follows("decoder")'
    <3>1. CASE InCall("decoder")
      <4>1. Nss(packet) \in 0 .. call.cc_nb
        <5>1. call.cc_nb \in 0 .. MaxWindow /\ Nss(packet) = call.cc_nb
          BY <3>1 DEF TypeInv, TypeOK, Calls, Sizes, EndsInv
        <5>2. QED
          BY <5>1, MaxWindowAssumption
      <4>2. AsThePacketSays /\ call.caller = "decoder"
        BY <3>1 DEF EndsInv, InCall
      <4>3. Follows("decoder")
        BY <1>5, <4>1, <4>2, ReturnFollows DEF AsThePacketSays, Follows, EndsInv
      <4>4. QED
        BY <2>2, <2>4, <4>3
    <3>2. CASE ~InCall("decoder")
      BY <2>2, <2>4, <2>6, <3>2 DEF EndsInv
    <3>3. QED
      BY <3>1, <3>2
  <2>7. QED
    BY <1>5, <2>3, <2>5, <2>6 DEF EndsInv
<1>6. CASE UNCHANGED vars
  BY <1>6 DEF vars, EndsInv, CallFollows, InEntry, InCall, AsThePacketSays, Follows
<1>7. QED
  BY <1>1, <1>2, <1>3, <1>4, <1>5, <1>6 DEF Next, Draw

(* Whatever the key was cut to and the application drew in between, the    *)
(* decoder's coefficients are the encoder's for every symbol the packet    *)
(* announces.                                                              *)
THEOREM BothEnds == Spec => []EndsAgree
<1>1. Init => TypeInv /\ EndsInv
  <2>1. Init => EndsInv
    BY DEF Init, EndsInv, CallFollows, InCall
  <2>2. QED
    BY <2>1, InitTypes
<1>2. TypeInv /\ EndsInv /\ [Next]_vars => TypeInv' /\ EndsInv'
  BY TypeStep, EndsStep
<1>3. TypeInv /\ EndsInv => EndsAgree
  <2>1. SUFFICES ASSUME TypeInv, EndsInv, received, pc = "idle"
                 PROVE  \A k \in 0 .. Nss(packet) - 1 :
                          cc_tab["decoder"][k] = cc_tab["encoder"][k]
    BY DEF EndsAgree
  <2>2. packet # NULL /\ Follows("encoder") /\ Follows("decoder")
    BY <2>1 DEF EndsInv, InCall
  <2>3. Nss(packet) \in Nat
    BY <2>1, <2>2, MaxWindowAssumption DEF TypeInv, Carries, Sizes
  <2>4. SameUpTo(cc_tab["encoder"], cc_tab["decoder"], Nss(packet))
    BY <2>2, <2>3, SameTable DEF Follows
  <2>5. QED
    BY <2>4 DEF SameUpTo
<1>4. QED
  BY <1>1, <1>2, <1>3, PTL DEF Spec
===============================================================================
