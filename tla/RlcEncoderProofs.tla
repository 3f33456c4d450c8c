--------------------------- MODULE RlcEncoderProofs ---------------------------
(***************************************************************************)
(* Proofs about the ring of the encoder, for every window size and every   *)
(* number of source symbols.                                               *)
(***************************************************************************)
EXTENDS RlcEncoder, FiniteSetTheorems, WellFoundedInduction, TLAPS

(* The slot of the n-th symbol of a window that starts in slot l.          *)
SlotOf(l, n) == (l + n - 1) % max_coding_window_size

(* A position less than two turns away, reduced to its slot.               *)
LEMMA ModRange ==
  ASSUME NEW N \in Nat \ {0}, NEW x \in Nat, x < 2 * N
  PROVE  x % N = IF x < N THEN x ELSE x - N
<1>1. CASE x < N
  BY <1>1
<1>2. CASE x >= N
  <2>1. x - N \in Nat /\ x - N < N
    BY <1>2
  <2>2. QED
    BY <1>2, <2>1
<1>3. QED
  BY <1>1, <1>2

LEMMA ModWindow ==
  ASSUME NEW x \in Nat, x < 2 * max_coding_window_size
  PROVE  /\ x < max_coding_window_size => x % max_coding_window_size = x
         /\ x >= max_coding_window_size =>
              x % max_coding_window_size = x - max_coding_window_size
<1> DEFINE M == max_coding_window_size
<1>1. M \in Nat \ {0}
  BY WindowSizeAssumption
<1> HIDE DEF M
<1>2. x % M = IF x < M THEN x ELSE x - M
  BY <1>1, ModRange DEF M
<1>3. QED
  BY <1>1, <1>2 DEF M

LEMMA SlotFacts ==
  ASSUME NEW l \in Slots, NEW n \in 1 .. max_coding_window_size
  PROVE  /\ SlotOf(l, n) \in Slots
         /\ SlotOf(l, n) = IF l + n - 1 < max_coding_window_size
                           THEN l + n - 1 ELSE l + n - 1 - max_coding_window_size
         /\ Advance(l) \in Slots
         /\ Advance(l) = IF l + 1 < max_coding_window_size THEN l + 1 ELSE 0
<1>1. max_coding_window_size \in Nat \ {0} /\ l \in Nat /\ l < max_coding_window_size
  BY WindowSizeAssumption DEF Slots
<1> DEFINE x == l + n - 1
<1>2. x \in Nat /\ x < 2 * max_coding_window_size
  BY <1>1
<1>3. SlotOf(l, n) = IF x < max_coding_window_size THEN x ELSE x - max_coding_window_size
  <2>1. SlotOf(l, n) = x % max_coding_window_size
    BY DEF SlotOf
  <2> HIDE DEF x
  <2>2. QED
    BY <1>1, <1>2, <2>1, ModWindow
<1> DEFINE y == l + 1
<1>4. y \in Nat /\ y < 2 * max_coding_window_size /\ y <= max_coding_window_size
  BY <1>1
<1>5. Advance(l) = IF y < max_coding_window_size THEN y ELSE 0
  <2>1. Advance(l) = y % max_coding_window_size
    BY DEF Advance
  <2> HIDE DEF y
  <2>2. QED
    BY <1>1, <1>4, <2>1, ModWindow
<1>6. QED
  BY <1>1, <1>2, <1>3, <1>5 DEF Slots

LEMMA WindowAt ==
  /\ DOMAIN Window = 1 .. ew_ss_nb
  /\ \A n \in 1 .. ew_ss_nb : Window[n] = ew_tab[SlotOf(ew_left, n)]
BY DEF Window, SlotOf

(* The identifier that may come next, as long as INVALID_ESI is not        *)
(* reached.                                                                *)
LEMMA NextEsi ==
  ASSUME NoWrap, NEW esi \in Ids, ew_esi_right \in Ids, Expected(esi)
  PROVE  esi = ew_esi_right + 1
<1>1. ew_esi_right \in Nat /\ ew_esi_right <= MaxId /\ MaxId \in Nat /\ EsiSpan \in Nat
  BY MaxIdAssumption, EsiSpanAssumption DEF Ids
<1>2. MaxId < EsiSpan - 1 /\ ew_esi_right # INVALID_ESI
  BY <1>1 DEF NoWrap, INVALID_ESI
<1> DEFINE e == ew_esi_right + 1
<1>3. e \in Nat /\ e < EsiSpan /\ EsiSpan \in Nat \ {0}
  BY <1>1, <1>2
<1>4. esi = e % EsiSpan
  BY <1>2 DEF Expected
<1> HIDE DEF e
<1>5. e % EsiSpan = e
  BY <1>3
<1>6. QED
  BY <1>4, <1>5 DEF e

LEMMA InitInv == Init => IInv
<1> SUFFICES ASSUME Init PROVE IInv
  OBVIOUS
<1>1. RingTypeOK
  <2>1. 0 \in Slots /\ 0 \in 0 .. max_coding_window_size
    BY WindowSizeAssumption DEF Slots
  <2>2. Zero \in F
    BY FieldAssumption
  <2>3. QED
    BY <2>1, <2>2 DEF Init, RingTypeOK
<1>2. RingShape /\ WindowContents
  BY DEF Init, RingShape, WindowContents
<1>3. QED
  BY <1>1, <1>2 DEF IInv

(* What a new symbol in the ring preserves, wherever it goes.              *)
LEMMA SlideInv ==
  ASSUME NoWrap, IInv, NEW esi \in Ids, SlideWindow(esi)
  PROVE  /\ IInv'
         /\ Window' = Append(Tail(Window), esi)
         /\ EsiLeft = Head(Window)
         /\ Len(Window) = max_coding_window_size
         /\ esi = Window[Len(Window)] + 1
<1> DEFINE M == max_coding_window_size
<1>1. /\ M \in Nat \ {0} /\ ew_left \in Slots /\ ew_left \in Nat /\ ew_left < M
      /\ MaxId \in Nat /\ EsiSpan \in Nat
  BY WindowSizeAssumption, MaxIdAssumption, EsiSpanAssumption DEF IInv, RingTypeOK, Slots
<1>2. /\ ew_ss_nb = M /\ ew_esi_right \in Ids /\ ew_esi_right + 1 >= M
      /\ ew_ss_nb' = M /\ ew_right' = ew_left /\ ew_left' = Advance(ew_left)
      /\ ew_esi_right' = esi /\ ew_tab' = [ew_tab EXCEPT ![ew_left] = esi]
      /\ UNCHANGED <<cc_tab, registered, new_buf>>
      /\ removed' = IF registered THEN EsiLeft ELSE removed
  BY <1>1 DEF SlideWindow, IInv, RingShape
<1>3. esi = ew_esi_right + 1 /\ ew_esi_right \in Nat /\ ew_esi_right <= MaxId
  BY <1>2, NextEsi, MaxIdAssumption DEF SlideWindow, Ids
<1>4. /\ \A n \in 1 .. M : Window[n] = ew_esi_right - M + n
      /\ DOMAIN Window = 1 .. M
      /\ \A n \in 1 .. M : Window[n] = ew_tab[SlotOf(ew_left, n)]
  BY <1>1, <1>2, WindowAt DEF IInv, WindowContents
<1>5. EsiLeft = ew_esi_right + 1 - M /\ EsiLeft \in Ids
  <2> DEFINE e == ew_esi_right + 1 - M
  <2>1. e \in Nat /\ e <= MaxId /\ e < EsiSpan /\ EsiSpan \in Nat \ {0}
    BY <1>1, <1>2, <1>3, EsiSpanAssumption
  <2>2. EsiLeft = e % EsiSpan
    BY <1>2 DEF EsiLeft
  <2>3. e \in Ids
    BY <2>1 DEF Ids
  <2> HIDE DEF e
  <2>4. EsiLeft = e
    BY <2>1, <2>2
  <2>5. QED
    BY <2>3, <2>4 DEF e
<1>6. /\ Advance(ew_left) \in Slots
      /\ Advance(ew_left) = IF ew_left + 1 < M THEN ew_left + 1 ELSE 0
  BY <1>1, SlotFacts
<1>7. SlotOf(Advance(ew_left), M) = ew_left
  <2>1. M \in 1 .. M
    BY <1>1
  <2>2. QED
    BY <1>1, <1>6, <2>1, SlotFacts
<1>8. ASSUME NEW n \in 1 .. M, n # M
      PROVE  /\ SlotOf(Advance(ew_left), n) = SlotOf(ew_left, n + 1)
             /\ SlotOf(ew_left, n + 1) # ew_left
             /\ n + 1 \in 1 .. M
             /\ SlotOf(ew_left, n + 1) \in Slots
  <2>1. n + 1 \in 1 .. M
    BY <1>1, <1>8
  <2>2. /\ SlotOf(ew_left, n + 1) \in Slots
        /\ SlotOf(ew_left, n + 1) = IF ew_left + (n + 1) - 1 < M
                                    THEN ew_left + (n + 1) - 1 ELSE ew_left + (n + 1) - 1 - M
    BY <1>1, <2>1, SlotFacts
  <2>3. SlotOf(Advance(ew_left), n) = IF Advance(ew_left) + n - 1 < M
                           THEN Advance(ew_left) + n - 1 ELSE Advance(ew_left) + n - 1 - M
    BY <1>6, <1>8, SlotFacts
  <2>4. QED
    BY <1>1, <1>6, <1>8, <2>1, <2>2, <2>3
<1>9. RingTypeOK'
  BY <1>2, <1>5, <1>6, <1>1 DEF IInv, RingTypeOK
<1>10. \A n \in 1 .. M : Window'[n] = ew_tab'[SlotOf(Advance(ew_left), n)]
  BY <1>2 DEF Window, SlotOf
<1>11. Window'[M] = esi
  BY <1>1, <1>2, <1>7, <1>10 DEF IInv, RingTypeOK
<1>12. \A n \in 1 .. M : n # M => n + 1 \in 1 .. M /\ Window'[n] = Window[n + 1]
  BY <1>2, <1>4, <1>8, <1>10 DEF IInv, RingTypeOK
<1>13. \A n \in 1 .. M : Window'[n] = esi - M + n
  <2>1. ASSUME NEW n \in 1 .. M PROVE Window'[n] = esi - M + n
    <3>1. CASE n = M
      BY <1>1, <1>3, <1>11, <3>1
    <3>2. CASE n # M
      <4>1. Window'[n] = ew_esi_right - M + (n + 1)
        BY <1>4, <1>12, <3>2
      <4>2. QED
        BY <1>1, <1>3, <4>1
    <3>3. QED
      BY <3>1, <3>2
  <2>2. QED
    BY <2>1
<1>14. WindowContents'
  <2>1. ew_tab'[ew_right'] = ew_esi_right'
    BY <1>1, <1>2 DEF IInv, RingTypeOK
  <2>2. QED
    BY <1>2, <1>13, <2>1 DEF WindowContents
<1>15. RingShape'
  <2>1. ew_right' = SlotOf(ew_left', M)
    BY <1>2, <1>7
  <2>2. ew_right' = (ew_left' + ew_ss_nb' - 1) % M
    BY <1>2, <2>1 DEF SlotOf
  <2>3. ew_esi_right' + 1 >= M
    BY <1>1, <1>2, <1>3
  <2>4. QED
    BY <1>1, <1>2, <2>2, <2>3 DEF RingShape
<1>16. /\ Window' = Append(Tail(Window), esi) /\ EsiLeft = Head(Window)
       /\ Len(Window) = M /\ esi = Window[Len(Window)] + 1
  <2>1. Window \in Seq(Int) /\ Len(Window) = M /\ Window # <<>>
    <3>1. \A n \in 1 .. M : Window[n] \in Int
      BY <1>1, <1>3, <1>4
    <3>2. Window = [n \in 1 .. M |-> Window[n]]
      BY <1>2 DEF Window
    <3>3. QED
      BY <1>1, <3>1, <3>2
  <2>2. Head(Window) = ew_esi_right - M + 1
    BY <1>1, <1>4, <2>1
  <2>3. Window' = [n \in 1 .. M |-> Window'[n]]
    BY <1>2 DEF Window
  <2>4. /\ Len(Tail(Window)) = M - 1
        /\ \A n \in 1 .. M - 1 : Tail(Window)[n] = Window[n + 1]
        /\ Tail(Window) \in Seq(Int)
    BY <1>1, <2>1
  <2>5. Append(Tail(Window), esi) = [n \in 1 .. M |->
           IF n = M THEN esi ELSE Window[n + 1]]
    BY <1>1, <1>3, <2>4
  <2>6. Window' = Append(Tail(Window), esi)
    BY <1>11, <1>12, <2>3, <2>5
  <2>7. esi = Window[M] + 1
    BY <1>1, <1>3, <1>4
  <2>8. QED
    BY <1>1, <1>3, <1>5, <2>1, <2>2, <2>6, <2>7
<1>17. QED
  BY <1>9, <1>14, <1>15, <1>16 DEF IInv

(* While there is room the ring has not turned: symbol n is in slot n - 1. *)
LEMMA AppendInv ==
  ASSUME NoWrap, IInv, NEW esi \in Ids, AddFirst(esi) \/ AddNext(esi)
  PROVE  /\ IInv'
         /\ Window' = Append(Window, esi)
         /\ Len(Window) < max_coding_window_size
         /\ Window # <<>> => esi = Window[Len(Window)] + 1
         /\ UNCHANGED <<registered, removed>>
<1> DEFINE M  == max_coding_window_size
           nb == ew_ss_nb
<1>1. /\ M \in Nat \ {0} /\ nb \in Nat /\ nb < M /\ Slots = 0 .. M - 1
      /\ esi \in Nat /\ MaxId \in Nat
  BY WindowSizeAssumption, MaxIdAssumption
     DEF IInv, RingTypeOK, AddFirst, AddNext, Slots, Ids
<1>2. ew_left = 0 /\ ew_ss_nb' = nb + 1 /\ ew_left' = 0 /\ ew_esi_right' = esi
  BY <1>1 DEF IInv, RingShape, AddFirst, AddNext
<1>3. nb > 0 => ew_right = nb - 1 /\ ew_esi_right \in Ids /\ esi = ew_esi_right + 1
  <2>1. SUFFICES ASSUME nb > 0
                 PROVE  ew_right = nb - 1 /\ ew_esi_right \in Ids /\ esi = ew_esi_right + 1
    OBVIOUS
  <2>2. ew_right = SlotOf(0, nb) /\ ew_esi_right \in Ids
    BY <1>2, <2>1 DEF IInv, RingShape, SlotOf
  <2>3. ew_right = nb - 1
    BY <1>1, <2>1, <2>2, SlotFacts
  <2>4. esi = ew_esi_right + 1
    BY <2>2, NextEsi DEF AddFirst, AddNext
  <2>5. QED
    BY <2>2, <2>3, <2>4
<1>4. ew_right' = nb
  <2>1. CASE AddFirst(esi)
    BY <1>1, <2>1 DEF IInv, RingShape, AddFirst
  <2>2. CASE AddNext(esi)
    <3>1. nb > 0 /\ ew_right' = Advance(nb - 1)
      BY <1>1, <1>3, <2>2 DEF AddNext
    <3>2. nb - 1 \in Slots /\ M \in 1 .. M
      BY <1>1, <3>1
    <3>3. Advance(nb - 1) = nb
      BY <1>1, <3>1, <3>2, SlotFacts
    <3>4. QED
      BY <3>1, <3>3
  <2>3. QED
    BY <2>1, <2>2
<1>5. ew_tab' = [ew_tab EXCEPT ![nb] = esi] /\ UNCHANGED <<cc_tab, registered, removed>>
  BY <1>4, <1>1 DEF AddFirst, AddNext, IInv, RingShape
<1>6. \A n \in 1 .. nb + 1 : SlotOf(0, n) = n - 1 /\ n - 1 \in Slots
  <2>1. ASSUME NEW n \in 1 .. nb + 1 PROVE SlotOf(0, n) = n - 1 /\ n - 1 \in Slots
    <3>1. n \in 1 .. M /\ 0 + n - 1 < M /\ n - 1 \in Slots /\ 0 \in Slots
      BY <1>1
    <3>2. SlotOf(0, n) = 0 + n - 1
      BY <3>1, SlotFacts
    <3>3. QED
      BY <3>1, <3>2
  <2>2. QED
    BY <2>1
<1>7. /\ DOMAIN Window = 1 .. nb /\ DOMAIN Window' = 1 .. nb + 1
      /\ \A n \in 1 .. nb : Window[n] = ew_tab[n - 1]
      /\ \A n \in 1 .. nb + 1 : Window'[n] = ew_tab'[n - 1]
  <2>1. \A n \in 1 .. nb : n \in 1 .. nb + 1
    BY <1>1
  <2>2. QED
    BY <1>2, <1>6, <2>1 DEF Window, SlotOf
<1>8. Window'[nb + 1] = esi /\ \A n \in 1 .. nb : Window'[n] = Window[n] /\ n \in 1 .. nb + 1
  <2>1. \A n \in 1 .. nb : n \in 1 .. nb + 1 /\ n - 1 # nb
    BY <1>1
  <2>2. nb + 1 \in 1 .. nb + 1 /\ (nb + 1) - 1 = nb /\ nb \in Slots
    BY <1>1
  <2>3. QED
    BY <1>5, <1>6, <1>7, <2>1, <2>2 DEF IInv, RingTypeOK
<1>9. RingTypeOK'
  <2>1. nb \in Slots /\ 0 \in Slots /\ nb + 1 \in 0 .. M
    BY <1>1
  <2>2. QED
    BY <1>2, <1>4, <1>5, <2>1 DEF IInv, RingTypeOK
<1>10. nb > 0 => \A n \in 1 .. nb : Window[n] = ew_esi_right - nb + n
  BY DEF IInv, WindowContents
<1>11. esi + 1 >= nb + 1
  <2>1. nb > 0 => ew_esi_right + 1 >= nb
    BY DEF IInv, RingShape
  <2>2. QED
    BY <1>1, <1>3, <2>1 DEF Ids
<1>12. RingShape'
  <2>1. ew_right' = SlotOf(0, nb + 1)
    BY <1>1, <1>4, <1>6
  <2>2. ew_right' = (0 + (nb + 1) - 1) % M
    BY <2>1 DEF SlotOf
  <2>3. QED
    BY <1>1, <1>2, <1>11, <2>2 DEF RingShape
<1>13. WindowContents'
  <2>1. ASSUME NEW n \in 1 .. nb + 1 PROVE Window'[n] = esi - (nb + 1) + n
    <3>1. CASE n = nb + 1
      BY <1>1, <1>8, <3>1
    <3>2. CASE n # nb + 1
      <4>1. n \in 1 .. nb /\ nb > 0
        BY <1>1, <3>2
      <4>2. Window'[n] = ew_esi_right - nb + n
        BY <1>8, <1>10, <4>1
      <4>3. QED
        BY <1>1, <1>3, <4>1, <4>2 DEF Ids
    <3>3. QED
      BY <3>1, <3>2
  <2>2. ew_tab'[ew_right'] = ew_esi_right'
    <3>1. nb \in Slots
      BY <1>1
    <3>2. QED
      BY <1>2, <1>4, <1>5, <3>1 DEF IInv, RingTypeOK
  <2>3. QED
    BY <1>2, <2>1, <2>2 DEF WindowContents
<1>14. Window \in Seq(Int) /\ Len(Window) = nb
  <2>1. \A n \in 1 .. nb : Window[n] \in Int
    BY <1>1, <1>3, <1>10 DEF Ids
  <2>2. Window = [n \in 1 .. nb |-> Window[n]]
    BY DEF Window
  <2>3. QED
    BY <1>1, <2>1, <2>2
<1>15. Window' = Append(Window, esi)
  <2>1. Window' = [n \in 1 .. nb + 1 |-> Window'[n]]
    BY <1>2 DEF Window
  <2>2. Append(Window, esi) = [n \in 1 .. nb + 1 |-> IF n = nb + 1 THEN esi ELSE Window[n]]
    <3>1. Append(Window, esi) \in Seq(Int) /\ Len(Append(Window, esi)) = nb + 1
      BY <1>1, <1>14
    <3>2. \A n \in 1 .. nb + 1 :
            Append(Window, esi)[n] = IF n = nb + 1 THEN esi ELSE Window[n]
      BY <1>1, <1>14
    <3>3. Append(Window, esi) = [n \in 1 .. nb + 1 |-> Append(Window, esi)[n]]
      <4>1. ASSUME NEW s \in Seq(Int) PROVE s = [n \in 1 .. Len(s) |-> s[n]]
        OBVIOUS
      <4>2. QED
        BY <3>1, <4>1
    <3>4. QED
      BY <3>2, <3>3
  <2>3. \A n \in 1 .. nb + 1 : n # nb + 1 => n \in 1 .. nb
    BY <1>1
  <2>4. QED
    BY <1>8, <2>1, <2>2, <2>3
<1>16. Window # <<>> => esi = Window[Len(Window)] + 1
  <2>1. SUFFICES ASSUME nb > 0 PROVE esi = Window[nb] + 1
    BY <1>1, <1>14
  <2>2. Window[nb] = ew_esi_right - nb + nb
    BY <1>1, <1>10, <2>1
  <2>3. QED
    BY <1>1, <1>3, <2>1, <2>2 DEF Ids
<1>17. QED
  BY <1>1, <1>5, <1>9, <1>12, <1>13, <1>14, <1>15, <1>16 DEF IInv

-------------------------------------------------------------------------------
LEMMA OtherInv ==
  ASSUME IInv, UNCHANGED <<ring, removed>>, registered' \in BOOLEAN, cc_tab' \in [Slots -> F]
  PROVE  IInv' /\ Window' = Window
BY DEF ring, IInv, RingTypeOK, RingShape, WindowContents, Window

LEMMA CoefsType ==
  /\ \A nb \in 0 .. max_coding_window_size : \A tab \in [0 .. nb - 1 -> F] :
       RingTypeOK /\ SetCodingCoefsTab(tab, nb) => cc_tab' \in [Slots -> F]
  /\ \A cc \in [Slots -> F], full \in BOOLEAN :
       RingTypeOK /\ GenerateCodingCoefs(cc, full) => cc_tab' \in [Slots -> F]
<1>1. ASSUME NEW nb \in 0 .. max_coding_window_size, NEW tab \in [0 .. nb - 1 -> F],
             RingTypeOK, SetCodingCoefsTab(tab, nb)
      PROVE  cc_tab' \in [Slots -> F]
  <2>1. \A k \in Slots : k < nb => k \in 0 .. nb - 1
    BY WindowSizeAssumption DEF Slots
  <2>2. QED
    BY <1>1, <2>1 DEF RingTypeOK, SetCodingCoefsTab
<1>2. ASSUME NEW cc \in [Slots -> F], NEW full \in BOOLEAN,
             RingTypeOK, GenerateCodingCoefs(cc, full)
      PROVE  cc_tab' \in [Slots -> F]
  BY <1>2 DEF RingTypeOK, GenerateCodingCoefs
<1>3. QED
  BY <1>1, <1>2

LEMMA NextInv ==
  ASSUME NoWrap, IInv, [Next]_vars
  PROVE  IInv' /\ [W!Next]_(W!vars)
<1>1. ASSUME NEW esi \in Ids, SlideWindow(esi)
      PROVE  IInv' /\ W!Next
  <2>1. /\ IInv' /\ Window' = Append(Tail(Window), esi) /\ EsiLeft = Head(Window)
        /\ Len(Window) = max_coding_window_size /\ esi = Window[Len(Window)] + 1
    BY <1>1, SlideInv
  <2>2. W!Add(esi)
    BY <1>1, <2>1, WindowSizeAssumption DEF W!Add, SlideWindow
  <2>3. QED
    BY <2>1, <2>2 DEF W!Next
<1>2. ASSUME NEW esi \in Ids, AddFirst(esi) \/ AddNext(esi)
      PROVE  IInv' /\ W!Next
  <2>1. /\ IInv' /\ Window' = Append(Window, esi) /\ Len(Window) < max_coding_window_size
        /\ Window # <<>> => esi = Window[Len(Window)] + 1
        /\ UNCHANGED <<registered, removed>>
    BY <1>2, AppendInv
  <2>2. W!Add(esi)
    BY <2>1 DEF W!Add
  <2>3. QED
    BY <2>1, <2>2 DEF W!Next
<1>3. ASSUME NEW on \in BOOLEAN, SetCallbackFunctions(on)
      PROVE  IInv' /\ W!Next
  <2>1. IInv' /\ Window' = Window
    BY <1>3, OtherInv DEF SetCallbackFunctions, IInv, RingTypeOK
  <2>2. W!Register(on)
    BY <1>3, <2>1 DEF W!Register, SetCallbackFunctions
  <2>3. QED
    BY <2>1, <2>2 DEF W!Next
<1>4. ASSUME UNCHANGED <<ring, registered, removed>>, cc_tab' \in [Slots -> F]
      PROVE  IInv' /\ UNCHANGED W!vars
  <2>1. registered' \in BOOLEAN
    BY <1>4 DEF IInv, RingTypeOK
  <2>2. IInv' /\ Window' = Window
    BY <1>4, <2>1, OtherInv
  <2>3. QED
    BY <1>4, <2>2 DEF W!vars
<1>5. ASSUME NEW nb \in 0 .. max_coding_window_size, NEW tab \in [0 .. nb - 1 -> F],
             SetCodingCoefsTab(tab, nb)
      PROVE  IInv' /\ UNCHANGED W!vars
  BY <1>4, <1>5, CoefsType DEF SetCodingCoefsTab, IInv
<1>6. ASSUME NEW cc \in [Slots -> F], NEW full \in BOOLEAN, GenerateCodingCoefs(cc, full)
      PROVE  IInv' /\ UNCHANGED W!vars
  BY <1>4, <1>6, CoefsType DEF GenerateCodingCoefs, IInv
<1>7. CASE BuildRepairSymbol
  BY <1>4, <1>7 DEF BuildRepairSymbol, IInv, RingTypeOK
<1>8. CASE UNCHANGED vars
  BY <1>4, <1>8 DEF vars, IInv, RingTypeOK
<1>9. QED
  BY <1>1, <1>2, <1>3, <1>5, <1>6, <1>7, <1>8 DEF Next

(***************************************************************************)
(* As long as the identifiers stop short of INVALID_ESI, the ring holds    *)
(* the window it should, however often it went round.                      *)
(***************************************************************************)
THEOREM RingInvariance ==
  ASSUME NoWrap
  PROVE  Spec => []IInv
<1>1. Init => IInv
  BY InitInv
<1>2. IInv /\ [Next]_vars => IInv'
  BY NextInv
<1>3. QED
  BY <1>1, <1>2, PTL DEF Spec

(* The contents of the ring.                                               *)
THEOREM Contents ==
  ASSUME NoWrap
  PROVE  Spec => []WindowContents
<1>1. IInv => WindowContents
  BY DEF IInv
<1>2. QED
  BY RingInvariance, <1>1, PTL

(* get_coding_window_information tells the two ends of the ring.           *)
THEOREM Information ==
  ASSUME NoWrap
  PROVE  Spec => []InformationIsWindow
<1>1. ASSUME IInv PROVE InformationIsWindow
  <2>1. SUFFICES ASSUME ew_ss_nb > 0
                 PROVE  /\ CodingWindowInformation.first = Window[1]
                        /\ CodingWindowInformation.last = Window[ew_ss_nb]
    BY DEF InformationIsWindow
  <2>2. /\ ew_ss_nb \in Nat /\ ew_esi_right \in Nat /\ ew_esi_right <= MaxId
        /\ ew_esi_right + 1 >= ew_ss_nb
        /\ \A n \in 1 .. ew_ss_nb : Window[n] = ew_esi_right - ew_ss_nb + n
    BY <1>1, <2>1, MaxIdAssumption, WindowSizeAssumption
       DEF IInv, RingTypeOK, RingShape, WindowContents, Ids
  <2>3. 1 \in 1 .. ew_ss_nb /\ ew_ss_nb \in 1 .. ew_ss_nb
    BY <2>1, <2>2
  <2> DEFINE e == ew_esi_right - ew_ss_nb + 1
  <2>4. e \in Nat /\ e < EsiSpan /\ EsiSpan \in Nat \ {0}
    BY <2>1, <2>2, MaxIdAssumption, EsiSpanAssumption
  <2>5. Window[1] = e /\ Window[ew_ss_nb] = ew_esi_right
    BY <2>2, <2>3
  <2>6. /\ CodingWindowInformation.first = e % EsiSpan
        /\ CodingWindowInformation.last = ew_esi_right
    BY DEF CodingWindowInformation
  <2> HIDE DEF e
  <2>7. QED
    BY <2>4, <2>5, <2>6
<1>2. QED
  BY RingInvariance, <1>1, PTL

(***************************************************************************)
(* The ring refines the sliding window: every step of the encoder is a     *)
(* step of the queue or leaves it alone.                                   *)
(***************************************************************************)
THEOREM Refinement ==
  ASSUME NoWrap
  PROVE  Spec => ImplementsCodingWindow
<1>1. Init => W!Init
  BY DEF Init, W!Init, Window
<1>2. IInv /\ [Next]_vars => [W!Next]_(W!vars)
  BY NextInv
<1>3. QED
  BY <1>1, <1>2, RingInvariance, PTL DEF Spec, ImplementsCodingWindow, W!Spec

-------------------------------------------------------------------------------
(***************************************************************************)
(* What the loop of swif_rlc_build_repair_symbol leaves in the buffer.     *)
(* If a function of sets of indices starts at the buffer and goes up by    *)
(* one term with each index, whichever one is taken, then it is what the   *)
(* loop computes: no set of indices is a smallest one where they differ.   *)
(***************************************************************************)
IsTotal(Total, buf, coefs, symbols, S) ==
  /\ Total = [s \in SUBSET S |-> Total[s]]
  /\ Total[{}] = buf
  /\ \A s \in SUBSET S : \A k \in s :
       Total[s] = symbol_add_scaled(Total[s \ {k}], coefs[k], UnitVector(symbols[k]))

LEMMA LoopIsTotal ==
  ASSUME NEW S, IsFiniteSet(S), NEW buf, NEW coefs, NEW symbols, NEW Total,
         IsTotal(Total, buf, coefs, symbols, S)
  PROVE  AddCombination(buf, coefs, symbols, S) = Total[S]
<1> DEFINE
      Pick(s) == CHOOSE k \in s : TRUE
      Turn(g, s) ==
        IF s = {} THEN buf
        ELSE symbol_add_scaled(g[s \ {Pick(s)}], coefs[Pick(s)], UnitVector(symbols[Pick(s)]))
      Loop == CHOOSE g : g = [s \in SUBSET S |-> Turn(g, s)]
<1>1. AddCombination(buf, coefs, symbols, S) = Loop[S]
  BY DEF AddCombination, FoldSet, MapThenFoldSet
<1>2. \A s : s # {} => Pick(s) \in s
  OBVIOUS
<1> HIDE DEF Pick
<1>3. \A s \in SUBSET S : Total[s] = Turn(Total, s)
  BY <1>2 DEF IsTotal
<1>4. Total = [s \in SUBSET S |-> Turn(Total, s)]
  <2> HIDE DEF Turn
  <2>1. QED
    BY <1>3 DEF IsTotal
<1>5. Loop = [s \in SUBSET S |-> Turn(Loop, s)]
  <2> HIDE DEF Turn
  <2>1. QED
    BY <1>4
<1> HIDE DEF Loop
<1>6. \A s \in SUBSET S : Loop[s] = Turn(Loop, s)
  <2> HIDE DEF Turn
  <2>1. QED
    BY <1>5
<1> DEFINE Differ == {s \in SUBSET S : Loop[s] # Total[s]}
<1>7. Differ = {}
  <2>1. SUFFICES ASSUME Differ # {} PROVE FALSE
    OBVIOUS
  <2>2. Differ \subseteq FiniteSubsetsOf(S)
    BY FS_Subset DEF FiniteSubsetsOf
  <2>3. PICK s \in Differ : \A t \in Differ : ~(<<t, s>> \in StrictSubsetOrdering(S))
    <3> HIDE DEF Differ
    <3>1. QED
      BY <2>1, <2>2, FS_StrictSubsetOrderingWellFounded, WFMin
  <2>4. s \in SUBSET S /\ Loop[s] # Total[s]
    BY <2>3
  <2>5. s # {}
    BY <1>3, <1>6, <2>4
  <2> DEFINE t == s \ {Pick(s)}
  <2>6. Pick(s) \in s /\ t \in SUBSET S /\ <<t, s>> \in StrictSubsetOrdering(S)
    BY <1>2, <2>4, <2>5 DEF StrictSubsetOrdering
  <2>7. Loop[t] = Total[t]
    BY <2>3, <2>6
  <2>8. QED
    BY <1>3, <1>6, <2>4, <2>5, <2>7
<1>8. QED
  BY <1>1, <1>7

(***************************************************************************)
(* Over different symbols, the loop gives each one its coefficient, and    *)
(* nothing to any other.                                                   *)
(***************************************************************************)
LEMMA CombinationIs ==
  ASSUME NEW S, IsFiniteSet(S), NEW coefs, NEW symbols,
         \A k \in S : coefs[k] \in F /\ symbols[k] \in Ids,
         \A j, k \in S : symbols[j] = symbols[k] => j = k
  PROVE  LET V == AddCombination(ZeroVector, coefs, symbols, S)
         IN  /\ V \in Vector
             /\ \A k \in S : V[symbols[k]] = coefs[k]
             /\ \A c \in Ids : (\A k \in S : symbols[k] # c) => V[c] = Zero
<1> DEFINE
      Of(c) == CHOOSE k \in S : symbols[k] = c
      Value(s, c) == IF \E k \in s : symbols[k] = c THEN coefs[Of(c)] ELSE Zero
      Total == [s \in SUBSET S |-> [c \in Ids |-> Value(s, c)]]
<1>1. \A k \in S : Of(symbols[k]) = k
  OBVIOUS
<1> HIDE DEF Of
<1>2. \A s \in SUBSET S : \A k \in s : Value(s, symbols[k]) = coefs[k]
  BY <1>1
<1>3. \A s \in SUBSET S : \A c \in Ids : Value(s, c) \in F
  BY <1>1, FieldAssumption
<1>4. ASSUME NEW s \in SUBSET S, NEW k \in s
      PROVE  Total[s] = symbol_add_scaled(Total[s \ {k}], coefs[k], UnitVector(symbols[k]))
  <2>1. ASSUME NEW c \in Ids
        PROVE  Value(s, c)
                 = gf256_add(Value(s \ {k}, c), gf256_mul(coefs[k], UnitVector(symbols[k])[c]))
    <3>1. CASE c = symbols[k]
      <4>1. Value(s, c) = coefs[k] /\ Value(s \ {k}, c) = Zero
        BY <1>1, <3>1
      <4>2. UnitVector(symbols[k])[c] = One
        BY <3>1 DEF UnitVector
      <4>3. coefs[k] \in F /\ Zero \in F /\ gf256_mul(coefs[k], One) = coefs[k]
        BY FieldAssumption
      <4>4. gf256_add(Zero, coefs[k]) = coefs[k]
        BY <4>3, FieldAssumption
      <4>5. QED
        BY <4>1, <4>2, <4>3, <4>4
    <3>2. CASE c # symbols[k]
      <4>1. Value(s \ {k}, c) = Value(s, c)
        BY <3>2
      <4>2. UnitVector(symbols[k])[c] = Zero
        BY <3>2 DEF UnitVector
      <4>3. coefs[k] \in F /\ gf256_mul(coefs[k], Zero) = Zero
        BY FieldAssumption
      <4>4. Value(s, c) \in F
        BY <1>3
      <4>5. gf256_add(Value(s, c), Zero) = Value(s, c)
        BY <4>4, FieldAssumption
      <4>6. QED
        BY <4>1, <4>2, <4>3, <4>5
    <3>3. QED
      BY <3>1, <3>2
  <2>2. s \ {k} \in SUBSET S
    OBVIOUS
  <2> HIDE DEF Value
  <2>3. /\ Total[s] = [c \in Ids |-> Value(s, c)]
        /\ Total[s \ {k}] = [c \in Ids |-> Value(s \ {k}, c)]
    BY <2>2
  <2>4. QED
    BY <2>1, <2>3 DEF symbol_add_scaled
<1>5. Total[{}] = ZeroVector
  BY DEF ZeroVector
<1>6. IsTotal(Total, ZeroVector, coefs, symbols, S)
  <2>1. Total = [s \in SUBSET S |-> Total[s]]
    OBVIOUS
  <2> HIDE DEF Total
  <2>2. QED
    BY <1>4, <1>5, <2>1 DEF IsTotal
<1> HIDE DEF Total
<1>7. AddCombination(ZeroVector, coefs, symbols, S) = Total[S]
  BY <1>6, LoopIsTotal
<1>8. Total[S] = [c \in Ids |-> Value(S, c)]
  <2> HIDE DEF Value
  <2>1. QED
    BY DEF Total
<1>9. QED
  <2>1. \A c \in Ids : (\A k \in S : symbols[k] # c) => Value(S, c) = Zero
    OBVIOUS
  <2>2. \A k \in S : Value(S, symbols[k]) = coefs[k]
    BY <1>2
  <2>3. \A c \in Ids : Value(S, c) \in F
    BY <1>3
  <2> HIDE DEF Value
  <2>4. QED
    BY <1>7, <1>8, <2>1, <2>2, <2>3 DEF Vector

(* The slots the loop reads hold symbols of the window, all different.     *)
LEMMA RepairSlots ==
  ASSUME IInv
  PROVE  /\ IsFiniteSet(RepairIndices) /\ IsFiniteSet(1 .. ew_ss_nb)
         /\ \A n \in 1 .. ew_ss_nb : Window[n] \in Ids /\ Window[n] = ew_esi_right - ew_ss_nb + n
         /\ \A k \in RepairIndices :
              /\ k \in Slots /\ k % max_coding_window_size = k
              /\ k - ew_left + 1 \in 1 .. ew_ss_nb
              /\ ew_tab[k] = Window[k - ew_left + 1]
<1>1. /\ max_coding_window_size \in Nat \ {0} /\ ew_left \in Slots /\ ew_ss_nb \in Nat
      /\ ew_ss_nb <= max_coding_window_size
  BY WindowSizeAssumption DEF IInv, RingTypeOK
<1>2. ew_left \in Nat /\ ew_left < max_coding_window_size
  BY <1>1 DEF Slots
<1>3. ASSUME NEW n \in 1 .. ew_ss_nb
      PROVE  Window[n] \in Ids /\ Window[n] = ew_esi_right - ew_ss_nb + n
  <2>1. /\ ew_esi_right \in Nat /\ ew_esi_right <= MaxId /\ ew_esi_right + 1 >= ew_ss_nb
        /\ Window[n] = ew_esi_right - ew_ss_nb + n /\ MaxId \in Nat
    BY <1>1, <1>3, MaxIdAssumption DEF IInv, RingShape, WindowContents, Ids
  <2>2. QED
    BY <1>1, <2>1 DEF Ids
<1>4. ASSUME NEW k \in RepairIndices
      PROVE  /\ k \in Slots /\ k % max_coding_window_size = k
             /\ k - ew_left + 1 \in 1 .. ew_ss_nb
             /\ ew_tab[k] = Window[k - ew_left + 1]
  <2>1. k \in Nat /\ ew_left <= k /\ k < ew_ss_nb /\ k < max_coding_window_size
    BY <1>1, <1>2 DEF RepairIndices
  <2>2. k % max_coding_window_size = k
    BY <1>1, <2>1, ModWindow
  <2> DEFINE n == k - ew_left + 1
  <2>3. n \in 1 .. ew_ss_nb /\ n \in 1 .. max_coding_window_size /\ ew_left + n - 1 = k
    BY <1>1, <1>2, <2>1
  <2>4. SlotOf(ew_left, n) = k
    BY <1>1, <2>1, <2>3, SlotFacts
  <2>5. Window[n] = ew_tab[k]
    BY <2>3, <2>4, WindowAt
  <2>6. QED
    BY <1>1, <2>1, <2>2, <2>3, <2>5 DEF Slots
<1>5. IsFiniteSet(RepairIndices) /\ IsFiniteSet(1 .. ew_ss_nb)
  BY <1>1, <1>2, FS_Interval DEF RepairIndices
<1>6. QED
  BY <1>3, <1>4, <1>5

(***************************************************************************)
(* What swif_rlc_build_repair_symbol computes, wherever the window is: it  *)
(* gives the symbols of the slots from ew_left to ew_ss_nb their           *)
(* coefficients, and nothing to any other.  (These slots are the whole     *)
(* window only until it slides.)                                           *)
(***************************************************************************)
LEMMA RepairIs ==
  ASSUME IInv
  PROVE  LET V == RepairLoop(ZeroVector)
         IN  /\ V \in Vector
             /\ \A k \in RepairIndices : V[ew_tab[k]] = cc_tab[k]
             /\ \A c \in Ids : (\A k \in RepairIndices : ew_tab[k] # c) => V[c] = Zero
<1> DEFINE
      coefs == [k \in RepairIndices |-> cc_tab[k % max_coding_window_size]]
      symbols == [k \in RepairIndices |-> ew_tab[k % max_coding_window_size]]
<1>1. \A k \in RepairIndices : coefs[k] = cc_tab[k] /\ symbols[k] = ew_tab[k]
  BY RepairSlots
<1>2. \A k \in RepairIndices : coefs[k] \in F /\ symbols[k] \in Ids
  BY <1>1, RepairSlots DEF IInv, RingTypeOK
<1>3. ASSUME NEW j \in RepairIndices, NEW k \in RepairIndices, symbols[j] = symbols[k]
      PROVE  j = k
  <2>1. Window[j - ew_left + 1] = Window[k - ew_left + 1]
    BY <1>1, <1>3, RepairSlots
  <2>2. /\ Window[j - ew_left + 1] = ew_esi_right - ew_ss_nb + (j - ew_left + 1)
        /\ Window[k - ew_left + 1] = ew_esi_right - ew_ss_nb + (k - ew_left + 1)
        /\ ew_esi_right - ew_ss_nb \in Int
    <3>1. ew_ss_nb > 0 /\ ew_ss_nb \in Nat
      BY RepairSlots, WindowSizeAssumption DEF IInv, RingTypeOK
    <3>2. ew_esi_right \in Int
      BY <3>1, MaxIdAssumption DEF IInv, RingShape, Ids
    <3>3. QED
      BY <3>1, <3>2, RepairSlots
  <2>3. j \in Int /\ k \in Int /\ ew_left \in Int
    BY RepairSlots, WindowSizeAssumption DEF Slots, IInv, RingTypeOK
  <2>4. PICK a \in Int : a = ew_esi_right - ew_ss_nb
    BY <2>2
  <2>5. a + (j - ew_left + 1) = a + (k - ew_left + 1)
    BY <2>1, <2>2, <2>4
  <2>6. QED
    BY <2>3, <2>4, <2>5
<1>4. RepairLoop(ZeroVector) = AddCombination(ZeroVector, coefs, symbols, RepairIndices)
  BY DEF RepairLoop
<1> HIDE DEF coefs, symbols
<1>5. IsFiniteSet(RepairIndices)
  BY RepairSlots
<1>6. LET V == AddCombination(ZeroVector, coefs, symbols, RepairIndices)
      IN  /\ V \in Vector
          /\ \A k \in RepairIndices : V[symbols[k]] = coefs[k]
          /\ \A c \in Ids : (\A k \in RepairIndices : symbols[k] # c) => V[c] = Zero
  BY <1>2, <1>3, <1>5, CombinationIs
<1>7. QED
  BY <1>1, <1>4, <1>6

(* Until the window slides it is all of the window that the repair symbol  *)
(* covers, as its header announces.                                        *)
LEMMA RepairBeforeSlide ==
  ASSUME IInv, ew_left = 0, ew_ss_nb > 0
  PROVE  LET V == RepairLoop(ZeroVector)
             first == ew_esi_right - ew_ss_nb + 1
         IN  /\ V \in Vector /\ first \in Ids
             /\ \A c \in Ids : V[c] = IF c \in first .. first + ew_ss_nb - 1
                                      THEN cc_tab[c - first] ELSE Zero
<1> DEFINE V == RepairLoop(ZeroVector)
           first == ew_esi_right - ew_ss_nb + 1
<1>1. /\ ew_ss_nb \in Nat \ {0} /\ ew_ss_nb <= max_coding_window_size
      /\ ew_esi_right \in Ids /\ ew_esi_right \in Nat /\ ew_esi_right + 1 >= ew_ss_nb
  BY WindowSizeAssumption, MaxIdAssumption DEF IInv, RingTypeOK, RingShape, Ids
<1>2. first \in Ids /\ first \in Nat
  BY <1>1, MaxIdAssumption DEF Ids
<1>3. RepairIndices = 0 .. ew_ss_nb - 1
  BY DEF RepairIndices
<1>4. ASSUME NEW k \in RepairIndices PROVE ew_tab[k] = first + k
  <2>1. k \in Nat /\ k + 1 \in 1 .. ew_ss_nb /\ k - 0 + 1 = k + 1
    BY <1>1, <1>3
  <2>2. ew_tab[k] = Window[k + 1]
    BY <2>1, RepairSlots
  <2>3. Window[k + 1] = ew_esi_right - ew_ss_nb + (k + 1)
    BY <1>1, <2>1 DEF IInv, WindowContents
  <2>4. QED
    BY <1>1, <2>1, <2>2, <2>3
<1>5. V \in Vector
  BY RepairIs
<1>6. ASSUME NEW c \in Ids
      PROVE  V[c] = IF c \in first .. first + ew_ss_nb - 1 THEN cc_tab[c - first] ELSE Zero
  <2>1. c \in Nat
    BY MaxIdAssumption DEF Ids
  <2>2. CASE c \in first .. first + ew_ss_nb - 1
    <3>1. c - first \in RepairIndices /\ first + (c - first) = c
      BY <1>1, <1>2, <1>3, <2>1, <2>2
    <3>2. ew_tab[c - first] = c
      BY <1>4, <3>1
    <3>3. QED
      BY <2>2, <3>1, <3>2, RepairIs
  <2>3. CASE c \notin first .. first + ew_ss_nb - 1
    <3>1. \A k \in RepairIndices : first + k \in first .. first + ew_ss_nb - 1
      BY <1>1, <1>2, <1>3
    <3>2. \A k \in RepairIndices : ew_tab[k] # c
      BY <1>4, <2>3, <3>1
    <3>3. QED
      BY <2>3, <3>2, RepairIs
  <2>4. QED
    BY <2>2, <2>3
<1>7. QED
  BY <1>2, <1>5, <1>6

(* A step leaves a vector in the buffer of the repair symbol.              *)
LEMMA BufferTyped ==
  ASSUME IInv, new_buf \in Vector, [Next]_vars
  PROVE  new_buf' \in Vector
<1>1. CASE BuildRepairSymbol
  BY <1>1, RepairIs DEF BuildRepairSymbol
<1>2. CASE ~BuildRepairSymbol
  BY <1>2 DEF Next, vars, SetCallbackFunctions, SlideWindow, AddFirst, AddNext,
     SetCodingCoefsTab, GenerateCodingCoefs
<1>3. QED
  BY <1>1, <1>2

(* The types, the buffer of the repair symbol included.                    *)
THEOREM EncoderTypeCorrect ==
  ASSUME NoWrap
  PROVE  Spec => []TypeOK
<1>1. Init => new_buf \in Vector
  BY FieldAssumption DEF Init, ZeroVector, Vector
<1>2. IInv /\ new_buf \in Vector /\ [Next]_vars => (new_buf \in Vector)'
  BY BufferTyped
<1>3. IInv /\ new_buf \in Vector => TypeOK
  BY DEF IInv, TypeOK
<1>4. QED
  BY <1>1, <1>2, <1>3, RingInvariance, PTL DEF Spec

(***************************************************************************)
(* A repair symbol involves no symbol out of the window, whatever was in   *)
(* the buffer, in the table of coefficients and in the slots behind.       *)
(***************************************************************************)
THEOREM RepairStaysInWindow ==
  ASSUME NoWrap
  PROVE  Spec => RepairWithinWindow
<1>1. ASSUME IInv, BuildRepairSymbol, NEW c \in Ids, new_buf'[c] # Zero
      PROVE  \E n \in 1 .. ew_ss_nb : Window[n] = c
  <2>1. PICK k \in RepairIndices : ew_tab[k] = c
    BY <1>1, RepairIs DEF BuildRepairSymbol
  <2>2. QED
    BY <1>1, <2>1, RepairSlots
<1>2. IInv => (BuildRepairSymbol =>
        \A c \in Ids : new_buf'[c] # Zero => \E n \in 1 .. ew_ss_nb : Window[n] = c)
  BY <1>1
<1>3. QED
  BY <1>2, RingInvariance, PTL DEF RepairWithinWindow

(***************************************************************************)
(* As long as the ring did not turn, a repair symbol is the combination of *)
(* the whole window, each symbol with the coefficient of its rank.         *)
(***************************************************************************)
THEOREM RepairCoversWindow ==
  ASSUME NoWrap
  PROVE  Spec => RepairUntilSlide
<1>1. ASSUME IInv, ew_left = 0
      PROVE  RepairLoop(ZeroVector) = CombinationOfWindow
  <2> DEFINE
        coefs == [n \in 1 .. ew_ss_nb |-> cc_tab[n - 1]]
        V == RepairLoop(ZeroVector)
        U == AddCombination(ZeroVector, coefs, Window, 1 .. ew_ss_nb)
  <2>1. ew_ss_nb \in Nat /\ ew_ss_nb <= max_coding_window_size
    BY <1>1, WindowSizeAssumption DEF IInv, RingTypeOK
  <2>2. ASSUME NEW n \in 1 .. ew_ss_nb
        PROVE  n - 1 \in RepairIndices /\ Window[n] = ew_tab[n - 1] /\ n - 1 \in Slots
    <3>1. n - 1 \in RepairIndices /\ (n - 1) - ew_left + 1 = n
      BY <1>1, <2>1 DEF RepairIndices
    <3>2. QED
      BY <1>1, <3>1, RepairSlots
  <2>3. \A n \in 1 .. ew_ss_nb :
          coefs[n] = cc_tab[n - 1] /\ coefs[n] \in F /\ Window[n] \in Ids
    BY <1>1, <2>2, RepairSlots DEF IInv, RingTypeOK
  <2>4. ASSUME NEW j \in 1 .. ew_ss_nb, NEW n \in 1 .. ew_ss_nb, Window[j] = Window[n]
        PROVE  j = n
    <3>1. ew_esi_right \in Int
      BY <1>1, <2>1, MaxIdAssumption DEF IInv, RingShape, Ids
    <3>2. QED
      BY <1>1, <2>1, <2>4, <3>1, RepairSlots
  <2> HIDE DEF coefs
  <2>5. /\ U \in Vector
        /\ \A n \in 1 .. ew_ss_nb : U[Window[n]] = coefs[n]
        /\ \A c \in Ids : (\A n \in 1 .. ew_ss_nb : Window[n] # c) => U[c] = Zero
    <3>1. IsFiniteSet(1 .. ew_ss_nb)
      BY <1>1, RepairSlots
    <3>2. PICK S : S = 1 .. ew_ss_nb
      OBVIOUS
    <3>3. /\ IsFiniteSet(S)
          /\ \A n \in S : coefs[n] \in F /\ Window[n] \in Ids
          /\ \A j, n \in S : Window[j] = Window[n] => j = n
      BY <2>3, <2>4, <3>1, <3>2
    <3>4. LET C == AddCombination(ZeroVector, coefs, Window, S)
          IN  /\ C \in Vector
              /\ \A n \in S : C[Window[n]] = coefs[n]
              /\ \A c \in Ids : (\A n \in S : Window[n] # c) => C[c] = Zero
      BY <3>3, CombinationIs
    <3>5. QED
      BY <3>2, <3>4
  <2>6. /\ V \in Vector
        /\ \A k \in RepairIndices : V[ew_tab[k]] = cc_tab[k]
        /\ \A c \in Ids : (\A k \in RepairIndices : ew_tab[k] # c) => V[c] = Zero
    BY <1>1, RepairIs
  <2>7. U = CombinationOfWindow
    BY DEF CombinationOfWindow, coefs
  <2> HIDE DEF U, V
  <2>8. ASSUME NEW c \in Ids PROVE V[c] = U[c]
    <3>1. CASE \E n \in 1 .. ew_ss_nb : Window[n] = c
      <4>1. PICK n \in 1 .. ew_ss_nb : Window[n] = c
        BY <3>1
      <4>2. V[c] = cc_tab[n - 1] /\ U[c] = cc_tab[n - 1]
        BY <2>2, <2>3, <2>5, <2>6, <4>1
      <4>3. QED
        BY <4>2
    <3>2. CASE \A n \in 1 .. ew_ss_nb : Window[n] # c
      <4>1. \A k \in RepairIndices : ew_tab[k] # c
        BY <1>1, <3>2, RepairSlots
      <4>2. QED
        BY <2>5, <2>6, <3>2, <4>1
    <3>3. QED
      BY <3>1, <3>2
  <2>9. V = U
    BY <2>5, <2>6, <2>8 DEF Vector
  <2>10. QED
    BY <2>7, <2>9 DEF V
<1>2. IInv => (BuildRepairSymbol /\ ew_left = 0 => new_buf' = CombinationOfWindow)
  BY <1>1 DEF BuildRepairSymbol
<1>3. QED
  BY <1>2, RingInvariance, PTL DEF RepairUntilSlide
===============================================================================
