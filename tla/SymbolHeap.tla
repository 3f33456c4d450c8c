------------------------------ MODULE SymbolHeap ------------------------------
(***************************************************************************)
(* The linear system of the decoder as it is in memory: the table holds    *)
(* pointers to full symbols, laid out as in module SymbolLayout, and every *)
(* operation allocates, clones and frees them.  The steps are those of     *)
(* module FullSymbolSet, which this module is shown to implement.          *)
(***************************************************************************)
EXTENDS SymbolLayout, FiniteSets

CONSTANTS
  FULL_SYMBOL_SET_INITIAL_SIZE, NULL,
  Sources,    (* The source symbols that can be received.                  *)
  Windows     (* The windows of the repair symbols that can.               *)

ASSUME InitialSizeAssumption == FULL_SYMBOL_SET_INITIAL_SIZE \in Nat \ {0}
ASSUME NullAssumption == NULL \notin FullSymbols /\ NULL \notin Nat
ASSUME SourcesAssumption == Sources \subseteq Ids
ASSUME WindowsAssumption ==
  /\ Windows \subseteq [min : Ids, nb : 1 .. MaxId + 1]
  /\ \A w \in Windows : w.min + w.nb - 1 <= MaxId

VARIABLES
  size, first_symbol_id,
  full_symbol_tab,   (* Pointers, or NULL.                                 *)
  heap,              (* The full symbols that are allocated, by address.   *)
  pc,
  submitted,         (* The symbol of the caller, freed after the call.    *)
  reduced,           (* new_symbol, the copy of it that is worked on.      *)
  turn,              (* The index of the loop the call is in.              *)
  is_zero,
  notified,          (* How often the application was told.                *)
  lent_to,           (* The symbol whose payload it was told of, until it  *)
                     (* is freed.                                          *)
  known, dropped,    (* Histories, as in module FullSymbolSet.             *)
  leaked,            (* History: the symbols whose rows fell off the table *)
                     (* and that nothing points to any more.               *)
  fault              (* An assertion failed, a NULL pointer was followed,  *)
                     (* or something not allocated was freed.              *)

set == <<size, first_symbol_id, full_symbol_tab>>
application == <<notified, lent_to>>
vars == <<set, heap, pc, submitted, reduced, turn, is_zero, application,
          known, dropped, leaked, fault>>

Slots == 0 .. size - 1

(* malloc and free.                                                        *)
Fresh(h) == CHOOSE a \in 1 .. Cardinality(DOMAIN h) + 1 : a \notin DOMAIN h

Put(h, l) == [a \in DOMAIN h \union {Fresh(h)} |-> IF a = Fresh(h) THEN l ELSE h[a]]

Freed(h, addresses) == [a \in DOMAIN h \ addresses |-> h[a]]

(* full_symbol_free of a and then of b: each is allocated when it is freed. *)
CanFree(h, a, b) == a \in DOMAIN h /\ b \in DOMAIN h /\ a # b

(* What the application still has after some symbols were freed.           *)
StillLent(addresses) ==
  [id \in Ids |-> IF lent_to[id] \in addresses THEN NULL ELSE lent_to[id]]

(* full_symbol_set_get_pivot, in a table that may be the one of the next   *)
(* state.                                                                  *)
Pivot(tab, first, n, id) ==
  IF id >= first /\ id < (n + first) % IdSpan THEN tab[id - first] ELSE NULL

-------------------------------------------------------------------------------
Init ==
  /\ size = FULL_SYMBOL_SET_INITIAL_SIZE
  /\ first_symbol_id = SYMBOL_ID_NONE
  /\ full_symbol_tab = [k \in Slots |-> NULL]
  /\ heap = [a \in {} |-> NULL]
  /\ pc = "idle" /\ submitted = NULL /\ reduced = NULL
  /\ turn = 0 /\ is_zero = TRUE
  /\ notified = [id \in Ids |-> 0] /\ lent_to = [id \in Ids |-> NULL]
  /\ known = {ZeroVector} /\ dropped = {} /\ leaked = {}
  /\ fault = FALSE

Running == ~fault

(* A symbol l is created and submitted.  A zero one is freed at once, and  *)
(* so is its copy.                                                         *)
Submit(l) ==
  /\ Running /\ pc = "idle"
  /\ ~IsZero(l)
  /\ LET h1 == Put(heap, l)
         h2 == Put(h1, Clone(l))
     IN  /\ heap' = h2
         /\ submitted' = Fresh(heap)
         /\ reduced' = Fresh(h1)
  /\ turn' = l.first_nonzero_id
  /\ is_zero' = TRUE
  /\ pc' = "remove"
  /\ known' = SpanWith(known, Abs(l).coef)
  /\ fault' = ~CloneAsserts(l)
  /\ UNCHANGED <<set, application, dropped, leaked>>

(* The symbols a sender can make: the payload is the combination that the  *)
(* header announces.                                                       *)
SourceSymbols ==
  {CreateFromSource(id, UnitVector(id), MaxId + 1) : id \in Sources}

RepairSymbols ==
  LET Bytes(w, coefs) ==
        [c \in Ids |-> IF c \in w.min .. w.min + w.nb - 1 THEN coefs[c - w.min] ELSE Zero]
  IN  UNION {{Create(coefs, w.min, w.nb, Bytes(w, coefs), MaxId + 1) :
                coefs \in [0 .. w.nb - 1 -> F]} : w \in Windows}

Inputs == SourceSymbols \union RepairSymbols

(* What the sum makes superfluous: the symbol it was made of, or itself if *)
(* it vanished.                                                            *)
Spare(h, new, sum) == IF IsZero(h[sum]) THEN sum ELSE new

(* Mutant: the sum that vanished is not freed.                             *)
KeepEither(h, new, clone, sum) ==
  IF IsZero(h[sum])
  THEN reduced' = new /\ heap' = Freed(h, {clone})
  ELSE reduced' = sum /\ heap' = Freed(h, {new, clone})

(* Mutant: the symbol that is kept is the one that is freed.               *)
FreeKept(h, new, clone, sum) ==
  IF IsZero(h[sum])
  THEN reduced' = new /\ heap' = Freed(h, {new, clone})
  ELSE reduced' = sum /\ heap' = Freed(h, {sum, clone})

(* The sum replaces the symbol unless it vanished; the other is freed.     *)
KeepSum(h, new, clone, sum) ==
  /\ reduced' = IF IsZero(h[sum]) THEN new ELSE sum
  /\ heap' = Freed(h, {Spare(h, new, sum), clone})

(* One iteration of full_symbol_set_remove_each_pivot.                     *)
RemovePivot ==
  LET coef  == GetCoef(heap[reduced], turn)
      pivot == Pivot(full_symbol_tab, first_symbol_id, size, turn)
  IN  /\ Running /\ pc = "remove"
      /\ turn <= heap[reduced].last_nonzero_id
      /\ turn' = turn + 1
      /\ \/ /\ coef = Zero
            /\ UNCHANGED <<heap, reduced, is_zero, fault>>
         \/ /\ coef # Zero /\ pivot = NULL
            /\ is_zero' = FALSE
            /\ UNCHANGED <<heap, reduced, fault>>
         \/ /\ coef # Zero /\ pivot # NULL
            /\ LET clone == Fresh(heap)
                   h1 == Put(heap, Scale(Clone(heap[pivot]), coef))
                   sum == Fresh(h1)
                   h2 == Put(h1, Add(h1[reduced], h1[clone]))
               IN  /\ KeepSum(h2, reduced, clone, sum)
                   /\ fault' = ~(/\ CloneAsserts(heap[pivot])
                                 /\ ScaleAsserts(Clone(heap[pivot]))
                                 /\ AddAsserts(h1[reduced], h1[clone])
                                 /\ CanFree(h2, Spare(h2, reduced, sum), clone))
            /\ UNCHANGED is_zero
      /\ UNCHANGED <<set, pc, submitted, application, known, dropped, leaked>>

(* The end of the call: its copy and the symbol of the caller are freed.   *)
Return(h) ==
  /\ pc' = "idle" /\ submitted' = NULL /\ reduced' = NULL
  /\ turn' = 0 /\ is_zero' = TRUE
  /\ heap' = Freed(h, {reduced, submitted})

Redundant ==
  /\ Running /\ pc = "remove"
  /\ turn > heap[reduced].last_nonzero_id
  /\ is_zero
  /\ Return(heap)
  /\ fault' = ~CanFree(heap, reduced, submitted)
  /\ UNCHANGED <<set, application, known, dropped, leaked>>

(* The leading coefficient becomes 1, in place.                            *)
AddAsPivot ==
  LET l == heap[reduced]
  IN  /\ Running /\ pc = "remove"
      /\ turn > l.last_nonzero_id
      /\ ~is_zero
      /\ heap' = [heap EXCEPT ![reduced] =
                    Scale(l, gf256_inv(GetCoef(l, l.first_nonzero_id)))]
      /\ pc' = "pivot" /\ turn' = 0
      /\ fault' = ~ScaleAsserts(l)
      /\ UNCHANGED <<set, submitted, reduced, is_zero, application, known, dropped, leaked>>

(***************************************************************************)
(* rlc_decoder_notify_decoded: the row of the identifier is looked up      *)
(* again, and the payload handed to the application is its own.            *)
(***************************************************************************)
Notify(id, tab, first, n, freed, asserts) ==
  LET row == Pivot(tab, first, n, id)
  IN  /\ notified' = [notified EXCEPT ![id] = @ + 1]
      /\ lent_to' = [StillLent(freed) EXCEPT ![id] = row]
      /\ fault' = (row = NULL \/ ~asserts)

(* One iteration of the loop of full_symbol_set_add_as_pivot.              *)
EliminateRow ==
  /\ Running /\ pc = "pivot"
  /\ turn < size
  /\ turn' = turn + 1
  /\ \/ /\ full_symbol_tab[turn] = NULL
        /\ UNCHANGED <<set, heap, application, fault>>
     \/ /\ full_symbol_tab[turn] # NULL
        /\ LET row == full_symbol_tab[turn]
               clone == Fresh(heap)
               coef == GetCoef(heap[row], heap[reduced].first_nonzero_id)
               h1 == Put(heap, Scale(Clone(heap[reduced]), coef))
               sum == Fresh(h1)
               h2 == Put(h1, Add(h1[row], h1[clone]))
               si == h2[sum].first_nonzero_id
               asserts == /\ CloneAsserts(heap[reduced])
                          /\ ScaleAsserts(Clone(heap[reduced]))
                          /\ AddAsserts(h1[row], h1[clone])
                          /\ CanFree(h2, row, clone)
           IN  /\ heap' = Freed(h2, {row, clone})
               /\ full_symbol_tab' = [full_symbol_tab EXCEPT ![turn] = sum]
               /\ IF ~HasOneId(heap[row]) /\ HasOneId(h2[sum])
                  THEN Notify(si, full_symbol_tab', first_symbol_id, size, {row},
                              asserts /\ GetCoef(h2[sum], si) = One)
                  ELSE /\ lent_to' = StillLent({row})
                       /\ fault' = ~asserts
                       /\ UNCHANGED notified
        /\ UNCHANGED <<size, first_symbol_id>>
  /\ UNCHANGED <<pc, submitted, reduced, is_zero, known, dropped, leaked>>

-------------------------------------------------------------------------------
NewId == heap[reduced].first_nonzero_id

SetId == IF first_symbol_id = SYMBOL_ID_NONE THEN NewId ELSE first_symbol_id

GrownSize(distance) ==
  IF distance < size THEN size
  ELSE IF distance < size * 2 THEN size * 2 ELSE distance + 1

Storing == Running /\ pc = "pivot" /\ turn >= size

(* The copy that is stored, and the callback after it; `freed' are symbols *)
(* the store freed, `frees' says that it and the return may free.          *)
Stored == Clone(heap[reduced])

NotifyStored(freed, frees) ==
  LET asserts == CloneAsserts(heap[reduced]) /\ frees
  IN  IF ~HasOneId(heap[submitted]) /\ HasOneId(Stored)
      THEN Notify(NewId, full_symbol_tab', first_symbol_id', size', freed,
                  asserts /\ GetCoef(Stored, NewId) = One)
      ELSE /\ lent_to' = StillLent(freed)
           /\ fault' = ~asserts
           /\ UNCHANGED notified

(* The row that is overwritten, if there is one.                           *)
Overwritten(idx_pos) ==
  IF idx_pos < size /\ full_symbol_tab[idx_pos] # NULL
  THEN {full_symbol_tab[idx_pos]} ELSE {}

StoreRight ==
  LET idx_pos == NewId - SetId
      h1 == Put(heap, Stored)
      h2 == Freed(h1, Overwritten(idx_pos))
  IN  /\ Storing
      /\ NewId >= SetId
      /\ first_symbol_id' = SetId
      /\ size' = GrownSize(idx_pos)
      /\ full_symbol_tab' =
           [k \in 0 .. size' - 1 |->
              IF k = idx_pos THEN Fresh(heap)
              ELSE IF k < size THEN full_symbol_tab[k] ELSE NULL]
      /\ NotifyStored(Overwritten(idx_pos),
                      /\ Overwritten(idx_pos) \subseteq DOMAIN h1
                      /\ CanFree(h2, reduced, submitted))
      /\ Return(h2)
      /\ UNCHANGED <<known, dropped, leaked>>

(* The pointers moved past the end of the table are lost, and what they    *)
(* point to is never freed.                                                *)
StoreLeft ==
  LET shift == SetId - NewId
      moved == {k \in Slots : k + shift < GrownSize(shift)}
      lost == {k \in Slots \ moved : full_symbol_tab[k] # NULL}
      h1 == Put(heap, Stored)
  IN  /\ Storing
      /\ NewId < SetId
      /\ first_symbol_id' = NewId
      /\ size' = GrownSize(shift)
      /\ full_symbol_tab' =
           [k \in 0 .. size' - 1 |->
              IF k = 0 THEN Fresh(heap)
              ELSE IF k - shift \in moved THEN full_symbol_tab[k - shift] ELSE NULL]
      /\ dropped' = dropped \union {SetId + k : k \in lost}
      /\ leaked' = leaked \union {full_symbol_tab[k] : k \in lost}
      /\ NotifyStored({}, CanFree(h1, reduced, submitted))
      /\ Return(h1)
      /\ UNCHANGED known

(* memmove writes past the end of the grown table: the program may stop.   *)
Overflow ==
  LET shift == SetId - NewId
  IN  /\ Storing
      /\ NewId < SetId
      /\ shift >= size /\ shift + size > GrownSize(shift)
      /\ pc' = "crashed"
      /\ UNCHANGED <<set, heap, submitted, reduced, turn, is_zero, application,
                     known, dropped, leaked, fault>>

Step ==
  \/ RemovePivot \/ Redundant \/ AddAsPivot \/ EliminateRow
  \/ StoreRight \/ StoreLeft \/ Overflow

Next == (\E l \in Inputs : Submit(l)) \/ Step

Spec == Init /\ [][Next]_vars

-------------------------------------------------------------------------------
(* Pointers point to what is allocated.                                    *)
TypeOK ==
  /\ \A a \in DOMAIN heap : Shaped(heap[a])
  /\ \A k \in Slots : full_symbol_tab[k] \in DOMAIN heap \union {NULL}
  /\ reduced \in DOMAIN heap \union {NULL}
  /\ submitted \in DOMAIN heap \union {NULL}
  /\ \A id \in Ids : lent_to[id] \in DOMAIN heap \union {NULL}

(***************************************************************************)
(* No assertion on identifiers, ranges, bounds, sizes or pivots fails, the *)
(* row that is looked up for a callback exists, and whatever is freed is   *)
(* allocated at that moment: nothing is freed twice within a call.         *)
(***************************************************************************)
AssertionsHold == ~fault

(* Every symbol keeps the bounds of its nonzero coefficients, across       *)
(* sums that cancel at either end and scalings that clear it.              *)
BoundsAreTight == \A a \in DOMAIN heap : Tight(heap[a])

(***************************************************************************)
(* Between two calls the symbols allocated are the rows, each in one slot, *)
(* and those lost with the rows that fell off the table, and no others:    *)
(* no other path of the call leaks, and no row shares its symbol with      *)
(* another or with one that was given up.                                  *)
(***************************************************************************)
OnlyRowsRemain ==
  pc = "idle" =>
    LET rows == {k \in Slots : full_symbol_tab[k] # NULL}
    IN  /\ DOMAIN heap = {full_symbol_tab[k] : k \in rows} \union leaked
        /\ Cardinality(DOMAIN heap) = Cardinality(rows) + Cardinality(leaked)
        /\ leaked = {} <=> dropped = {}

(***************************************************************************)
(* Seen through Abs, the arrays and pointers implement the linear system   *)
(* of module FullSymbolSet, step by step.                                  *)
(***************************************************************************)
At(address) == IF address = NULL THEN ZeroSymbol ELSE Abs(heap[address])

Table == [k \in Slots |-> IF full_symbol_tab[k] = NULL THEN NULL
                          ELSE Abs(heap[full_symbol_tab[k]])]

S == INSTANCE FullSymbolSet WITH
       full_symbol_tab <- Table,
       new_symbol1 <- At(submitted),
       new_symbol <- At(reduced),
       i <- turn,
       lent <- {id \in Ids : lent_to[id] # NULL}

ImplementsFullSymbolSet == S!Init /\ [][S!Next]_(S!vars)
===============================================================================
