---------------------------- MODULE FullSymbolSet ----------------------------
(***************************************************************************)
(* The linear system of the decoder (swif_full_symbol_set_t): a table of   *)
(* rows kept in reduced echelon form by on-line Gaussian elimination.  The *)
(* row whose pivot is the source symbol id sits in the slot                *)
(* id - first_symbol_id, and the table grows and shifts as identifiers     *)
(* arrive.                                                                 *)
(*                                                                         *)
(* A call of full_symbol_add_with_elimination is cut into the iterations   *)
(* of its two loops, because the application is called back between two    *)
(* of them and sees the table as it is then.                               *)
(***************************************************************************)
EXTENDS FullSymbol, FiniteSets

CONSTANTS
  FULL_SYMBOL_SET_INITIAL_SIZE,  (* Slots of a new table.                  *)
  NULL                           (* An empty slot.                         *)

ASSUME InitialSizeAssumption == FULL_SYMBOL_SET_INITIAL_SIZE \in Nat \ {0}
ASSUME NullAssumption == NULL \notin FullSymbols

VARIABLES
  size, first_symbol_id, full_symbol_tab,  (* The fields of the set.       *)
  pc,             (* Where the running call is.                            *)
  new_symbol1,    (* Its argument.                                         *)
  new_symbol,     (* The symbol it reduces, then stores.                   *)
  i,              (* The index of the loop it is in.                       *)
  is_zero,        (* Its flag: no identifier without a pivot met so far.   *)
  notified,       (* How often the application was told of an identifier.  *)
  lent,           (* Identifiers whose buffer, handed out with the         *)
                  (* callback, has not been freed by the set.              *)
  known,          (* History: the span of the headers submitted.           *)
  dropped         (* History: identifiers whose row fell off the table.    *)

set == <<size, first_symbol_id, full_symbol_tab>>
application == <<notified, lent>>
vars == <<set, pc, new_symbol1, new_symbol, i, is_zero, application, known, dropped>>

Slots == 0 .. size - 1

(* Mutant: the comparison with the first slot made strict.                 *)
GetPivotAfterFirst(id) ==
  IF id > first_symbol_id /\ id < (size + first_symbol_id) % IdSpan
  THEN full_symbol_tab[id - first_symbol_id]
  ELSE NULL

(***************************************************************************)
(* full_symbol_set_get_pivot: the row whose pivot is id, if any.  The sum  *)
(* size + first_symbol_id is a uint32_t and wraps.                         *)
(***************************************************************************)
full_symbol_set_get_pivot(id) ==
  IF id >= first_symbol_id /\ id < (size + first_symbol_id) % IdSpan
  THEN full_symbol_tab[id - first_symbol_id]
  ELSE NULL

-------------------------------------------------------------------------------
(* full_symbol_set_alloc.                                                  *)
Init ==
  /\ size = FULL_SYMBOL_SET_INITIAL_SIZE
  /\ first_symbol_id = SYMBOL_ID_NONE
  /\ full_symbol_tab = [k \in Slots |-> NULL]
  /\ pc = "idle"
  /\ new_symbol1 = ZeroSymbol /\ new_symbol = ZeroSymbol
  /\ i = 0 /\ is_zero = TRUE
  /\ notified = [id \in Ids |-> 0] /\ lent = {}
  /\ known = {ZeroVector} /\ dropped = {}

(***************************************************************************)
(* full_symbol_add_with_elimination(set, s): the call starts.  A symbol    *)
(* without any coefficient is discarded at once.                           *)
(***************************************************************************)
AddWithElimination(s) ==
  /\ pc = "idle"
  /\ \/ /\ full_symbol_is_zero(s)
        /\ UNCHANGED vars
     \/ /\ ~full_symbol_is_zero(s)
        /\ pc' = "remove"
        /\ new_symbol1' = s
        /\ new_symbol' = full_symbol_clone(s)
        /\ i' = first_nonzero_id(s)
        /\ is_zero' = TRUE
        /\ known' = SpanWith(known, s.coef)
        /\ UNCHANGED <<set, application, dropped>>

(* The end of the call; the symbols it worked on are freed.                *)
Return ==
  /\ pc' = "idle"
  /\ new_symbol1' = ZeroSymbol /\ new_symbol' = ZeroSymbol
  /\ i' = 0 /\ is_zero' = TRUE

(* Mutant: after a subtraction the loop starts again at the leading        *)
(* identifier of what it has, which never changes once the sum vanished.   *)
RemovePivotAgain ==
  LET coef  == full_symbol_get_coef(new_symbol, i)
      pivot == full_symbol_set_get_pivot(i)
      sum   == full_symbol_add(new_symbol, full_symbol_scale(pivot, coef))
  IN  /\ pc = "remove"
      /\ i <= last_nonzero_id(new_symbol)
      /\ \/ /\ coef = Zero
            /\ i' = i + 1
            /\ UNCHANGED <<new_symbol, is_zero>>
         \/ /\ coef # Zero /\ pivot = NULL
            /\ i' = i + 1
            /\ is_zero' = FALSE
            /\ UNCHANGED new_symbol
         \/ /\ coef # Zero /\ pivot # NULL
            /\ new_symbol' = IF full_symbol_is_zero(sum) THEN new_symbol ELSE sum
            /\ i' = first_nonzero_id(new_symbol')
            /\ UNCHANGED is_zero
      /\ UNCHANGED <<set, pc, new_symbol1, application, known, dropped>>

(***************************************************************************)
(* One iteration of full_symbol_set_remove_each_pivot.  The bound of the   *)
(* loop is read again at each turn, and a sum that vanishes is thrown away *)
(* in favour of the symbol it was computed from.                           *)
(***************************************************************************)
RemovePivot ==
  LET coef  == full_symbol_get_coef(new_symbol, i)
      pivot == full_symbol_set_get_pivot(i)
      sum   == full_symbol_add(new_symbol, full_symbol_scale(pivot, coef))
  IN  /\ pc = "remove"
      /\ i <= last_nonzero_id(new_symbol)
      /\ i' = i + 1
      /\ \/ /\ coef = Zero
            /\ UNCHANGED <<new_symbol, is_zero>>
         \/ /\ coef # Zero /\ pivot = NULL
            /\ is_zero' = FALSE
            /\ UNCHANGED new_symbol
         \/ /\ coef # Zero /\ pivot # NULL
            /\ new_symbol' = IF full_symbol_is_zero(sum) THEN new_symbol ELSE sum
            /\ UNCHANGED is_zero
      /\ UNCHANGED <<set, pc, new_symbol1, application, known, dropped>>

(* The symbol was redundant: nothing is stored.                            *)
Redundant ==
  /\ pc = "remove"
  /\ i > last_nonzero_id(new_symbol)
  /\ is_zero
  /\ Return
  /\ UNCHANGED <<set, application, known, dropped>>

(* Mutant: the symbol scaled by its leading coefficient, not the inverse.  *)
ScaledByLeading(s) ==
  full_symbol_scale(s, full_symbol_get_coef(s, first_nonzero_id(s)))

(* The symbol scaled so that its leading coefficient is 1.                 *)
Normalized(s) ==
  full_symbol_scale(s, gf256_inv(full_symbol_get_coef(s, first_nonzero_id(s))))

(***************************************************************************)
(* full_symbol_set_add_as_pivot starts: the leading coefficient becomes 1. *)
(***************************************************************************)
AddAsPivot ==
  /\ pc = "remove"
  /\ i > last_nonzero_id(new_symbol)
  /\ ~is_zero
  /\ new_symbol' = Normalized(new_symbol)
  /\ pc' = "pivot"
  /\ i' = 0
  /\ UNCHANGED <<set, new_symbol1, is_zero, application, known, dropped>>

(* Mutant: whether the row was solved before is not looked at.             *)
SolvedNow(row, sum) == full_symbol_has_one_id(sum)

(* is_decoded: the elimination leaves a single identifier in the row.      *)
NewlySolved(row, sum) == ~full_symbol_has_one_id(row) /\ full_symbol_has_one_id(sum)

(***************************************************************************)
(* One iteration of its loop: the leading identifier of the new symbol is  *)
(* eliminated from row i.  The row is replaced by a new one, whatever the  *)
(* coefficient, and the old one is freed, with the payload an earlier      *)
(* callback may have handed to the application.                            *)
(***************************************************************************)
EliminateRow ==
  LET row == full_symbol_tab[i]
      sum == full_symbol_add(row,
               full_symbol_scale(new_symbol,
                 full_symbol_get_coef(row, first_nonzero_id(new_symbol))))
      si  == first_nonzero_id(sum)
      freed == {first_symbol_id + i}
  IN  /\ pc = "pivot"
      /\ i < size
      /\ i' = i + 1
      /\ \/ /\ row = NULL
            /\ UNCHANGED <<set, application>>
         \/ /\ row # NULL
            /\ full_symbol_tab' = [full_symbol_tab EXCEPT ![i] = sum]
            /\ IF NewlySolved(row, sum)
               THEN /\ notified' = [notified EXCEPT ![si] = @ + 1]
                    /\ lent' = (lent \ freed) \union {si}
               ELSE /\ lent' = lent \ freed
                    /\ UNCHANGED notified
            /\ UNCHANGED <<size, first_symbol_id>>
      /\ UNCHANGED <<pc, new_symbol1, new_symbol, is_zero, known, dropped>>

-------------------------------------------------------------------------------
(***************************************************************************)
(* full_symbol_set_add: the new symbol is stored in the slot of its        *)
(* leading identifier.                                                     *)
(***************************************************************************)
NewId == first_nonzero_id(new_symbol)

SetId == IF first_symbol_id = SYMBOL_ID_NONE THEN NewId ELSE first_symbol_id

(* Mutant: a slot just past the end of the table taken for its last one.   *)
GrownSizeLate(distance) ==
  IF distance <= size THEN size
  ELSE IF distance < size * 2 THEN size * 2 ELSE distance + 1

(* The size of the table once it must reach `distance' slots further.      *)
GrownSize(distance) ==
  IF distance < size THEN size
  ELSE IF distance < size * 2 THEN size * 2 ELSE distance + 1

(* Mutants: the application told of any row stored, or never told.         *)
NotifyStoredAlways ==
  /\ notified' = [notified EXCEPT ![NewId] = @ + 1]
  /\ lent' = lent \union {NewId}

NotifyStoredNever == UNCHANGED application

(* The callback after the store, unless the argument itself had one id.    *)
NotifyStored ==
  IF ~full_symbol_has_one_id(new_symbol1) /\ full_symbol_has_one_id(new_symbol)
  THEN /\ notified' = [notified EXCEPT ![NewId] = @ + 1]
       /\ lent' = lent \union {NewId}
  ELSE UNCHANGED application

Storing == pc = "pivot" /\ i >= size

(* The slot is at or after the start of the table: the table grows to the  *)
(* right if it must, and a row already in the slot is overwritten.         *)
StoreRight ==
  LET idx_pos == NewId - SetId
  IN  /\ Storing
      /\ NewId >= SetId
      /\ first_symbol_id' = SetId
      /\ size' = GrownSize(idx_pos)
      /\ full_symbol_tab' =
           [k \in 0 .. size' - 1 |->
              IF k = idx_pos THEN new_symbol
              ELSE IF k < size THEN full_symbol_tab[k] ELSE NULL]
      /\ NotifyStored
      /\ Return
      /\ UNCHANGED <<known, dropped>>

(* The identifier precedes the table: every row moves `shift' slots to the *)
(* right.  Without growth, memmove leaves out the rows that would pass the *)
(* end; with growth it moves all of them, past the end if need be          *)
(* (Overflow), and when the program survives that they are gone as well.   *)
StoreLeft ==
  LET shift == SetId - NewId
      moved == {k \in Slots : k + shift < GrownSize(shift)}
  IN  /\ Storing
      /\ NewId < SetId
      /\ first_symbol_id' = NewId
      /\ size' = GrownSize(shift)
      /\ full_symbol_tab' =
           [k \in 0 .. size' - 1 |->
              IF k = 0 THEN new_symbol
              ELSE IF k - shift \in moved THEN full_symbol_tab[k - shift] ELSE NULL]
      /\ dropped' = dropped \union
           {SetId + k : k \in {j \in Slots \ moved : full_symbol_tab[j] # NULL}}
      /\ NotifyStored
      /\ Return
      /\ UNCHANGED known

(* The memmove of a grown table writes past its end, and the heap is       *)
(* corrupt: the program may also stop here.                                *)
Overflow ==
  LET shift == SetId - NewId
  IN  /\ Storing
      /\ NewId < SetId
      /\ shift >= size
      /\ shift + size > GrownSize(shift)
      /\ pc' = "crashed"
      /\ UNCHANGED <<set, new_symbol1, new_symbol, i, is_zero, application, known, dropped>>

-------------------------------------------------------------------------------
(* A step of the call in progress.                                         *)
Step ==
  \/ RemovePivot
  \/ Redundant
  \/ AddAsPivot
  \/ EliminateRow
  \/ StoreRight
  \/ StoreLeft
  \/ Overflow

(* The symbols a sender can submit: the payload is the combination the     *)
(* header announces.                                                       *)
Honest(v) == [coef |-> v, data |-> v]

Next ==
  \/ \E v \in Vector : AddWithElimination(Honest(v))
  \/ Step

(* The codec runs in the caller's thread: a call that began goes on.       *)
Fairness == WF_vars(Step)

Spec == Init /\ [][Next]_vars /\ Fairness

-------------------------------------------------------------------------------
Rows == {k \in Slots : full_symbol_tab[k] # NULL}

(* The identifier slot k is for.                                           *)
PivotOf(k) == first_symbol_id + k

(* Identifiers the system has solved: their row has no other coefficient.  *)
Decoded == {PivotOf(k) : k \in {j \in Rows : full_symbol_has_one_id(full_symbol_tab[j])}}

TypeOK ==
  /\ size \in Nat \ {0}
  /\ first_symbol_id \in Ids \union {SYMBOL_ID_NONE}
  /\ full_symbol_tab \in [Slots -> FullSymbols \union {NULL}]
  /\ pc \in {"idle", "remove", "pivot", "crashed"}
  /\ new_symbol1 \in FullSymbols /\ new_symbol \in FullSymbols
  /\ i \in Nat
  /\ is_zero \in BOOLEAN
  /\ notified \in [Ids -> Nat]
  /\ lent \subseteq Ids
  /\ known \subseteq Vector
  /\ dropped \subseteq Ids

(***************************************************************************)
(* Between two calls the rows are in reduced echelon form and each row is  *)
(* in the slot of its pivot: the row of slot k has coefficient 1 at        *)
(* PivotOf(k), nothing before it, and no other row has a coefficient       *)
(* there.  full_symbol_set_get_pivot, and with it every elimination,       *)
(* relies on this; swif_full_symbol_impl.c checks it nowhere.              *)
(***************************************************************************)
ReducedEchelon ==
  pc = "idle" =>
    \A k \in Rows :
      /\ PivotOf(k) \in Ids
      /\ full_symbol_tab[k].coef[PivotOf(k)] = One
      /\ \A c \in Ids : c < PivotOf(k) => full_symbol_tab[k].coef[c] = Zero
      /\ \A j \in Rows \ {k} : full_symbol_tab[j].coef[PivotOf(k)] = Zero

(***************************************************************************)
(* The decoder invents nothing: at every step every row is a combination   *)
(* of what was submitted, and its payload is the combination its header    *)
(* announces, through every scaling, addition, shift and growth.           *)
(***************************************************************************)
Sound ==
  \A k \in Rows : /\ full_symbol_tab[k].coef \in known
                  /\ full_symbol_tab[k].data = full_symbol_tab[k].coef

(***************************************************************************)
(* The decoder loses nothing: between two calls, unless a row fell off the *)
(* table, only the zero vector is a combination of what was submitted that *)
(* has no coefficient at any pivot.  The rows being in reduced form, every *)
(* combination is then the sum of the rows scaled by its coefficients at   *)
(* the pivots: the difference of the two has none there.                   *)
(***************************************************************************)
Unresolved == {v \in known : \A k \in Rows : v[PivotOf(k)] = Zero}

Complete == pc = "idle" /\ dropped = {} => Unresolved = {ZeroVector}

(***************************************************************************)
(* What the application was told stays true: an identifier it was notified *)
(* of keeps a solved row that holds its payload, even in the middle of     *)
(* later eliminations, unless that row fell off the table.                 *)
(***************************************************************************)
NotifiedIsDecoded ==
  \A id \in Ids :
    notified[id] > 0 /\ id \notin dropped =>
      \E k \in Rows : /\ PivotOf(k) = id
                      /\ full_symbol_tab[k].coef = UnitVector(id)
                      /\ full_symbol_tab[k].data = UnitVector(id)

(* The application is told at most once of an identifier, unless a row     *)
(* fell off the table and was learnt again.                                *)
NotifiedOnce ==
  dropped = {} => \A id \in Ids : notified[id] <= 1

(***************************************************************************)
(* An identifier that becomes solved is notified in that very step, unless *)
(* the symbol submitted had a single coefficient.                          *)
(***************************************************************************)
DecodingIsNotified ==
  [][\A id \in Decoded' \ Decoded :
       full_symbol_has_one_id(new_symbol1) \/ notified'[id] > notified[id]]_vars

(* Every call returns (or the program stops in Overflow).                  *)
CallsReturn == pc = "remove" ~> pc \in {"idle", "crashed"}

-------------------------------------------------------------------------------
(* Two statements of the documentation that the code does not keep.        *)

(***************************************************************************)
(* "If the linear system grows above this limit, old source symbols in     *)
(* excess are removed and the application callback called"                 *)
(* (swif_rlc_cb.h:78-82): below the limit, no row is removed.  The system  *)
(* here never holds more than MaxId + 1 symbols.                           *)
(***************************************************************************)
NoRowRemoved == dropped = {}

(***************************************************************************)
(* "it is the responsibility of the application to free this buffer when   *)
(* needed, once decoding is over (but not before since the codec does not  *)
(* keep any internal copy)" (swif_api.h:376-379): the buffer handed out    *)
(* with the callback is not freed by the codec.                            *)
(***************************************************************************)
LentBufferStays ==
  dropped = {} => \A id \in Ids : notified[id] > 0 => id \in lent

-------------------------------------------------------------------------------
(***************************************************************************)
(* The inductive invariant: what the rows and the symbol in hand look like *)
(* in the middle of a call.  It is stated for identifiers far enough from  *)
(* the end of the uint32_t range for size + first_symbol_id not to wrap.   *)
(***************************************************************************)
NoWrap == FULL_SYMBOL_SET_INITIAL_SIZE + 3 * MaxId + 1 < IdSpan

SizeBound == size <= FULL_SYMBOL_SET_INITIAL_SIZE + 2 * MaxId + 1

EmptyUntilFirst == first_symbol_id = SYMBOL_ID_NONE => Rows = {}

EchelonRow(k) ==
  /\ PivotOf(k) \in Ids
  /\ full_symbol_tab[k].coef[PivotOf(k)] = One
  /\ \A c \in Ids : c < PivotOf(k) => full_symbol_tab[k].coef[c] = Zero

(* Row k is the one the new symbol is about to replace, already eliminated *)
(* by the new symbol itself.                                               *)
Vanished(k) == pc = "pivot" /\ PivotOf(k) = NewId /\ k < i

RowsEchelon ==
  \A k \in Rows : PivotOf(k) \in Ids /\ (Vanished(k) \/ EchelonRow(k))

VanishedIsZero ==
  \A k \in Rows : Vanished(k) => full_symbol_is_zero(full_symbol_tab[k])

ColumnsClear ==
  \A k \in Rows : \A j \in Rows \ {k} : full_symbol_tab[j].coef[PivotOf(k)] = Zero

HasPivot(id) == \E k \in Rows : PivotOf(k) = id

(* While pivots are removed: either no identifier before i has both a      *)
(* coefficient and a pivot, or the symbol was found to be a multiple of    *)
(* one row and has been kept as that multiple.                             *)
Reduced ==
  /\ \A c \in Ids : c < i /\ new_symbol.coef[c] # Zero => ~HasPivot(c)
  /\ is_zero <=> \A c \in Ids : c < i => new_symbol.coef[c] = Zero

MultipleOfRow ==
  \E k \in Rows, a \in F \ {Zero} :
    /\ PivotOf(k) < i
    /\ new_symbol.coef = symbol_mul(a, full_symbol_tab[k].coef)
    /\ is_zero \/ \E c \in Ids : c # PivotOf(k) /\ new_symbol.coef[c] # Zero

Removing ==
  pc = "remove" =>
    /\ ~full_symbol_is_zero(new_symbol)
    /\ Reduced \/ MultipleOfRow

(* While the new pivot is eliminated from the rows before i.               *)
Pivoting ==
  pc = "pivot" =>
    /\ ~full_symbol_is_zero(new_symbol)
    /\ new_symbol.coef[NewId] = One
    /\ \A k \in Rows : PivotOf(k) # NewId => new_symbol.coef[PivotOf(k)] = Zero
    /\ \A k \in Rows : k < i => full_symbol_tab[k].coef[NewId] = Zero
    /\ \A k \in Rows : k >= i /\ PivotOf(k) = NewId =>
         /\ full_symbol_tab[k].coef = new_symbol.coef
         /\ \E c \in Ids : c # NewId /\ new_symbol.coef[c] # Zero

(* The symbols in hand are combinations of what was submitted, with the    *)
(* payload they announce.                                                  *)
InHandSound ==
  /\ new_symbol.coef \in known /\ new_symbol.data = new_symbol.coef
  /\ new_symbol1.data = new_symbol1.coef

IInv ==
  /\ TypeOK
  /\ SizeBound /\ EmptyUntilFirst
  /\ RowsEchelon /\ VanishedIsZero /\ ColumnsClear
  /\ Removing /\ Pivoting
  /\ IsSubspace(known) /\ InHandSound /\ Sound
  /\ NotifiedIsDecoded /\ NotifiedOnce
==============================================================================
