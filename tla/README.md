# A verification development of the SWiF codec

The SWiF codec is a sliding-window erasure code library. A sender keeps the
last source symbols in an *encoding window* and from time to time emits a
*repair symbol*, a random linear combination of the window over GF(2^8). A
receiver puts everything it gets into a linear system kept in reduced echelon
form, and reports each source symbol the system solves. This directory holds
TLA+ modules of the encoder, the decoder, its linear system, the generator of
coefficients and the demo sender and receiver, the TLC configurations that
check them and TLAPS proofs about them.

## 1. The system

Paths are relative to the root of the repository.

| Part | Source | State | Operations | Status |
|---|---|---|---|---|
| Field and vectors | `src/swif_symbol.[ch]` | none | add, multiply, invert; add, scale vectors | modelled |
| GF(2^8) tables | `src/swif_table-mul-gf256.c` | none | products, inverses | modelled |
| Full symbol | `src/swif_full_symbol_impl.c`, `src/swif_full_symbol.h` | `coef`, `first_id`, `last_id`, `first_nonzero_id`, `last_nonzero_id`, `data`, `data_size` | create, clone, scale, add, bounds | modelled, as functions and as arrays |
| Linear system | `src/swif_full_symbol_impl.c` | `size`, `first_symbol_id`, `full_symbol_tab` | add with elimination, get pivot, callback | modelled, on rows and on pointers |
| Encoder | `src/swif_rlc_api.c`, `src/swif_rlc_cb.h` | ring `ew_*`, `cc_tab` | add source symbol, set/generate coefficients, build repair, window information | modelled |
| Decoder | `src/swif_rlc_api.c`, `src/swif_rlc_cb.h` | `first_id`, `nb_id`, `coef_tab`, the linear system | reset window, list symbol, generate, submit source/repair | modelled |
| Coefficients, PRNG | `src/swif_coding_coefficients.c`, `src/swif_prng.c` | TinyMT state, the table being filled | initialise, draw, generate | modelled |
| Demo server | `applis/simple_client_server/simple_server.c` | schedule of repair packets | sending loop, losses | modelled |
| Demo client | `applis/simple_client_server/simple_client.c` | tables of source symbols and their status | first packet, reception loop, decoded callback, end | partly: no table of repair symbols, no statistics |
| API dispatch | `src/swif_api.c` | none | calls through function pointers | not modelled: stateless |
| Dense linear code | `src/swif_linear-code.c`, `src/swif_full_symbol_lc.c` | - | - | not modelled: not compiled into the library |
| Python wrapper, tests, plots | `wrapper/`, `tests/`, `perf*.sh`, `plot_*.py` | - | - | not modelled: bindings and scripts |

How they interact. The application calls the encoder or the decoder; all of it
runs in the caller's thread. The decoder calls the linear system, which calls
the application back *in the middle of its elimination loop*. Sender and
receiver share nothing but packets: a repair packet carries a key from which
both ends draw the same coefficients, and the first identifier and the size of
the window, from which the receiver rebuilds the header call by call.

What is hard here:

* the elimination replaces every row each time, grows and shifts its table
  with identifiers that come in any order, and is observed half-way by the
  callback;
* a symbol that reduces to zero takes an unusual path (it is kept as the
  multiple of a row and stored again over that row);
* the ring of the encoder is described three times over (indices, count,
  newest identifier) and all must agree after any number of turns;
* the window of a repair symbol is state kept in the decoder across several
  calls, with a capacity that depends on which call allocated it;
* full symbols are arrays addressed by differences of identifiers, allocated,
  cloned and freed on every turn of two loops;
* both ends must draw the same coefficients from what a packet header keeps of
  the key and of the window, and one of the loops of the generator has no bound;
* the schedule of repair packets is a counter in floating point;
* packets are lost, repeated and reordered.

What makes each part correct: the *linear system* must stay in reduced echelon
form, hold only true combinations, lose none, and announce each solved
identifier once and truthfully; the *encoder* must be a bounded queue whose
reports and repair symbols are those of its contents; the *decoder* must
submit the header the sender used; the *generator* must give both ends the
same coefficients; the *client* must report only what the packets determine,
and all of it where it can; the *server* must fit its schedule in its table.

## 2. Modules

| Module | Models | Remarks |
|---|---|---|
| `GaloisField` | the field, vectors, `symbol_*` | any field of characteristic 2 (`FieldAssumption`) |
| `Word` | `uint32_t` and bytes | a word is the set of its bits; sums and products wrap |
| `GF256` | the two tables of the field | `TablesAreAField`, which TLC evaluates over all bytes, says that they are such a field |
| `TinyMt32` | `swif_prng.c` | bit by bit |
| `CodingCoefficients` | `swif_coding_coefficients.c` and its callers | one action per draw; the encoder, the decoder that reads the packet, a direct call |
| `FullSymbol` | `full_symbol_*` on one symbol | a header is defined on every identifier and is zero outside the array; a payload is the combination of source payloads it is equal to |
| `FullSymbolSet` | `full_symbol_add_with_elimination` and all it calls | one action per loop iteration, `pc` tells which loop; `StoreRight`, `StoreLeft`, `Overflow` are the branches of `full_symbol_set_add` |
| `SymbolLayout` | the arrays behind a full symbol | every operation with its index arithmetic, and `...Asserts` for its assertions; `Abs` is the full symbol it stands for |
| `SymbolHeap` | the linear system on pointers | the steps of `FullSymbolSet` with their `malloc` and `free`, each address freed checked to be allocated; refines `FullSymbolSet` |
| `CodingWindow` | what an encoder window promises | the abstract specification: a bounded queue of consecutive symbols |
| `RlcEncoder` | the encoder half of `swif_rlc_api.c` | one action per API function, three for the branches of the window addition; refines `CodingWindow` |
| `RlcDecoder` | the decoder half | an `INSTANCE` of `FullSymbolSet`, plus the window under preparation |
| `SimpleServer` | `simple_server.c` | an `INSTANCE` of `RlcEncoder`, driven by the sending loop |
| `SimpleClient` | `simple_client.c` | an `INSTANCE` of `RlcDecoder`, driven packet by packet, with the exits for a first packet, a length or an identifier it refuses; refines `FullSymbolSet` |
| `Session` | the demo from end to end | `SimpleServer`, a network and an `INSTANCE` of `SimpleClient` |
| `MC*` | constants for TLC | GF(2), and GF(4), a subfield of GF(2^8); keys of the generator |
| `CodingCoefficientsProofs`, `FullSymbolSetProofs`, `SymbolHeapProofs`, `RlcEncoderProofs`, `RlcDecoderProofs`, `SimpleServerProofs`, `SimpleClientProofs`, `SessionProofs` | theorems | each about the module it is named after; `SymbolHeapProofs` also about `SymbolLayout` |

Conventions. Variables and operators keep the names of the code. A call is cut
into steps only where somebody can look: the loop iterations of the linear
system, because of the callback, the calls of the client and of the server to
the codec, and the draws of the generator. Since every operation on payloads is
linear, a payload is a vector, the combination it is equal to; a row is
truthful when its payload vector is its header (`Sound`). `known` (the span of
the submitted headers), `dropped` (rows that fell off the table), `leaked`
(their addresses), `listed`, `overrun` (whether a repair packet came whose
window is longer than `coef_tab`), `disordered` and `single` are history
variables no action reads. `notified` and `lent` are what the application saw:
how often it was told of an identifier, and which buffers handed to it the
codec has not freed.

Undefined behaviour is a choice. Writing past the end of the row table
(`Overflow`) either stops the program or loses the rows that were written
outside; writing past the end of `coef_tab` either stops it (`fault`) or does
nothing visible; reading past its end yields any value.

The server's `repair_counter` is a `double` to which `(tot_enc - tot_src) /
tot_src`, rounded, is added for each source symbol, and which is compared with
1.0. `SimpleServer` counts parts of `1 / tot_src` in integers. The error of the
sum is far below one part, so both agree except where the exact value is 1.0;
there the loop condition may go either way, and `RepairIsDue` and
`NoRepairIsDue` overlap. (A simulation of the doubles for 1000 source symbols
and up to 9000 repair packets found a difference nowhere else; 4420 of the
9001 rates end one packet short, e.g. 55 repair packets.)

Two functions of the codec read a header field that was cut: the key to 16
bits, the size of the window to `NssBits` (12) bits. `CodingCoefficients` keeps
both cuts, `SimpleServer` the second (`NssSpan`).

Some modelled functions are the identity on the state and have no action: the
`NOT YET` functions of `swif_rlc_api.c` return `SWIF_STATUS_OK` and change
nothing. A `dt` above 15 is refused by the generator, and the refusal is
ignored by its callers: nothing changes either.

## 3. Runs

Passing runs.

| Run | Question | Instance |
|---|---|---|
| `elimination` | Do the rows stay in echelon form, true and complete for every sequence of submitted symbols? | GF(4), 3 identifiers, table of 1 slot |
| `notification` | Is the application told once, and only what is decoded? Does every call return? Does the invariant of the proofs hold? | GF(2), 4 identifiers, table of 2 slots |
| `layout` | Do arrays and pointers implement the linear system? Do all assertions hold, are the nonzero bounds exact, is nothing freed twice, does nothing leak but dropped rows? | GF(2), 4 identifiers, table of 2 slots, repair symbols over the first three |
| `coefficients` | Do both ends draw the same coefficients? Are they all invertible at full density? Does every call end? | the real field and generator, 2 keys, windows of 3 and 5, 16 words |
| `window` | Is the ring a sliding queue, with true reports and, until it slides, true repair symbols? | GF(2), window of 3, 9 identifiers |
| `any_calls` | Does the decoder stay coherent under calls in any order, even with payloads that do not match? | GF(2), 2 identifiers, largest window 1, symbols of 2 bytes |
| `client` | Does the client rebuild the sender's headers without a fault, report only what it can know, and handle or refuse every packet, source or repair, over a network that loses, repeats and reorders? | GF(2), 3 identifiers, windows of 1 and 2, symbols of 2 bytes |
| `session` | Does the schedule fit its table? Is what is decoded what was read? Does an orderly session miss nothing and clean up its own buffers only? Does the session end? | GF(2), 3 source symbols, 5 packets, window of 2, 3 packets on their way |

Why the bounds are enough. A table of two slots makes identifiers fall in the
table, double it, shift it left with and without growth, and push rows off its
end; with four identifiers a shift overflows the grown table. A table of one
slot, in `elimination`, grows beyond its double, to the left and to the right,
when the second identifier is two away from the first. GF(4) has coefficients other than 0 and 1, so that scaling and
inversion count; GF(2) allows one identifier more. In `layout` the four source
symbols (`Sources`) place the rows anywhere, and the repair symbols over one
window of three (`Windows`) make arrays of every length with zeros at either
end or in the middle; the model also passed with every window of one and two,
and with GF(4) and two identifiers, but takes too long for a routine run. Nine
identifiers take a ring of three slots round twice after it fills. In
`any_calls` a window of one with symbols of two bytes makes the refused symbol,
the failing assertions, and both memory faults reachable.

In `coefficients` the second value drawn from one key is zero and so is the
first one of the other, so that a zero is drawn again in both; the other key is
above 2^16 and is cut. `NssBits` is 2, so that a window of 5 is cut, as one of
4097 is by the code; densities 7 and 15 take both loops. `MaxDraws` bounds the
words a call may draw: 16 are enough for five coefficients of these keys, and
`CallsEnd` fails if they are not. In `session` the window slides with the third
source symbol, repair packets cover one and two symbols, and the schedule meets
the tie where a rounded sum is 1; `MaxInFlight` bounds the packets in the
network, which the server's pause after each packet keeps few. Its network
loses packets and lets them overtake each other; packets that are repeated, or
that come from any other sender with a true header, are met by `client`, where
anything may arrive at any time. The session also passed with four source
symbols, windows of three, six and seven packets and full density.

In `client` a symbol has as many bytes as the largest window has symbols, so
that `coef_tab` is filled to its last entry and not overrun. (`NoFault` and
`AvailableIsKnown` also held with symbols of 2 bytes and windows of 3, where
packets overrun it and headers hold whatever is read behind it, a run of a
million states.)

`IdSpan` and `EsiSpan` stand for 2^32 and are set far above the identifiers in
use; `NssSpan` in `session` is above the number of source symbols. `MaxListed` bounds the count of listed
symbols, which the code does not bound. `MaxId` bounds identifiers.

`CHECK_DEADLOCK FALSE` is used where the program may really stop: `crashed`
after an overflow, a failed assertion, or the end of the session.

Runs that show a disagreement between the code and what is said of it.

| Run | What TLC finds |
|---|---|
| `repair_after_slide` | once the window slid, `swif_rlc_build_repair_symbol` leaves symbols out: its loop runs from the ring index `ew_left` to the count `ew_ss_nb` (`swif_rlc_api.c:88`) |
| `row_removed` | an identifier before the table, by less than its size, drops rows off its end (`swif_full_symbol_impl.c:140`) |
| `lent_buffer` | the buffer given to the application is freed by the next elimination (`swif_full_symbol_impl.c:324`) |
| `silent_decoding` | a repair symbol with a single coefficient decodes without a callback (`swif_full_symbol_impl.c:355`), and so does a late source packet that solves another symbol; the client counts them as missing |

More such points were met and have no run of their own.

* The decoder accepts one symbol more than `max_coding_window_size` (`<=` in
  `swif_rlc_api.c:319`), and the assertion of line 451 fails in a later call;
  `fault` has this outcome and `any_calls` reaches it.
* The reset allocates `coef_tab` with one entry for each byte of a symbol
  (`swif_rlc_api.c:249`), and a longer window is written past it, in the client
  too; `any_calls` reaches it.
* The clean-up of the client frees `src_symbols_tab[esi]`
  (`simple_client.c:321`), which the callback may have replaced by a payload
  the decoder freed with itself: a double free. `CleanupFreesPackets` says that
  it takes a packet out of order, or one of the other exceptions of `Orderly`.
* `rep_idx` of the client is declared in the loop body, so each repair packet
  overwrites entry 0 (`simple_client.c:179`) and the earlier buffer leaks.
* A dependent symbol is not discarded as `full_symbol_set_add` is documented to
  do, but stored again over an equal row (`ReducedEchelon`, `Sound` and
  `Complete` hold all the same).
* A window listed with a gap or a repetition is taken for consecutive
  identifiers.
* At the very end of the identifier range `size + first_symbol_id` wraps
  (`swif_full_symbol_impl.c:221`) and `INVALID_ESI` switches off the check of
  the next identifier (`swif_rlc_api.c:270`).

Fairness. `FullSymbolSet` assumes `WF_vars(Step)`, `CodingCoefficients`
`WF_vars(Draw)` and `SimpleClient` `WF_vars(Handle)`: the codec has no thread of
its own and waits for nothing, so a call that began goes on in its caller's
thread until it returns, and the client goes on handling a packet once it has
it. Nothing is assumed of the application or of the network: no symbol ever has
to be submitted and no packet has to arrive. `Session` assumes weak fairness of
its whole next-state relation: two processes on one machine (`DEST_IP` is
127.0.0.1), of which one goes on as long as one can; a packet in the network is
lost, read or discarded in the end because the client's loop reads until the
socket is empty. `CallsReturn`, `CallsEnd`, `PacketsAreHandled` and
`SessionEnds` rest on this fairness; the other properties are safety
properties.

## 4. Proofs

All theorems hold for any field of characteristic 2, any number of
identifiers, any initial table size, window size and number of packets; those
about coefficients are about GF(2^8), which is the field of the code. Their
assumptions are those of the modules (`FieldAssumption`, `IdSpanAssumption`,
`SystemAssumption`, ...), which TLC evaluates on every run, and two hypotheses
that theorems name where they need them:

* `NoWrap`: identifiers stay far enough from the end of their range that no
  sum wraps. The code wraps at 2^32; a sender would have to number that many
  symbols.
* `tot_src < NssSpan`, in `SessionProofs`: the server sends 1000 source symbols
  (`simple_server.c:127`) and a header has 12 bits for the size of a window,
  which is never above the number of source symbols (the client refuses the
  session otherwise, `simple_client.c:136`).

Nothing is assumed of the size of a window against the size of a symbol, since
the code checks nothing: `SYMBOL_SIZE` is 64 (`simple_client_server.h:45`), a
reset of the window allocates `coef_tab` with one entry for each byte of a
symbol, and the server only asks for `ew_size >= 2` (`simple_server.c:81`). A
window of more than 64 symbols is written past `coef_tab`.
`overrun` records that a repair packet over such a window came to the client;
what is said of the headers, the payloads and the memory of the client is said
as long as none has, for any `ew_size` and `symbol_size`.

`FullSymbolSetProofs`. `ReducedEchelon` is not inductive: in the middle of a
call the table is not in echelon form, since the new pivot has been eliminated
from some rows and not from others, and the row the new symbol is about to
replace may already have been eliminated to zero. `IInv` adds

* where each row is (`RowsEchelon`), including the row that vanished
  (`VanishedIsZero`), and that pivot columns are clear (`ColumnsClear`);
* while pivots are removed, that the symbol either has no coefficient left at a
  pivot already passed (`Reduced`) or is a multiple of one row, the odd path of
  a sum that vanished (`MultipleOfRow`);
* while the new pivot is eliminated, that it is normalised and clear at all
  other pivots, and how far the elimination has come (`Pivoting`);
* that `known` is a subspace that contains the symbol in hand (`InHandSound`).

The proof has one lemma per action and part, over algebraic lemmas on
sums and multiples of headers at the top of the module. From `Invariance` follow
`TypeCorrect` (with a bound on the growth of the table), `EchelonForm`,
`Soundness`, `Notification`, `ToldOnce` and, for steps, `SolvedIsNotified`.

`Completeness` says that nothing submitted is lost. That every combination of
what was submitted is one of the rows would need a fold over the rows and an
induction; `Complete` says instead that such a combination is zero once it
vanishes at every pivot, which in echelon form is the same. The invariant
`CompleteInv` states it for the middle of a call: a combination that vanishes
at the pivots of the rows, the one being replaced included, is a multiple of
the symbol in hand, up to what is left of it when its loop is over.

`SymbolHeapProofs`, the arrays. `LayoutImplements` takes the operations one by
one (`AddCorrect`, `CreateCorrect`, ...): on well-formed layouts no assertion
fails, the result is well formed with exact nonzero bounds, and it stands for
the sum, the multiple or the copy that `FullSymbol` defines. The index
arithmetic of `full_symbol_add_base` holds because every loop stays between
the bounds of the array it reads.

`SymbolHeapProofs`, the pointers. The linear system on pointers implements
`FullSymbolSet` (`HeapIsLinearSystem`), no assertion of the code fails
(`AssertionsNeverFail`), the nonzero bounds of every live symbol are exact
(`BoundsStayTight`), and between calls what is allocated is exactly the rows,
each in one slot, and the symbols of rows that fell off the table, of which
there are some if and only if a row was dropped (`NothingLeaks`). The
assertions include that whatever a call frees is allocated at that moment
(`CanFree`), whose failure is a double free. The invariant `HeapInv` says what
the code never writes down: the rows, the symbol in hand and its normalised
copy are distinct, allocated and well formed, none of them has leaked, every
allocated address is one of them or has leaked, and what the application still
has is the payload of the row of its identifier (`Lending`). Each action has
one lemma that shows three things at once, since none holds without the others:
that the assertions hold (from `LayoutImplements` and the invariant of
`FullSymbolSet`), that `HeapInv` survives, and that the step is the same step
of `FullSymbolSet` on what the pointers stand for.

`RlcEncoderProofs`. `IInv` ties the two indices, the count and the newest
identifier (`RingShape`) to the contents (`WindowContents`): in particular the
ring turns only when it is full. `Contents`, `Information` and `Refinement`
(the ring implements `CodingWindow`) follow.

The loop that builds a repair symbol is a fold over the indices of the ring,
and what a fold computes is an induction over data. `LoopIsTotal` replaces the
induction by a minimal counterexample: among the subsets of the indices where
the fold and its closed form differ, one is minimal (the strict subset order on
a finite set is well founded), and taking out the element the fold chose gives a
smaller one. From it `CombinationIs` gives the coefficient of a repair symbol
at every identifier, and `RepairStaysInWindow`, `RepairCoversWindow` and
`EncoderTypeCorrect` follow.

`RlcDecoderProofs`. `EchelonWhateverIsCalled` holds although the callers of
the decoder may submit a header and a payload that do not match. The proof
gives the linear system the *announced* payload (the header itself) beside the
received one: elimination never looks at payloads, so the rows have the same
headers as those of a truthful system, to which the invariant of
`FullSymbolSet` applies. `WindowInv` adds the window under preparation, and
`WindowTypeCorrect` and `FirstIdentifierIsListed` follow.

`SimpleServerProofs`. `ScheduleFits` is not inductive: the index into the table
says nothing of what the counter will still let through. `ScheduleInv` makes
the counter a balance, what is due for the source symbols read less what was
sent for it (`CounterIsBalance`), from which the bound on the index follows
whichever way each tie goes. `EncoderFollows` ties the window of the encoder to
what was read, so that `NeverRefused` follows. `ServerDrivesEncoder` shows that
the server makes no step its encoder would not make, so that every theorem of
the encoder holds in it, `ServerTypeCorrect` among them.

`SimpleClientProofs`. The client calls its decoder in one order only, and
that is why the failing assertions and refusals of `RlcDecoder` are out of its
reach, and its memory faults too until a window is longer than `coef_tab`
(`NoFaultInClient`): `ClientInv` follows a packet through the calls it causes
(which identifiers of its window are listed so far, that the header under
preparation is the prefix of the one in the packet), and says that a source
symbol marked as available was announced or received. `ClientIsLinearSystem`
(the client implements `FullSymbolSet` until such a window comes) follows, for
windows and symbols of any size. `AvailableIsDetermined` needs less: it looks
at headers only, so it holds after an overrun too.

`SessionProofs`. `ClientDecodesWhatWasRead` is the end-to-end theorem: while
the window never slid and no packet overran `coef_tab`, what the client is handed for a source symbol is what
the server read. Its invariant joins the two ends. On the server's side,
`ServerInv` says that the repair symbol in hand is the combination of what its
header will announce (`RepairInHand`), from `RepairCoversWindow` and from the
fact that no packet is built before an eviction (`RepairBeforeSlide`). On the
client's side `ClientFollows` says that, as long as no eviction was reported,
every packet in the network is a source packet or an honest repair packet, so
that a step of the session is a step of `SimpleClient` and its theorems apply,
those about the linear system until a packet overruns `coef_tab`. An eviction
and an overrun are never taken back, so the two parts need each other in one
direction only. Besides `NoWrap` the theorem assumes `tot_src < NssSpan`: a
window of 4096 symbols or more would be announced short.

`SessionProofs`, the order. In an orderly session the client reports exactly
what its packets determine (`ClientReportsWhatIsDetermined`) and frees only
packets of its own (`CleanupFreesItsPackets`), whether the window slid or not;
`Orderly` also asks that no window overran `coef_tab` and that no repair packet
covers a single symbol (`silent_decoding`).
The server sends the source packet of a symbol before any packet that covers
it, so in order a source packet is the first to speak of its symbol. On the way
there, `ServeOrder` and `ReceiveOrder` of `SimpleServerProofs` say this of the
packets in the network (`YoungerUnsent`, `InOrder`);
`Fresh` says that the client has nothing on a symbol whose source packet may
still come (`Untouched`: no submitted header has a coefficient there, nor has
the header under preparation). Each step of the client keeps a column it does
not touch empty (`AwayNext`). The source packet of an untouched symbol then
solves that symbol and no other, and what is solved later comes from a repair
packet, whose elimination the callback reports: this is `OrderInv` of
`SimpleClientProofs` (`Reported`, `SolvedListed`, `InHandKnown`), which holds of
any steps in `OrderlyNext`. That reported is determined needs the rows to be
combinations of what was submitted, and the converse needs `Complete`
(`OrderIsExact`); both are theorems about the linear system. The payloads of
repair packets play no part, so nothing is asked of evictions.

`CodingCoefficientsProofs`. Nothing is assumed of the words of the generator
but that a key always yields the same ones, so the theorems hold for any PRNG
in the place of TinyMT32. `TypeInvariance` needs what the packet carries
(`Carries`): the density and the size of the window, packed into sixteen bits,
come out again as what went in, the size cut to `NssBits` bits. `FullDensity`
rests on `NonzeroSoFar`, which keeps the zero that may stand at the entry under
way out of the statement, and on the field: that a product divides by its
nonzero factor (`DivisionAssumption`) is what TLC evaluates over all bytes.
`BothEnds` would be an induction over the entries, since where the generator
stands at an entry depends on every draw before it. The proof describes a table
by the number of words drawn before each entry (`Entrywise`, `DrawnUpTo`), which
is an invariant of the draws (`CallFollows`); that the same key, density and
field then leave the same entries, for as many as both tables have, is shown by
a least entry at which two descriptions differ (`SameTable`). Only the number of
entries differs between both ends, when the packet announces the window short.

Only model-checked, and why:

* liveness (`CallsReturn`, `CallsEnd`, `PacketsAreHandled`, `SessionEnds`, and
  the fairness of `ImplementsLinearSystem` in both `SymbolHeap` and
  `SimpleClient`, whose safety part is proved): it rests on `ENABLED`;
* that the two tables of GF(2^8) are a field (`TablesAreAField`,
  `DivisionAssumption`): computations over all bytes, which the theorems assume
  of their field and TLC evaluates.

## 5. Not modelled

* `swif_linear-code.c` and `swif_full_symbol_lc.c` are not in the `SRCS` of the
  Makefile and do not compile against the headers.
* `swif_api.c` keeps no state: each function calls through the table of
  function pointers of its argument. `swif_rlc_api.h` declares, and
  `swif_api.h` documents, the functions of `swif_rlc_api.c`.
* The Python wrapper, the tests, the scripts and the dump functions bind,
  exercise or print.
* Exhausted memory, failures of sockets, and the statistics and the table of
  repair symbols of the client.
* Of the multiplication table only the generating polynomial is written down;
  its 65536 numbers are more than half of the lines of the implementation, and
  stand for one operator.

## 6. What is left

Every safety invariant the runs check is also a theorem. `DecodedIsRead` cannot
be extended past the first eviction: it rests on `RepairUntilSlide`, and after
an eviction the code no longer does what that property needs
(`repair_after_slide`).
