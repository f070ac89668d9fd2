------------------------------ MODULE JournalPairs ------------------------------
(***************************************************************************)
(* A trading journal: fills are paired into trades (journal/pair.py), a    *)
(* day's trades are compared with the broker's statement of the day and    *)
(* get its costs (journal/reconcile.py).                                   *)
(*                                                                         *)
(* Fills are known by their place in the order of time and fill id. A book *)
(* takes them in that order, so its deque of open lots is in it too, and   *)
(* is kept as the quantity open by fill. There is one instrument, in       *)
(* several contracts.                                                      *)
(***************************************************************************)
EXTENDS Integers, Sequences, FiniteSets, FiniteSetsExt

CONSTANTS
    Inputs,     \* what may be paired: [rows, manual], the fills and include_manual
    PerSide,    \* commission on one side of one lot
    Extra       \* day_fees_extra, in units that can be split among the trades of a day

NoGroup == 0
Sides == {"buy", "sell"}
Fill  == [group : Nat, contract : Nat, day : Nat, side : Sides,
          qty : Nat \ {0}, price : Nat, kind : {"imported", "manual"}]

ASSUME InputsAssumption == \A i \in Inputs : i.rows \in Seq(Fill) /\ i.manual \in BOOLEAN
ASSUME CostsAssumption  == PerSide \in Nat /\ Extra \in Nat
ASSUME SharesAssumption == \A i \in Inputs : \A n \in 1..Len(i.rows) : Extra % n = 0

VARIABLES
    rows,       \* the frame of fills, constant
    manual,     \* include_manual, constant
    todo,       \* the groups not yet paired
    pending,    \* by fill, what no book has taken in yet
    book,       \* the book at work: its key, pair_method and fills
    opens,      \* by fill, what is open in the book
    count,      \* lot_seq
    trades      \* the journal trades; an open one has no exit

vars == <<rows, manual, todo, pending, book, opens, count, trades>>

Fills  == DOMAIN rows
NoFill == 0
NoBook == [key |-> <<>>, method |-> "none", fills |-> {}]
Raised == [key |-> <<>>, method |-> "raised", fills |-> {}]
NoLots == [f \in Fills |-> 0]

Total(S, Q(_)) == MapThenSumSet(Q, S)
BoughtIn(S) == Total({f \in S : rows[f].side = "buy"}, LAMBDA f : rows[f].qty)
SoldIn(S)   == Total({f \in S : rows[f].side = "sell"}, LAMBDA f : rows[f].qty)

\* _fills_from_frame leaves out manual rows unless they are asked for.
Init ==
    /\ \E i \in Inputs : rows = i.rows /\ manual = i.manual
    /\ pending = [f \in Fills |-> IF rows[f].kind = "imported" \/ manual THEN rows[f].qty ELSE 0]
    /\ todo = {rows[f].group : f \in {g \in Fills : pending[g] > 0}} \ {NoGroup}
    /\ book = NoBook /\ opens = NoLots /\ count = 0 /\ trades = {}

-----------------------------------------------------------------------------
(* One book: first in, first out *)

\* The fill whose turn it is, and the lot at the head of the deque.
Turn(f)  == f \in book.fills /\ pending[f] > 0 /\ \A g \in book.fills : pending[g] > 0 => f <= g
Front(l) == l \in Fills /\ opens[l] > 0 /\ \A g \in Fills : opens[g] > 0 => l <= g

Trade(n, entry, exit, qty) ==
    [key |-> book.key, seq |-> n, method |-> book.method, entry |-> entry, exit |-> exit, qty |-> qty]

\* _fifo_match: a fill on the side of the first open lot, or with none open, is a lot more.
OpenLot(f) ==
    /\ Turn(f)
    /\ \A l \in Fills : Front(l) => rows[l].side = rows[f].side
    /\ opens' = [opens EXCEPT ![f] = pending[f]]
    /\ pending' = [pending EXCEPT ![f] = 0]
    /\ UNCHANGED <<rows, manual, todo, book, count, trades>>

\* Mutant: the fill is done with its first trade.
MatchWhole(f, l) ==
    /\ Turn(f) /\ Front(l) /\ rows[l].side # rows[f].side
    /\ LET take == IF opens[l] < pending[f] THEN opens[l] ELSE pending[f] IN
       /\ trades' = trades \cup {Trade(count, l, f, take)}
       /\ opens' = [opens EXCEPT ![l] = @ - take]
       /\ pending' = [pending EXCEPT ![f] = 0]
    /\ count' = count + 1
    /\ UNCHANGED <<rows, manual, todo, book>>

\* _fifo_match, _closed_trade: otherwise it closes as much of that lot as it can.
MatchLot(f, l) ==
    /\ Turn(f) /\ Front(l) /\ rows[l].side # rows[f].side
    /\ LET take == IF opens[l] < pending[f] THEN opens[l] ELSE pending[f] IN
       /\ trades' = trades \cup {Trade(count, l, f, take)}
       /\ opens' = [opens EXCEPT ![l] = @ - take]
       /\ pending' = [pending EXCEPT ![f] = @ - take]
    /\ count' = count + 1
    /\ UNCHANGED <<rows, manual, todo, book>>

-----------------------------------------------------------------------------
(* Groups first, then what is left of each session *)

Start(key, method, fills) ==
    /\ book = NoBook
    /\ book' = [key |-> key, method |-> method, fills |-> fills]
    /\ count' = 0
    /\ UNCHANGED <<rows, manual, pending, opens, trades>>

Members(g) == {f \in Fills : pending[f] > 0 /\ rows[f].group = g}

\* _assert_homogeneous_group
Homogeneous(S) == \A f, g \in S : rows[f].contract = rows[g].contract

\* _nets_flat_one_open_side
NetsFlatOneOpenSide(S) ==
    LET Net(f) == BoughtIn({g \in S : g <= f}) - SoldIn({g \in S : g <= f})
    IN /\ S # {} /\ BoughtIn(S) = SoldIn(S)
       /\ (\A f \in S : Net(f) >= 0) \/ (\A f \in S : Net(f) <= 0)

PairGroup(g) ==
    /\ g \in todo /\ todo' = todo \ {g}
    /\ Homogeneous(Members(g))
    /\ Start(<<g>>, IF NetsFlatOneOpenSide(Members(g)) THEN "spread_id" ELSE "fifo_fallback", Members(g))

\* JournalIngestError: nothing is paired at all.
MixedGroup(g) ==
    /\ book = NoBook /\ g \in todo
    /\ ~Homogeneous(Members(g))
    /\ book' = Raised
    /\ UNCHANGED <<rows, manual, todo, pending, opens, count, trades>>

\* Mutant: one book for a session date.
PairDay(contract, day) ==
    LET S == {f \in Fills : pending[f] > 0 /\ rows[f].day = day} IN
    /\ todo = {} /\ S # {}
    /\ Start(<<contract, day>>, "fifo_fallback", S)
    /\ UNCHANGED todo

\* _fallback_key: one book for a contract and a session date.
PairSession(contract, day) ==
    LET S == {f \in Fills : pending[f] > 0 /\ rows[f].contract = contract /\ rows[f].day = day} IN
    /\ todo = {} /\ S # {}
    /\ Start(<<contract, day>>, "fifo_fallback", S)
    /\ UNCHANGED todo

OfGroup == Len(book.key) = 1
Over == book.fills # {} /\ \A f \in book.fills : pending[f] = 0

\* A group that was matched first in, first out leaves its open lots to the session
\* (_fill_from_lot).
ReleaseGroup ==
    /\ Over /\ OfGroup /\ book.method = "fifo_fallback"
    /\ pending' = [f \in Fills |-> pending[f] + opens[f]]
    /\ book' = NoBook /\ opens' = NoLots
    /\ UNCHANGED <<rows, manual, todo, count, trades>>

\* _open_trade, numbered on from the closed ones
OpenTrade(f) ==
    Trade(count + Cardinality({g \in Fills : opens[g] > 0 /\ g < f}), f, NoFill, opens[f])

\* _fifo_pair: what is open at the end is an open trade.
EndBook ==
    /\ Over /\ ~(OfGroup /\ book.method = "fifo_fallback")
    /\ trades' = trades \cup {OpenTrade(f) : f \in {g \in Fills : opens[g] > 0}}
    /\ book' = NoBook /\ opens' = NoLots
    /\ UNCHANGED <<rows, manual, todo, pending, count>>

Done == book = NoBook /\ todo = {} /\ \A f \in Fills : pending[f] = 0
Rest == (Done \/ book = Raised) /\ UNCHANGED vars

Next ==
    \/ \E f \in Fills : OpenLot(f) \/ \E l \in Fills : MatchLot(f, l)
    \/ \E g \in todo : PairGroup(g) \/ MixedGroup(g)
    \/ \E f \in Fills : PairSession(rows[f].contract, rows[f].day)
    \/ ReleaseGroup \/ EndBook \/ Rest

Spec == Init /\ [][Next]_vars

-----------------------------------------------------------------------------
(* Reconciliation. A statement is [fills, ps]: the fills it confirms, of the journal's,  *)
(* and the profit it states.                                                             *)

Imported(day) == {f \in Fills : rows[f].day = day /\ rows[f].kind = "imported"}

\* _closed_gross of one trade
Gross(t) ==
    LET points == rows[t.exit].price - rows[t.entry].price
    IN t.qty * (IF rows[t.entry].side = "buy" THEN points ELSE -points)

\* Mutant: manual trades count.
BookedAll(day) == {t \in trades : t.exit # NoFill /\ rows[t.entry].day = day}

\* The trades of a day: closed, with an imported entry (_closed_gross, _apply_costs).
Booked(day) == {t \in trades : t.exit # NoFill /\ t.entry \in Imported(day)}

\* _fill_key, _journal_multiset, _amp_multiset
Multiset(S) ==
    LET Key(f) == <<rows[f].price, rows[f].side, rows[f].qty>>
    IN [k \in {Key(f) : f \in S} |-> Cardinality({f \in S : Key(f) = k})]

\* _reconcile_day, of a day with a statement
Status(day, st) ==
    CASE Imported(day) = {} -> "journal_missing"
      [] Imported(day) # {} /\ Multiset(Imported(day)) # Multiset(st.fills) -> "multiset_mismatch"
      [] OTHER -> IF Booked(day) # {} /\ Total(Booked(day), Gross) = st.ps
                  THEN "reconciled" ELSE "pnl_mismatch"

\* _apply_costs, _cost_row: net_pnl_currency of a booked trade of a reconciled day
Net(t, day) == Gross(t) - PerSide * 2 * t.qty - Extra \div Cardinality(Booked(day))

\* fee_total: the schedule times the sides, and the extras
Fees(st) == PerSide * Total(st.fills, LAMBDA f : rows[f].qty) + Extra

-----------------------------------------------------------------------------
\* _fifo_match, _fill_from_lot and _fifo_pair pass quantities on from a fill to lots, from
\* a group to a session: of every fill, what is waiting, open and traded is what was
\* filled. No two trades have one id, and the spread branch leaves nothing open ("Net-flat
\* + one open side should consume every lot").
LotsAreAccounted ==
    /\ \A f \in Fills :
          rows[f].kind = "imported" \/ manual =>
             pending[f] + opens[f] + Total({t \in trades : f \in {t.entry, t.exit}}, LAMBDA t : t.qty)
                = rows[f].qty
    /\ \A t, u \in trades : t.key = u.key /\ t.seq = u.seq => t = u
    /\ \A t \in trades : t.exit = NoFill => t.method # "spread_id"

Linked(f, g) ==
    /\ rows[f].contract = rows[g].contract
    /\ rows[f].day = rows[g].day \/ (rows[f].group = rows[g].group /\ rows[f].group # NoGroup)

\* Whatever groups leave to sessions: a book is never open on both sides, and a trade
\* closes a lot by a later fill of the other side, of the same contract, and of the same
\* session or group.
TradesAreRoundTrips ==
    /\ \A f, g \in Fills : opens[f] > 0 /\ opens[g] > 0 => rows[f].side = rows[g].side
    /\ \A t \in trades : t.exit # NoFill =>
          /\ t.entry < t.exit /\ rows[t.entry].side # rows[t.exit].side
          /\ Linked(t.entry, t.exit) /\ t.qty > 0

\* A day that ends flat in every contract and was paired within its imported fills.
Settled(day) ==
    LET S == Imported(day)
        Of(f) == {g \in S : rows[g].contract = rows[f].contract}
    IN /\ S # {} /\ \A f \in S : BoughtIn(Of(f)) = SoldIn(Of(f))
       /\ \A t \in trades : t.exit # NoFill => (t.entry \in S <=> t.exit \in S)

\* However its fills were paired, a settled day reconciles with a statement of the same
\* fills whose profit is what was sold less what was bought, and the net of its trades is
\* that profit less all the fees ("leftover opens / manuals cannot dilute" them).
DaysAddUp ==
    Done => \A day \in {d \in {rows[f].day : f \in Fills} : Settled(d)} :
        LET S       == Imported(day)
            Paid(f) == rows[f].qty * (IF rows[f].side = "sell" THEN rows[f].price ELSE -rows[f].price)
            st      == [fills |-> S, ps |-> Total(S, Paid)]
        IN /\ Status(day, st) = "reconciled"
           /\ Total(Booked(day), LAMBDA t : Net(t, day)) = st.ps - Fees(st)
=============================================================================
