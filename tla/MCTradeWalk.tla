------------------------------ MODULE MCTradeWalk ------------------------------
EXTENDS TradeWalk

CONSTANT MaxPrice

\* Bars close at one of their extremes.
MCBars ==
    UNION {{[open |-> o, high |-> h, low |-> l, close |-> c] : o \in l..h, c \in {l, h}} :
              <<l, h>> \in {p \in (0..MaxPrice) \X (0..MaxPrice) : p[1] <= p[2]}}

\* Stop, entry and target are 1, 2, 5 for a long, 4, 3, 0 for a short.
T(d, m, e, same, slip, stops, caps) ==
    [direction |-> d, model |-> m, entry_model |-> e, theoretical |-> IF d = "long" THEN 2 ELSE 3,
     slip |-> slip, sl_pts |-> 1, tp_pts |-> 3, same_bar |-> same,
     breakeven_after |-> stops[1], trailing_after |-> stops[2], trailing_distance |-> stops[3],
     max_holding_bars |-> caps[1], session_cap_bar |-> caps[2]]

NoStops == <<0, 0, 0>>

MCTrades ==
    {T(d, m, e, TRUE, 0, NoStops, caps) :
        d \in Directions, m \in Models, e \in EntryModels, caps \in {<<2, 0>>, <<4, 1>>}}
    \cup {T(d, "sl_first", e, FALSE, 0, NoStops, caps) :
        d \in Directions, e \in {"next_bar_open", "3c_retrace_market"}, caps \in {<<0, 2>>, <<1, 3>>}}
    \cup {T(d, me[1], me[2], TRUE, me[3], stops, <<0, 0>>) :
        d \in Directions,
        me \in {<<"sl_first", "next_bar_open", 0>>, <<"path_open_proximity", "3c_retrace_market", 1>>},
        stops \in {<<1, 0, 0>>, <<0, 1, 2>>, <<2, 1, 1>>, <<1, 2, 3>>}}
    \cup {T(d, "sl_first", "next_bar_open", FALSE, 1, <<1, 2, 1>>, <<2, 0>>) : d \in Directions}
================================================================================
