------------------------------ MODULE SignalPipeline ------------------------------
(***************************************************************************)
(* Signals over data that grows bar by bar. The program computes its       *)
(* signals, the states it filters them by and its walk-forward windows     *)
(* from the whole data at once; beside it stands a trader who sees one bar *)
(* after the other and keeps, for every level and direction, what three-   *)
(* candle set-up is under way.                                             *)
(***************************************************************************)
EXTENDS Triggers, WalkForward

CONSTANTS
    Feeds,      \* kinds of data and trigger time frames, see IsFeed
    Prices,     \* the prices levels are traded at
    Plans       \* walk-forward plans, see WalkForward

\* bars: by slot, up to the end of the data, what a bar may be; gaps: the slots to the
\* next one; trigger_timeframe: 0 or the slots of a trigger bar; setup: see Zones.
IsBar(b) ==
    /\ b \in [slot : Nat, high : Int, low : Int, close : Int, levels : {b.levels}]
    /\ b.close \in b.low..b.high

IsFeed(f) ==
    /\ \A n \in DOMAIN f.bars : n \in Nat /\ \A b \in f.bars[n] :
          IsBar(b) /\ CandidatePrices(DetectZones(b.levels, f.setup)) \subseteq Prices
    /\ f.gaps \subseteq Nat \ {0} /\ f.trigger_timeframe \in Nat
    /\ f.setup.naked \in {"off", "any", "all"} /\ f.setup.confirm \in BOOLEAN

ASSUME FeedsAssumption == \A f \in Feeds : IsFeed(f)
ASSUME PlansAssumption == \A p \in Plans : IsPlan(p)

VARIABLES
    feed,       \* the kind of data and the setup, constant
    df,         \* the bars so far
    signals,    \* what the setup makes of df
    watch,      \* by level and direction, what the trader is waiting for
    taken       \* the three-candle entries the trader took

vars == <<feed, df, signals, watch, taken>>

Keys == Prices \X Directions
Idle == [phase |-> "idle"]

Init ==
    /\ feed \in Feeds
    /\ df = <<>> /\ signals = {} /\ taken = {}
    /\ watch = [key \in Keys |-> Idle]

-----------------------------------------------------------------------------
(* The trader *)

\* A price a level has held since an earlier bar f, and none has traded at after f.
Untouched(d, n, l) ==
    LET p == d[n].levels[l]
        Holds(i) == l \in DOMAIN d[i].levels /\ d[i].levels[l] = p
    IN \E f \in 1..n :
          /\ \A i \in f..n : Holds(i)
          /\ f = 1 \/ ~Holds(f - 1)
          /\ \A i \in f + 1..n : ~TradesAt(d[i], p)

\* The zones of bar n the trader may act on.
Offered(d, n) ==
    {z \in DetectZones(d[n].levels, feed.setup) :
        NakedEnough(z, {l \in DOMAIN z.levels : Untouched(d, n, l)}, feed.setup.naked)}

\* Bar n of data d, seen by someone who waits for w on a key.
Seen(d, n, key, w) ==
    LET bar == d[n]
        dir == key[2]
        Expired(r) == n >= r + MaxWait
    IN CASE w.phase = "idle" ->
              IF key[1] \in CandidatePrices(Offered(d, n)) /\ ArrivesAt(bar, key[1], dir)
              THEN [phase |-> "inside", arrival |-> n] ELSE Idle
         [] w.phase = "inside" ->
              IF Inside(bar, d[w.arrival]) THEN w
              ELSE IF Turns(bar, d[w.arrival], dir) /\ ~Expired(n)
                   THEN [phase |-> "retrace", arrival |-> w.arrival, reversal |-> n]
                   ELSE Idle
         [] OTHER ->
              IF Reaches(bar, TriggerPrice(d[w.reversal], dir), dir) \/ Expired(w.reversal)
              THEN Idle ELSE w

Enters(d, n, key, w) ==
    w.phase = "retrace" /\ Reaches(d[n], TriggerPrice(d[w.reversal], key[2]), key[2])

Entry(key, n, w) == [level |-> key[1], direction |-> key[2], arrival |-> w.arrival, entry |-> n]

\* One more bar: the trader looks at it, the program starts over (api.py,
\* generate_signals).
NextBar(slot, bar) ==
    LET n == Len(df) + 1 IN
    /\ df' = Append(df, [bar EXCEPT !.slot = slot])
    /\ signals' = Signals(df', feed.trigger_timeframe, feed.setup)
    /\ watch' = [key \in Keys |-> Seen(df', n, key, watch[key])]
    /\ taken' = taken \cup {Entry(key, n, watch[key]) :
                               key \in {k \in Keys : Enters(df', n, k, watch[k])}}
    /\ UNCHANGED feed

NextSlots == IF df = <<>> THEN {0} ELSE {df[Len(df)].slot + g : g \in feed.gaps}

Next == \E slot \in NextSlots \cap DOMAIN feed.bars : \E bar \in feed.bars[slot] : NextBar(slot, bar)

Spec == Init /\ [][Next]_vars

-----------------------------------------------------------------------------
Traded(sigs) == {s \in sigs : s.status # "void"}

\* A three-candle signal that a set-up in waiting may yet take back: the program reads
\* the end of the data as if nothing else came, and takes up an arrival inside another
\* one that is still unresolved.
Provisional(s) ==
    s.trigger = "3c" /\ LET w == watch[<<s.level, s.direction>>]
                        IN w.phase = "inside" /\ s.arrival > w.arrival

\* detect_3c_setups scans ahead of every arrival, keeps levels silent by windows it only
\* knows from that scan, and merges; what it finds on the base time frame is what
\* someone would have traded who saw one bar at a time.
BatchIsLive ==
    feed.trigger_timeframe = 0 =>
        {[level |-> s.level, direction |-> s.direction, arrival |-> s.arrival, entry |-> s.entry] :
            s \in {x \in signals : x.trigger = "3c" /\ x.status = "filled" /\ ~Provisional(x)}} = taken

\* Bar n and its whole bucket were over when the data went on.
Closed(n) ==
    LET w == feed.trigger_timeframe
    IN w = 0 \/ df[n].slot \div w # df'[Len(df')].slot \div w

\* A signal whose arrival comes after another one of its level and direction that every
\* bar so far is inside.
Unresolved(s) ==
    LET w  == feed.trigger_timeframe
        tb == TriggerBars(df, w)
        zones == AdmittedZones(df, feed.setup)
    IN \E k \in DOMAIN tb :
          /\ tb[k].last < s.arrival
          /\ Arrives(zones, tb, k, s.level, s.direction)
          /\ Resolution(df, tb, w, k, s.direction).until = 0

\* generate_signals on longer data: a signal to trade stands, and a new one is of the new
\* bar, unless it was read off a trigger bar that was not over or off the unresolved end.
SignalsStand ==
    [][/\ \A s \in Traded(signals) \ signals' :
              ~Closed(s.bar) \/ (s.trigger = "3c" /\ Unresolved(s))
       /\ \A s \in Traded(signals') \ signals : s.bar = Len(df')]_vars

-----------------------------------------------------------------------------
\* The bars that had closed by a time; their slots increase.
Known(time) == SubSeq(df, 1, Cardinality({i \in DOMAIN df : df[i].slot < time}))

SameInterval(a, b, setting) ==
    /\ \A w \in setting.widths : Usable(a, OneWidth(setting, w)) /\ Usable(b, OneWidth(setting, w))
    /\ Interval(a) = Interval(b)

Times     == {s.time : s \in Traded(signals)}
DecidedAt(t) == {s \in Traded(signals) : s.time = t}

\* "Future bars after a fold end never influence that fold" and "Appending source bars
\* after timestamp T cannot change any OTF output": the whole data, and every window with
\* the history before it, admit a signal by what had closed when it was decided, and a
\* window with only its own bars never admits more; as long as the same bar interval is
\* made out in both.
FilteredByTheKnown ==
    \A plan \in {p \in Plans : p.filter} :
        LET right == UNION {Accepted(Known(t), plan.otf, DecidedAt(t)) : t \in Times}
            Comparable(src) ==
                UNION {DecidedAt(t) : t \in {u \in Times : SameInterval(src, Known(u), plan.otf)}}
            Sound(w) ==
                LET sigs == Comparable(Source(df, w, plan))
                    own  == {l.sig : l \in Sliced(signals, w, plan)} \cap sigs
                    adm  == {l.sig : l \in Admitted(df, signals, w, plan)} \cap sigs
                IN IF plan.history = "causal_prefix" THEN adm = own \cap right ELSE adm \subseteq right
        IN /\ Accepted(df, plan.otf, Comparable(df)) = Comparable(df) \cap right
           /\ \A f \in Folds(df, plan) : Sound(f.train) /\ Sound(f.test)

\* A signal is traded out of sample by the window its entry bar lies in, once, on that
\* very bar, and by the first or last of several such windows; only where windows are
\* counted in bars is one lost whose trigger bar is in the window before.
OwnedOnce ==
    \A plan \in Plans :
        LET folds     == Folds(df, plan)
            EntryOf(s) == IF s.trigger = "3c" THEN s.entry ELSE s.bar + 1
            Owners(s) == {f.id : f \in {g \in folds :
                             /\ Within(EntryOf(s), g.test)
                             /\ plan.fold_mode = "sessions" \/ Within(s.bar, g.test)}}
            Owner(s)  == IF plan.overlap = "last" THEN Max(Owners(s)) ELSE Min(Owners(s))
        IN ~plan.filter /\ ~(Overlapping(folds) /\ plan.overlap = "reject") =>
              Stitched(df, signals, plan) =
                 {[sig |-> s, fold |-> Owner(s), entry |-> EntryOf(s)] :
                     s \in {x \in Traded(signals) : Owners(x) # {}}}
=============================================================================
