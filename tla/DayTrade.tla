------------------------------- MODULE DayTrade -------------------------------
(***************************************************************************)
(* The trading robot of src/stocks/milestone-22.5.mq4, its file, and the   *)
(* broker's side: the open orders and the closed ones.                     *)
(*                                                                         *)
(* A tick of the market runs start() once, in the stages below; nothing    *)
(* else runs meanwhile, but the terminal may stop between any two of them. *)
(* Any call to the broker may fail.  The settings are the default ones.    *)
(*                                                                         *)
(* One unit of time is five minutes, so that the first unit of a day is    *)
(* what prepareHistory tests for and the first two what milestone does.    *)
(* Profits and the target are whole units of money; the spread, and how    *)
(* the target grows with the balance, are left out.  The signals and the   *)
(* calendar of news are taken as they come.                                *)
(***************************************************************************)
EXTENDS Integers, FiniteSetsExt, SequencesExt

CONSTANTS
    Target,         \* MilestoneGrowth, as an amount of money
    QueryHistory, MaxTrades,
    Sleep,          \* SleepSeconds, in units
    Basket,         \* BasketSeconds, in units
    Space,          \* the distance of two orders (TradeSpace times the range)
    DayLength,      \* RefreshHours, in units
    Price,          \* the prices
    Days,           \* bound: the days that are considered
    MaxOrders,      \* bound: the orders that are ever opened
    MaxStarts       \* bound: how often the robot is started

ASSUME TargetAssumption == Target \in Nat /\ Price \subseteq Int /\ Space \in Nat
ASSUME LimitAssumption == QueryHistory \in Nat \ {0} /\ MaxTrades \in Nat \ {0}
ASSUME TimeAssumption ==
    /\ DayLength \in Nat /\ DayLength > 2
    /\ Sleep \in 0 .. DayLength - 1 /\ Basket \in 0 .. DayLength - 1
ASSUME BoundAssumption == Days \in Nat /\ MaxOrders \in Nat /\ MaxStarts \in Nat

VARIABLES
    now,            \* TimeCurrent()
    orders,         \* the robot's open orders, by position
    history,        \* its closed orders, the last one at the end
    file,           \* daytrade.csv: <<dailyTargets, totalDays>>
    pc,             \* the stage of the robot
    view,           \* what the tick's first stage found
    growth,         \* milestoneGrowth
    last,           \* lastTradeTime
    turn, dailyTargets, totalDays,
    starts,         \* how often the robot was started
    started,        \* when it was started last
    quote           \* when milestone ran last

broker   == <<orders, history>>
counters == <<turn, dailyTargets, totalDays>>
vars == <<now, broker, file, pc, view, growth, last, counters, starts, started, quote>>

Type  == {"buy", "sell"}
Order == [type: Type, backup: BOOLEAN, open: Price]

(* No event is near, one is to come, or one was but lately (a holiday's    *)
(* longer time included).                                                  *)
News  == {"clear", "upcoming", "waiting"}
Stage == {"down", "boot", "idle", "milestone", "trade", "manage", "stops"}

(* The time of a trade before any: 1970, in the code.                      *)
Never == 0 - DayLength

(* Between two ticks: what the globals hold then is computed anew before   *)
(* it is read.                                                             *)
NoView == [price |-> 0, orders |-> <<>>, past |-> 0, signal |-> {}, news |-> "waiting", boot |-> FALSE]

Init ==
    /\ now = 0 /\ orders = <<>> /\ history = <<>>
    /\ file = <<0, 0>>
    /\ pc = "down" /\ view = NoView
    /\ growth = 0 /\ last = Never /\ turn = 0 /\ dailyTargets = 0 /\ totalDays = 0
    /\ starts = 0 /\ started = Never /\ quote = Never

-----------------------------------------------------------------------------
(* Orders and their history. *)

DayOf(time) == time - (time % DayLength)

Phase == now % DayLength
Today == DayOf(now)

AddUp(v) == LET upTo[n \in 0 .. Len(v)] == IF n = 0 THEN 0 ELSE upTo[n - 1] + v[n]
            IN upTo[Len(v)]

Profit(o) == IF o.type = "buy" THEN view.price - o.open ELSE o.open - view.price

Total(os) == AddUp([i \in DOMAIN os |-> Profit(os[i])])

(* Closed orders are named by their positions in the history.              *)
Gain(closes) ==
    AddUp([i \in DOMAIN history |-> IF i \in closes THEN history[i].profit ELSE 0])

ClosedOn(day) == {i \in DOMAIN history : DayOf(history[i].time) = day}

(* Mutant: one order less is asked for.                                    *)
QueriedFewer == {i \in DOMAIN history : i > Len(history) - QueryHistory + 1}

(* The last QueryHistory closed orders.                                    *)
Queried == {i \in DOMAIN history : i > Len(history) - QueryHistory}

(* Mutant: a close is not taken for a trade.                               *)
TradedUntimed(closed) == last

(* The time of the last trade, if these orders are closed: a single order  *)
(* counts even when the broker refuses.                                    *)
Traded(closed) == IF closed # <<>> \/ Len(view.orders) = 1 THEN now ELSE last

(* Orders are closed: their profits are added to the growth.               *)
Book(closed, before) ==
    /\ history' = history \o [i \in DOMAIN closed |-> [profit |-> Profit(closed[i]), time |-> now]]
    /\ growth' = before + Total(closed)

(* closeAll closes from the last position on and stops where the broker    *)
(* refuses.  Two calls of it in one stage are as one with a later refusal. *)
CloseAll(before) ==
    \E n \in 0 .. Len(orders) :
        /\ orders' = SubSeq(orders, 1, n)
        /\ LET closed == Reverse(SubSeq(orders, n + 1, Len(orders)))
           IN Book(closed, before) /\ last' = Traded(closed)

-----------------------------------------------------------------------------
(* The stages of a tick. *)

(* prepareHistory and preparePositions, with the quote that caused the tick.*)
Prepare ==
    /\ pc \in {"boot", "idle"}
    /\ \E price \in Price :
           view' = [NoView EXCEPT !.price = price, !.orders = orders, !.past = Gain(Queried),
                                  !.boot = (pc = "boot")]
    /\ LET today == Queried \intersect ClosedOn(Today)
       IN IF Phase > 0
          THEN /\ growth' = Gain(today)
               /\ last' = IF today = {} THEN last ELSE history[Min(today)].time
          ELSE UNCHANGED <<growth, last>>
    /\ pc' = "milestone"
    /\ UNCHANGED <<now, orders, history, file, counters, starts, started, quote>>

(* A new day is counted once, in its first ten minutes.                    *)
Turning == Phase <= 1 /\ turn = 0

(* Mutant: the passes of the day's first minutes are numbered.             *)
TurnCounted == IF Phase <= 1 THEN turn + 1 ELSE 0

Turn == IF Phase <= 1 THEN 1 ELSE 0

(* Mutant: the profit of the open orders is included.                      *)
ReachedWithOpen == growth + Total(view.orders) > Target

Reached == growth > Target

(* The day is counted and written down, if the file can be opened, and     *)
(* profits are taken.                                                      *)
Count ==
    /\ Turning
    /\ totalDays' = totalDays + 1
    /\ dailyTargets' = dailyTargets + IF Reached THEN 1 ELSE 0
    /\ turn' = Turn
    /\ file' \in {file, <<dailyTargets', totalDays'>>}
    /\ IF Total(view.orders) > 0 THEN CloseAll(0)
       ELSE growth' = 0 /\ UNCHANGED <<orders, history, last>>

(* On other ticks everything is closed if the target has been reached.     *)
Guard ==
    /\ ~Turning
    /\ turn' = Turn
    /\ IF Reached THEN CloseAll(growth) ELSE UNCHANGED <<growth, orders, history, last>>
    /\ UNCHANGED <<file, dailyTargets, totalDays>>

Milestone ==
    /\ pc = "milestone"
    /\ Count \/ Guard
    /\ IF view.boot THEN pc' = "idle" /\ view' = NoView
       ELSE pc' = "trade" /\ UNCHANGED view
    /\ quote' = now
    /\ UNCHANGED <<now, starts, started>>

(* The totals of preparePositions.                                         *)
Backups == Len(SelectSeq(view.orders, LAMBDA o : o.backup))
Near(type) == \E i \in DOMAIN view.orders :
                  LET o == view.orders[i]
                  IN o.type = type /\ o.open - view.price < Space /\ view.price - o.open < Space

(* Mutant: the lots of the wrong direction are asked for.                  *)
OpposedToSame(type) == \E i \in DOMAIN view.orders : view.orders[i].type = type

(* sellLots for a purchase, buyLots for a sale.                            *)
Opposed(type) == \E i \in DOMAIN view.orders : view.orders[i].type # type

Room == view.orders # <<>> => Backups < MaxTrades - 1

(* sendOpen for the first order, sendBack for the others.                  *)
Wanted(type, signal, news) ==
    /\ growth < Target /\ now - last > Sleep
    /\ news = "clear"
    /\ type \in signal
    /\ ~Opposed(type) /\ ~Near(type)
    /\ Room

Trade ==
    /\ pc = "trade"
    /\ \E signal \in SUBSET Type, news \in News :
           /\ view' = [view EXCEPT !.signal = signal, !.news = news]
           /\ \/ /\ Len(history) + Len(orders) < MaxOrders
                 /\ \E type \in Type :
                        /\ Wanted(type, signal, news)
                        /\ orders' = Append(orders, [type |-> type, open |-> view.price,
                                                     backup |-> view.orders # <<>>])
                 /\ last' = now
              \/ UNCHANGED <<orders, last>>
    /\ pc' = "manage"
    /\ UNCHANGED <<now, history, file, growth, counters, starts, started, quote>>

(* managePositions *)
Reversed ==
    /\ view.orders # <<>>
    /\ \E type \in view.signal : type # Last(view.orders).type

Taken ==
    LET total == Total(view.orders)
    IN \/ Len(view.orders) > 1 /\ total > Target
       \/ Reversed /\ 2 * total > Target
       \/ view.orders # <<>> /\ total > 0 /\ view.news = "upcoming"

(* A single order is closed by itself; one of this tick has no profit yet. *)
TakeOne ==
    \E i \in DOMAIN orders :
        /\ Profit(orders[i]) > Target
        /\ orders' = RemoveAt(orders, i)
        /\ Book(<<orders[i]>>, growth)
        /\ last' = Traded(<<orders[i]>>)

Manage ==
    /\ pc = "manage"
    /\ IF Taken THEN CloseAll(growth)
       ELSE \/ Len(view.orders) <= 1 /\ TakeOne
            \/ UNCHANGED <<orders, history, growth, last>>
    /\ pc' = "stops"
    /\ view' = [view EXCEPT !.signal = {}]     \* not read again in this tick
    /\ UNCHANGED <<now, file, counters, starts, started, quote>>

(* manageStops: a loss that the past has earned, or the target within reach.*)
Stopped ==
    LET total == Total(view.orders)
    IN \/ /\ now - last > Basket
          /\ 2 * view.past > 5 * Target
          /\ total < 0
          /\ 0 - 10 * total > 3 * view.past /\ 0 - 10 * total < 6 * view.past
          /\ view.news \in {"upcoming", "waiting"}
       \/ growth + total > Target /\ view.orders # <<>>

Stops ==
    /\ pc = "stops"
    /\ IF Stopped THEN CloseAll(growth) ELSE UNCHANGED <<orders, history, growth, last>>
    /\ pc' = "idle" /\ view' = NoView
    /\ UNCHANGED <<now, file, counters, starts, started, quote>>

-----------------------------------------------------------------------------
(* The terminal and the clock. *)

(* init reads the file; if it cannot, it writes one, of counters at zero.  *)
Start ==
    /\ pc = "down" /\ starts < MaxStarts
    /\ file' \in {file, <<0, 0>>}
    /\ dailyTargets' = file'[1] /\ totalDays' = file'[2]
    /\ pc' = "boot" /\ starts' = starts + 1 /\ started' = now
    /\ UNCHANGED <<now, broker, view, growth, last, turn, quote>>

(* The terminal stops, at any place, and with it all globals are gone.     *)
Crash ==
    /\ pc # "down"
    /\ pc' = "down" /\ view' = NoView
    /\ growth' = 0 /\ last' = Never /\ turn' = 0 /\ dailyTargets' = 0 /\ totalDays' = 0
    /\ UNCHANGED <<now, broker, file, starts, started, quote>>

(* Quotes come all day: a robot that runs has had one after the first ten  *)
(* minutes when the day ends.                                              *)
Clock ==
    /\ pc \in {"down", "idle"}
    /\ now < Days * DayLength - 1
    /\ Phase = DayLength - 1 => turn = 0
    /\ now' = now + 1
    /\ UNCHANGED <<broker, file, pc, view, growth, last, counters, starts, started, quote>>

Tick == Prepare \/ Milestone \/ Trade \/ Manage \/ Stops

Next == Tick \/ Start \/ Crash \/ Clock

Spec == Init /\ [][Next]_vars

-----------------------------------------------------------------------------
(* Properties. *)

TypeOK ==
    /\ now \in Nat
    /\ orders \in Seq(Order)
    /\ history \in Seq([profit: Int, time: Nat])
    /\ file \in Nat \X Nat
    /\ pc \in Stage
    /\ view \in [price: Int, orders: Seq(Order), past: Int, signal: SUBSET Type, news: News, boot: BOOLEAN]
    /\ growth \in Int /\ last \in Int
    /\ turn \in {0, 1} /\ dailyTargets \in Nat /\ totalDays \in Nat
    /\ starts \in Nat /\ started \in Int /\ quote \in Int

(* The robot never holds orders in both directions.                        *)
OneDirection == \A i, j \in DOMAIN orders : orders[i].type = orders[j].type

(* An order is only opened on totals that still hold: never in a tick in   *)
(* which something was closed after they were taken.                       *)
OpensOnFreshTotals == [][Len(orders') > Len(orders) => orders = view.orders]_vars

(* The growth that limits trading is what was closed today.  There are two *)
(* exceptions: more closed orders than the robot asks for, and a start in  *)
(* the day's first minutes, when the day begins once more.                 *)
GrowthIsTodays ==
    pc \in {"trade", "manage", "stops"} =>
        \/ growth = Gain(ClosedOn(Today))
        \/ Cardinality(ClosedOn(Today)) > QueryHistory
        \/ Phase <= 1 /\ DayOf(started) = Today

(* Nothing is opened within SleepSeconds of a close, but for three cases:  *)
(* an older close of the same day, which is then taken for the last trade; *)
(* a start on a later day, which knows nothing of that close; and a start  *)
(* in the day's first minutes, when no close is looked at.                 *)
SleepsAfterClosing ==
    [][Len(orders') > Len(orders) =>
           \A i \in DOMAIN history :
               \/ now - history[i].time > Sleep
               \/ \E j \in ClosedOn(DayOf(history[i].time)) : now - history[j].time > Sleep
               \/ DayOf(history[i].time) < DayOf(started)
               \/ Phase = 0 /\ started = now]_vars

(* A target is only counted if the trades of the last day that the robot   *)
(* had quotes on have reached it, or, when it was started in the first     *)
(* minutes of a day, those of the minutes before; or if they were more     *)
(* than it asks for.                                                       *)
Earned(day) == Gain(ClosedOn(day)) > Target \/ Cardinality(ClosedOn(day)) > QueryHistory

TargetsAreEarned ==
    [][dailyTargets' > dailyTargets /\ pc = "milestone" =>
           Earned(DayOf(quote)) \/ (DayOf(started) = Today /\ Earned(Today))]_vars
=============================================================================
