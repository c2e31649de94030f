----------------------------- MODULE MarketFeed -----------------------------
(***************************************************************************)
(* One side of one token's order book, from the exchange to the quoter:    *)
(* the market websocket (marketdata/service.py, parse.py), the local book  *)
(* (marketdata/orderbook.py), the REST refresh that corrects it (engine.py,*)
(* _maintenance_loop, _refresh_book) and the quoter that reads it.  The    *)
(* other side is its mirror image.                                         *)
(*                                                                         *)
(* A book is the set of the prices at which there is size; prices are in   *)
(* the finest tick.  The websocket is first in, first out as long as the   *)
(* link holds; what is under way is lost with it.  A message may be missed *)
(* without the link going down, one the parser rejects among them.         *)
(***************************************************************************)
EXTENDS Integers, Sequences, FiniteSets, FiniteSetsExt, SequencesExt

CONSTANTS
    Prices,      \* the prices of the book, a set of positive integers
    Ticks,       \* the tick sizes the market may have
    MaxWire,     \* bound: messages under way
    MaxMoves,    \* bound: changes of the book at the exchange
    MaxMissed    \* bound: messages missed

ASSUME FeedAssumption ==
    /\ Prices \subseteq Nat \ {0} /\ Ticks \subseteq Nat \ {0} /\ Ticks # {}
    /\ MaxWire \in Nat /\ MaxMoves \in Nat /\ MaxMissed \in Nat

VARIABLES
    exch,      \* the book at the exchange
    exchTick,  \* its tick size
    wire,      \* websocket messages under way
    link,      \* the websocket is connected
    book,      \* OrderBook.bids
    tick,      \* OrderBook.tick_size
    refresh,   \* the maintenance loop: its await and the REST answer
    woken,     \* the market's event is set
    reader,    \* the quoter: "waits", "cleared" or "busy" in a recompute
    seen,      \* the book of its last recompute
    \* history and bounds
    clean,     \* nothing has been missed or overwritten since the last snapshot
    overtaken, \* deltas were applied since the REST answer was made
    moves, missed

feedVars == <<exch, exchTick, wire, link, book, tick, refresh, woken, reader, seen,
              clean, overtaken, moves, missed>>

NoRefresh == [at |-> "idle", shown |-> {}]

Snapshot(levels, t) == [kind |-> "book", levels |-> levels, tick |-> t]
Delta(p, there)     == [kind |-> "price_change", price |-> p, there |-> there]
TickChange(t)       == [kind |-> "tick_size_change", tick |-> t]

-----------------------------------------------------------------------------
(* OrderBook and MarketDataService._dispatch.                              *)

\* Mutant: a level of size zero stays in the book.
ApplyDeltaKeeps(levels, p, there) == levels \cup {p}

\* apply_delta: sizes are absolute, size zero takes the level away.
ApplyDelta(levels, p, there) == IF there THEN levels \cup {p} ELSE levels \ {p}

\* The book after a message.
Applied(levels, msg) ==
    CASE msg.kind = "book"             -> msg.levels
      [] msg.kind = "price_change"     -> ApplyDelta(levels, msg.price, msg.there)
      [] msg.kind = "tick_size_change" -> levels

TickAfter(t, msg) == IF msg.kind = "price_change" THEN t ELSE msg.tick

\* Mutant: only a snapshot wakes the quoter.
SnapshotWakes(msg) == msg.kind = "book"

\* _wake: a tick size change wakes nobody.
Wakes(msg) == msg.kind \in {"book", "price_change"}

\* The book once all that is under way has arrived.
Replay(levels, msgs) == FoldLeft(Applied, levels, msgs)

-----------------------------------------------------------------------------
(* The exchange and the link.                                              *)

Push(msg) == wire' = IF link THEN Append(wire, msg) ELSE wire

\* The book changes at the exchange.
Move(p) ==
    /\ moves < MaxMoves /\ Len(wire) < MaxWire
    /\ moves' = moves + 1
    /\ exch' = IF p \in exch THEN exch \ {p} ELSE exch \cup {p}
    /\ Push(Delta(p, p \notin exch))
    /\ UNCHANGED <<exchTick, link, book, tick, refresh, woken, reader, seen, clean, overtaken,
                   missed>>

MoveTick(t) ==
    /\ t # exchTick
    /\ moves < MaxMoves /\ Len(wire) < MaxWire
    /\ moves' = moves + 1
    /\ exchTick' = t
    /\ Push(TickChange(t))
    /\ UNCHANGED <<exch, link, book, tick, refresh, woken, reader, seen, clean, overtaken, missed>>

\* _connect_and_listen: subscribed, and `connected` before the first snapshot.
LinkUp ==
    /\ ~link
    /\ link' = TRUE
    /\ wire' = <<Snapshot(exch, exchTick)>>
    /\ UNCHANGED <<exch, exchTick, book, tick, refresh, woken, reader, seen, clean, overtaken,
                   moves, missed>>

LinkDown ==
    /\ link
    /\ link' = FALSE
    /\ wire' = << >>
    /\ UNCHANGED <<exch, exchTick, book, tick, refresh, woken, reader, seen, clean, overtaken,
                   moves, missed>>

\* A message is applied and the quoter woken, with no await in between.
Receive ==
    /\ wire # << >>
    /\ wire' = Tail(wire)
    /\ book' = Applied(book, Head(wire))
    /\ tick' = TickAfter(tick, Head(wire))
    /\ woken' = (woken \/ Wakes(Head(wire)))
    /\ clean' = (clean \/ Head(wire).kind = "book")
    /\ overtaken' = (overtaken \/ (refresh.at = "answered" /\ Head(wire).kind # "tick_size_change"))
    /\ UNCHANGED <<exch, exchTick, link, refresh, reader, seen, moves, missed>>

\* A message that never comes or that the parser drops.
Miss ==
    /\ wire # << >> /\ missed < MaxMissed
    /\ missed' = missed + 1
    /\ wire' = Tail(wire)
    /\ clean' = FALSE
    /\ UNCHANGED <<exch, exchTick, link, book, tick, refresh, woken, reader, seen, overtaken, moves>>

-----------------------------------------------------------------------------
(* The REST refresh.                                                       *)

Ask ==
    /\ refresh.at = "idle"
    /\ refresh' = [NoRefresh EXCEPT !.at = "asked"]
    /\ UNCHANGED <<exch, exchTick, wire, link, book, tick, woken, reader, seen, clean, overtaken,
                   moves, missed>>

Answer ==
    /\ refresh.at = "asked"
    /\ refresh' = [at |-> "answered", shown |-> exch]
    /\ overtaken' = FALSE
    /\ UNCHANGED <<exch, exchTick, wire, link, book, tick, woken, reader, seen, clean, moves, missed>>

AnswerFails ==
    /\ refresh.at = "asked"
    /\ refresh' = NoRefresh
    /\ UNCHANGED <<exch, exchTick, wire, link, book, tick, woken, reader, seen, clean, overtaken,
                   moves, missed>>

Apart(p, r) == IF p > r THEN p - r ELSE r - p

\* Mutant: only books with a touch are compared.
DriftOfTouch(mine, rest, t) ==
    mine # {} /\ rest # {} /\ Apart(Max(mine), Max(rest)) > t

\* _refresh_book: a touch on one of the two only, or more than a tick apart.
Drift(mine, rest, t) ==
    \/ (mine = {}) # (rest = {})
    \/ mine # {} /\ rest # {} /\ Apart(Max(mine), Max(rest)) > t

\* The answer is compared with the book as it is now, and may be older; a
\* drift of the other side overwrites this one too.
Correct(other) ==
    /\ refresh.at = "answered"
    /\ refresh' = NoRefresh
    /\ IF other \/ Drift(book, refresh.shown, tick)
       THEN /\ book' = refresh.shown
            /\ woken' = TRUE
            /\ clean' = (clean /\ ~overtaken)
       ELSE UNCHANGED <<book, woken, clean>>
    /\ UNCHANGED <<exch, exchTick, wire, link, tick, reader, seen, overtaken, moves, missed>>

-----------------------------------------------------------------------------
(* The quoter.                                                             *)

\* The event or the timer: the event is cleared, then the lock awaited.
Wake ==
    /\ reader = "waits"
    /\ reader' = "cleared"
    /\ woken' = FALSE
    /\ UNCHANGED <<exch, exchTick, wire, link, book, tick, refresh, seen, clean, overtaken, moves,
                   missed>>

ReadBook ==
    /\ reader = "cleared"
    /\ reader' = "busy"
    /\ seen' = book
    /\ UNCHANGED <<exch, exchTick, wire, link, book, tick, refresh, woken, clean, overtaken, moves,
                   missed>>

\* The recompute's calls to the gateway are answered.
Done ==
    /\ reader = "busy"
    /\ reader' = "waits"
    /\ UNCHANGED <<exch, exchTick, wire, link, book, tick, refresh, woken, seen, clean, overtaken,
                   moves, missed>>

FeedInit ==
    /\ exch = {} /\ exchTick = (CHOOSE t \in Ticks : TRUE)
    /\ wire = << >> /\ link = FALSE
    /\ book = {} /\ tick = exchTick
    /\ refresh = NoRefresh
    /\ woken = FALSE /\ reader = "waits" /\ seen = {}
    /\ clean = FALSE /\ overtaken = FALSE /\ moves = 0 /\ missed = 0

FeedNext ==
    \/ \E p \in Prices : Move(p)
    \/ \E t \in Ticks : MoveTick(t)
    \/ LinkUp \/ LinkDown \/ Receive \/ Miss
    \/ Ask \/ Answer \/ AnswerFails \/ \E other \in BOOLEAN : Correct(other)
    \/ Wake \/ ReadBook \/ Done

\* The maintenance loop goes round and the exchange's REST API answers at last;
\* nothing is assumed of the websocket.
FeedFairness ==
    /\ WF_feedVars(Ask) /\ SF_feedVars(Answer)
    /\ WF_feedVars(\E other \in BOOLEAN : Correct(other))
    /\ WF_feedVars(Wake) /\ WF_feedVars(ReadBook) /\ WF_feedVars(Done)

FeedSpec == FeedInit /\ [][FeedNext]_feedVars /\ FeedFairness

-----------------------------------------------------------------------------
\* Every variable has its type, and nothing is under way without a link.
FeedTypeOK ==
    /\ exch \subseteq Prices /\ book \subseteq Prices /\ seen \subseteq Prices
    /\ exchTick \in Ticks /\ tick \in Ticks
    /\ \A i \in DOMAIN wire : wire[i].kind \in {"book", "price_change", "tick_size_change"}
    /\ ~link => wire = << >>
    /\ link \in BOOLEAN /\ woken \in BOOLEAN /\ clean \in BOOLEAN /\ overtaken \in BOOLEAN
    /\ refresh \in [at : {"idle", "asked", "answered"}, shown : SUBSET Prices]
    /\ reader \in {"waits", "cleared", "busy"}
    /\ moves \in 0..MaxMoves /\ missed \in 0..MaxMissed

\* While the link holds, the book and what is under way make up the exchange's
\* book, through any snapshots, deltas and REST corrections - unless a message
\* was missed, or a correction overwrote deltas younger than itself
\* (engine.py:893-914).
FollowsWire == link /\ clean => Replay(book, wire) = exch

\* A quoter that waits with its event cleared has seen the book as it is: no
\* change of the book falls between its clearing and its reading unnoticed
\* (engine.py:373).
SeenIsCurrent == reader = "waits" /\ ~woken => seen = book

\* Once the exchange's book stands still, the maintenance loop brings the touch
\* that the quoter sees to within a tick of it, whatever was missed, overwritten
\* or dropped with the link.  The levels below may stay wrong.
TouchHeals ==
    <>[](/\ (seen = {}) = (exch = {})
         /\ seen # {} /\ exch # {} => Apart(Max(seen), Max(exch)) <= tick)
=============================================================================
