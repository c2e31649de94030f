----------------------------- MODULE OrderSync -----------------------------
(***************************************************************************)
(* The resting orders of one market: the quoter task that diffs targets    *)
(* against StateStore.orders and cancels and places through the gateway    *)
(* (engine.py, execution/reconciler.py, execution/gateway.py), and the     *)
(* tasks that change the same view while it awaits: the user websocket,    *)
(* the reconcile loop, the heartbeat loop and the metadata refresh.        *)
(*                                                                         *)
(* The quoter holds the market's lock from its wake-up to its return; only *)
(* the reconcile loop asks for the same lock.  A remote call is a step in  *)
(* which the exchange acts and a step in which the task sees the answer.   *)
(* Reads answer from a view that lags behind the exchange.                 *)
(*                                                                         *)
(* A slot stands for a token and a side that gets one quote; a price is a  *)
(* value beyond the reprice tolerance of every other one.                  *)
(***************************************************************************)
EXTENDS Integers, FiniteSets

CONSTANTS
    Tokens,      \* the two outcome tokens
    Slots,       \* what is quoted: a token and a side
    TokenOf,     \* TokenOf[s]: the token of slot s
    Prices,      \* quote prices, far apart
    Ids,         \* bound: the orders the exchange may accept in a run
    None,        \* no quote, no token
    Grace,       \* ticks an order is too young to be missed (grace_s, 10 s)
    MaxStale,    \* bound: the age of what a read shows when it is applied
    SoftLimit,   \* soft rejections in a row before a quarantine (5 in the code)
    FaultKinds,  \* the disturbances from outside: see Fault
    MaxFaults    \* bound: how many of them

ASSUME OrderAssumption ==
    /\ TokenOf \in [Slots -> Tokens] /\ None \notin [slot : Slots, price : Prices]
    /\ Tokens # {} /\ IsFiniteSet(Ids)
    /\ Grace \in Nat \ {0} /\ MaxStale \in Nat
    /\ SoftLimit \in Nat \ {0} /\ MaxFaults \in Nat
    /\ FaultKinds \subseteq {"read", "cancel", "post", "beat", "book", "halt"}

VARIABLES
    \* the exchange (external)
    quote,     \* quote[o]: what order o quotes
    live,      \* its open orders of ours
    view,      \* what its REST API lists
    lag,       \* ticks since the view was the truth
    pend,      \* pend[o]: user websocket messages about o that are under way
    \* memory of the engine
    orders,    \* StateStore.orders
    age,       \* age[o]: ticks since created_ts, up to Grace
    inflight,  \* the tokens with a fill in flight (FillLedger)
    dirty,     \* the market's event is set
    q,         \* the quoter: its await and its plan
    streak,    \* _soft_streak of the market
    r,         \* the reconcile loop: its await and its snapshot
    hb,        \* the heartbeat loop: "up", "down" (_hb_was_down) or "resync"
    halted,    \* the market is in _halted
    m,         \* the metadata refresh: the tokens whose cancel_asset is to come
    \* the book and the budget of failures
    quotable,  \* the book has two sides and is not crossed
    faults

exchangeVars == <<quote, live, view, lag, pend>>
storeVars    == <<orders, age>>
haltVars     == <<hb, halted, m>>
vars == <<exchangeVars, storeVars, haltVars, inflight, dirty, q, streak, r, quotable, faults>>

Quotes == [slot : Slots, price : Prices]
Used   == {o \in Ids : quote[o] # None}
Of(tok) == {o \in Used : TokenOf[quote[o].slot] = tok}

Idle   == [at |-> "idle", cancel |-> {}, place |-> {}, got |-> {},
           todo |-> {}, tok |-> None, verdict |-> "ok", grace |-> 0]
Asleep == [at |-> "sleep", seen |-> {}, age |-> 0, stale |-> 0]

\* A failed call ("read", "cancel", "post", "beat"), a book that loses a side
\* ("book") or a market that closes ("halt"), while the budget lasts.
Fault(kind) == kind \in FaultKinds /\ faults < MaxFaults /\ faults' = faults + 1

Least(n, k) == IF n < k THEN n ELSE k

-----------------------------------------------------------------------------
(* StateStore.                                                             *)

\* Mutant: the age of an order that the snapshot does not show is not looked at.
ReplaceAtOnce(tok, seen, grace) == (orders \ Of(tok)) \cup (seen \cap Of(tok))

\* replace_open_orders: what is absent and old enough goes, what is shown is in.
Replaced(tok, seen, grace) ==
    {o \in orders : o \in Of(tok) => age[o] < grace} \cup (seen \cap Of(tok))

\* The view after a refresh of the tokens toks; orders shown are a snapshot old.
ReplaceOpenOrders(toks, seen, grace, shownAge) ==
    /\ orders' = {o \in Used : IF TokenOf[quote[o].slot] \in toks
                               THEN o \in Replaced(TokenOf[quote[o].slot], seen, grace)
                               ELSE o \in orders}
    /\ age' = [o \in Ids |->
                 IF o \notin orders' THEN 0
                 ELSE IF o \in seen /\ TokenOf[quote[o].slot] \in toks THEN shownAge
                 ELSE age[o]]

Upsert(os) ==
    /\ orders' = orders \cup os
    /\ age' = [o \in Ids |-> IF o \in os THEN 0 ELSE age[o]]

Remove(os) ==
    /\ orders' = orders \ os
    /\ age' = [o \in Ids |-> IF o \in os THEN 0 ELSE age[o]]

-----------------------------------------------------------------------------
(* The exchange.                                                           *)

\* Orders leave the book; each gets a message on the user websocket.
Close(os) ==
    /\ live' = live \ os
    /\ pend' = [o \in Ids |-> IF o \in os \cap live THEN pend[o] \cup {"gone"} ELSE pend[o]]

\* A match is announced twice: as a trade and as the end of the order.
Fill(o) ==
    /\ o \in live
    /\ live' = live \ {o}
    /\ pend' = [pend EXCEPT ![o] = @ \cup {"trade", "gone"}]
    /\ UNCHANGED <<quote, view, lag, storeVars, haltVars, inflight, dirty, q, streak, r,
                   quotable, faults>>

CatchUp ==
    /\ view # live
    /\ view' = live
    /\ lag' = 0
    /\ UNCHANGED <<quote, live, pend, storeVars, haltVars, inflight, dirty, q, streak, r,
                   quotable, faults>>

\* What open_orders returns: the view, or nothing when the call fails.
Read(seen, fail) == \/ seen = view /\ ~fail
                    \/ seen = {} /\ fail

-----------------------------------------------------------------------------
(* The user websocket: on_order, and what on_trade does to the guards.     *)

WsOpen(o) ==
    /\ "open" \in pend[o]
    /\ pend' = [pend EXCEPT ![o] = @ \ {"open"}]
    /\ Upsert({o})
    /\ dirty' = TRUE
    /\ UNCHANGED <<quote, live, view, lag, haltVars, inflight, q, streak, r, quotable, faults>>

WsGone(o) ==
    /\ "gone" \in pend[o] /\ "open" \notin pend[o]
    /\ pend' = [pend EXCEPT ![o] = @ \ {"gone"}]
    /\ Remove({o})
    /\ dirty' = TRUE
    /\ UNCHANGED <<quote, live, view, lag, haltVars, inflight, q, streak, r, quotable, faults>>

\* The fill of o guards its token ...
WsMatched(o) ==
    /\ "trade" \in pend[o]
    /\ pend' = [pend EXCEPT ![o] = @ \ {"trade"}]
    /\ inflight' = inflight \cup {TokenOf[quote[o].slot]}
    /\ dirty' = TRUE
    /\ UNCHANGED <<quote, live, view, lag, storeVars, haltVars, q, streak, r, quotable, faults>>

\* ... until its trade is settled, or the guard is expired, which wakes nobody.
Settle(tok) ==
    /\ tok \in inflight
    /\ inflight' = inflight \ {tok}
    /\ dirty' \in {dirty, TRUE}
    /\ UNCHANGED <<exchangeVars, storeVars, haltVars, q, streak, r, quotable, faults>>

\* A reconnect: what was under way is lost.
WsLost ==
    /\ \E o \in Ids : pend[o] # {}
    /\ pend' = [o \in Ids |-> {}]
    /\ UNCHANGED <<quote, live, view, lag, storeVars, haltVars, inflight, dirty, q, streak, r,
                   quotable, faults>>

-----------------------------------------------------------------------------
(* The quoter.                                                             *)

\* Mutant: a halted market is not blind.
BlindToHalt == hb = "down"

Blind == halted \/ hb = "down"

\* What the strategy may ask for; a blind market is HALTED and asks for nothing.
Targets == {ts \in SUBSET Quotes :
               /\ \A s, t \in ts : s.slot = t.slot => s = t
               /\ Blind => ts = {}}

\* The live orders a plan of reconcile may keep: one for each target that has
\* a match.
Kept(ts) == {k \in SUBSET {o \in orders : quote[o] \in ts} :
                /\ \A o, p \in k : quote[o] = quote[p] => o = p
                /\ {quote[o] : o \in k} = ts \cap {quote[o] : o \in orders}}

\* Mutant: an empty batch is posted.
PlacingAlways(place, set) ==
    \/ /\ q' = [Idle EXCEPT !.at = "place", !.place = place]
       /\ dirty' = set
    \/ /\ q' = Idle
       /\ dirty' = TRUE

\* Past the cancels: place, or shed the load and come back soon.
Placing(place, set) ==
    \/ /\ place = {}
       /\ q' = Idle
       /\ dirty' = set
    \/ /\ place # {}
       /\ q' = [Idle EXCEPT !.at = "place", !.place = place]
       /\ dirty' = set
    \/ /\ place # {}
       /\ q' = Idle
       /\ dirty' = TRUE

\* ev.clear, then _recompute_locked up to its first await.
Wake ==
    /\ q.at = "idle"
    /\ \/ ~quotable /\ q' = q /\ dirty' = FALSE
       \/ /\ quotable
          /\ \E ts \in Targets : \E k \in Kept(ts) :
                LET place  == ts \ {quote[o] : o \in k}
                    cancel == orders \ k IN
                IF cancel = {} THEN Placing(place, FALSE)
                ELSE /\ q' = [Idle EXCEPT !.at = "cancel", !.cancel = cancel, !.place = place]
                     /\ dirty' = FALSE
    /\ UNCHANGED <<exchangeVars, storeVars, haltVars, inflight, streak, r, quotable, faults>>

CancelLands ==
    /\ q.at = "cancel"
    /\ Close(q.cancel)
    /\ q' = [q EXCEPT !.at = "canceled"]
    /\ UNCHANGED <<quote, view, lag, storeVars, haltVars, inflight, dirty, streak, r,
                   quotable, faults>>

Canceled ==
    /\ q.at = "canceled"
    /\ Remove(q.cancel)
    /\ Placing(q.place, dirty)
    /\ UNCHANGED <<exchangeVars, haltVars, inflight, streak, r, quotable, faults>>

\* gateway.cancel returns False, before or after the exchange acted: resync
\* with the grace and skip placing.
CancelFails ==
    /\ q.at \in {"cancel", "canceled"}
    /\ Fault("cancel")
    /\ q' = [Idle EXCEPT !.at = "refresh", !.grace = Grace]
    /\ UNCHANGED <<exchangeVars, storeVars, haltVars, inflight, dirty, streak, r, quotable>>

\* The exchange accepts some of the quotes under new ids and rejects the rest.
PostLands ==
    /\ q.at = "place"
    /\ \E accepted \in SUBSET q.place : \E new \in SUBSET (Ids \ Used) :
          /\ Cardinality(new) = Cardinality(accepted)
          /\ \E f \in [new -> accepted] :
                /\ {f[o] : o \in new} = accepted
                /\ quote' = [o \in Ids |-> IF o \in new THEN f[o] ELSE quote[o]]
          /\ live' = live \cup new
          /\ pend' = [o \in Ids |-> IF o \in new THEN {"open"} ELSE pend[o]]
          /\ \E v \in IF accepted = q.place THEN {"ok"} ELSE {"soft", "hard"} :
                q' = [q EXCEPT !.at = "posted", !.got = new, !.verdict = v]
    /\ UNCHANGED <<view, lag, storeVars, haltVars, inflight, dirty, streak, r, quotable, faults>>

\* post_orders raises, before or after the exchange acted: place returns [].
PostFails ==
    /\ q.at \in {"place", "posted"}
    /\ Fault("post")
    /\ \E v \in {"soft", "hard"} :
          q' = [q EXCEPT !.at = "posted", !.got = {}, !.verdict = v]
    /\ UNCHANGED <<exchangeVars, storeVars, haltVars, inflight, dirty, streak, r, quotable>>

\* The placed orders enter the view; a soft rejection leads to a resync, and
\* SoftLimit of them in a row, like an incomplete batch, to a quarantine.
Posted ==
    /\ q.at = "posted"
    /\ Upsert(q.got)
    /\ LET soft  == q.verdict = "soft"
           stuck == soft /\ streak + 1 >= SoftLimit IN
       /\ streak' = IF soft THEN Least(streak + 1, SoftLimit) ELSE 0
       /\ q' = IF stuck \/ q.verdict = "hard"
                  THEN [Idle EXCEPT !.at = "sweep", !.todo = Tokens]
               ELSE IF soft THEN [Idle EXCEPT !.at = "refresh", !.grace = Grace]
               ELSE Idle
    /\ UNCHANGED <<exchangeVars, haltVars, inflight, dirty, r, quotable, faults>>

\* _quarantine: cancel_asset for each token in turn, whatever it returns.
SweepLands(tok) ==
    /\ q.at = "sweep" /\ tok \in q.todo
    /\ q' = [q EXCEPT !.at = "swept", !.tok = tok, !.todo = @ \ {tok}]
    /\ \/ Close(Of(tok)) /\ UNCHANGED faults
       \/ Fault("cancel") /\ UNCHANGED <<live, pend>>
    /\ UNCHANGED <<quote, view, lag, storeVars, haltVars, inflight, dirty, streak, r, quotable>>

Swept ==
    /\ q.at = "swept"
    /\ Remove(Of(q.tok))
    /\ q' = IF q.todo = {} THEN [Idle EXCEPT !.at = "refresh"]
            ELSE [q EXCEPT !.at = "sweep", !.tok = None]
    /\ UNCHANGED <<exchangeVars, haltVars, inflight, dirty, streak, r, quotable, faults>>

\* _refresh_token_orders, the last step of a resync or of a quarantine; only
\* a resync sets the event again.
Refreshed ==
    /\ q.at = "refresh"
    /\ \E seen \in {view, {}}, fail \in BOOLEAN :
          /\ Read(seen, fail)
          /\ IF fail THEN Fault("read") ELSE UNCHANGED faults
          /\ ReplaceOpenOrders(Tokens, seen, q.grace, 0)
    /\ dirty' = (dirty \/ q.grace > 0)
    /\ q' = Idle
    /\ UNCHANGED <<exchangeVars, haltVars, inflight, streak, r, quotable>>

-----------------------------------------------------------------------------
(* The other tasks.                                                        *)

Snapshot ==
    /\ r.at = "sleep"
    /\ \E seen \in {view, {}}, fail \in BOOLEAN :
          /\ Read(seen, fail)
          /\ IF fail THEN Fault("read") ELSE UNCHANGED faults
          /\ r' = [at |-> "lock", seen |-> seen, age |-> 0,
                   stale |-> IF view = live THEN 0 ELSE lag]
    /\ UNCHANGED <<exchangeVars, storeVars, haltVars, inflight, dirty, q, streak, quotable>>

\* Mutant: only the tokens the answer lists are gone through.
ListedTokens == {TokenOf[quote[o].slot] : o \in r.seen} \ inflight

\* "iterate ALL our tokens, not just those in the REST response".
ReconciledTokens == Tokens \ inflight

\* Under the lock: not while the quoter is past its wake-up.  A forced round
\* ends with a wake-up.
ApplySnapshot ==
    /\ r.at = "lock"
    /\ q.at = "idle"
    /\ ReplaceOpenOrders(ReconciledTokens, r.seen, Grace, r.age)
    /\ r' = Asleep
    /\ dirty' \in {dirty, TRUE}
    /\ UNCHANGED <<exchangeVars, haltVars, inflight, q, streak, quotable, faults>>

HeartbeatDown ==
    /\ hb = "up"
    /\ Fault("beat")
    /\ hb' = "down"
    /\ dirty' = TRUE
    /\ UNCHANGED <<exchangeVars, storeVars, halted, m, inflight, q, streak, r, quotable>>

\* The dead-man switch of the exchange, maybe before the engine has counted
\* enough failures to call the heartbeat down.
AutoCancel ==
    /\ live # {}
    /\ \/ hb = "down" /\ UNCHANGED faults
       \/ hb = "up" /\ Fault("beat")
    /\ Close(live)
    /\ UNCHANGED <<quote, view, lag, storeVars, haltVars, inflight, dirty, q, streak, r,
                   quotable>>

HeartbeatRecovered ==
    /\ hb = "down"
    /\ hb' = "resync"
    /\ Remove(Ids)
    /\ UNCHANGED <<exchangeVars, halted, m, inflight, dirty, q, streak, r, quotable, faults>>

\* The refresh of the recovery takes no lock.
HeartbeatResynced ==
    /\ hb = "resync"
    /\ \E seen \in {view, {}}, fail \in BOOLEAN :
          /\ Read(seen, fail)
          /\ IF fail THEN Fault("read") ELSE UNCHANGED faults
          /\ ReplaceOpenOrders(Tokens, seen, 0, 0)
    /\ hb' = "up"
    /\ dirty' = TRUE
    /\ UNCHANGED <<exchangeVars, halted, m, inflight, q, streak, r, quotable>>

\* refresh_market_metadata finds the market closed ...
HaltMarket ==
    /\ ~halted /\ m = {}
    /\ Fault("halt")
    /\ halted' = TRUE
    /\ m' = Tokens
    /\ UNCHANGED <<exchangeVars, storeVars, hb, inflight, dirty, q, streak, r, quotable>>

\* Mutant: the quoter is not woken when the cancels are out.
HaltCancelsQuietly(tok) ==
    /\ tok \in m
    /\ m' = m \ {tok}
    /\ \/ Close(Of(tok)) /\ UNCHANGED faults
       \/ Fault("cancel") /\ UNCHANGED <<live, pend>>
    /\ UNCHANGED <<quote, view, lag, storeVars, hb, halted, inflight, dirty, q, streak, r, quotable>>

\* ... cancels token by token, without the lock, and wakes the quoter.
HaltCancels(tok) ==
    /\ tok \in m
    /\ m' = m \ {tok}
    /\ \/ Close(Of(tok)) /\ UNCHANGED faults
       \/ Fault("cancel") /\ UNCHANGED <<live, pend>>
    /\ dirty' = (dirty \/ m' = {})
    /\ UNCHANGED <<quote, view, lag, storeVars, hb, halted, inflight, q, streak, r, quotable>>

\* A later refresh finds it open again; nobody is woken.
Reopen ==
    /\ halted /\ m = {}
    /\ halted' = FALSE
    /\ UNCHANGED <<exchangeVars, storeVars, hb, m, inflight, dirty, q, streak, r, quotable, faults>>

BookBreaks ==
    /\ quotable
    /\ Fault("book")
    /\ quotable' = FALSE
    /\ UNCHANGED <<exchangeVars, storeVars, haltVars, inflight, dirty, q, streak, r>>

BookHeals ==
    /\ ~quotable
    /\ quotable' = TRUE
    /\ dirty' = TRUE
    /\ UNCHANGED <<exchangeVars, storeVars, haltVars, inflight, q, streak, r, faults>>

\* No read shows what was true more than MaxStale ticks before it is applied.
Tick ==
    /\ view = live \/ lag < MaxStale
    /\ r.at = "lock" => r.stale < MaxStale
    /\ age' = [o \in Ids |-> IF o \in orders THEN Least(age[o] + 1, Grace) ELSE 0]
    /\ lag' = IF view = live THEN 0 ELSE lag + 1
    /\ r' = IF r.at = "lock"
            THEN [r EXCEPT !.age = Least(@ + 1, Grace), !.stale = @ + 1] ELSE r
    /\ UNCHANGED <<quote, live, view, pend, orders, haltVars, inflight, dirty, q, streak,
                   quotable, faults>>

-----------------------------------------------------------------------------
Init ==
    /\ quote = [o \in Ids |-> None]
    /\ live = {} /\ view = {} /\ lag = 0
    /\ pend = [o \in Ids |-> {}]
    /\ orders = {} /\ age = [o \in Ids |-> 0]
    /\ inflight = {}
    /\ dirty = FALSE
    /\ q = Idle
    /\ streak = 0
    /\ r = Asleep
    /\ hb = "up" /\ halted = FALSE /\ m = {}
    /\ quotable = TRUE
    /\ faults = 0

Websocket == WsLost \/ \E o \in Ids : WsOpen(o) \/ WsGone(o) \/ WsMatched(o)

Quoter ==
    \/ CancelLands \/ Canceled \/ CancelFails
    \/ PostLands \/ PostFails \/ Posted
    \/ \E tok \in Tokens : SweepLands(tok)
    \/ Swept \/ Refreshed

Reconcile == Snapshot \/ ApplySnapshot
Heartbeat == HeartbeatDown \/ HeartbeatRecovered \/ HeartbeatResynced
Metadata  == HaltMarket \/ Reopen \/ \E tok \in Tokens : HaltCancels(tok)

Next ==
    \/ \E o \in Ids : Fill(o)
    \/ \E tok \in Tokens : Settle(tok)
    \/ CatchUp \/ AutoCancel \/ BookBreaks \/ BookHeals
    \/ Websocket
    \/ Wake \/ Quoter
    \/ Reconcile
    \/ Heartbeat
    \/ Metadata
    \/ Tick

\* The exchange answers, the event loop runs every task, time passes; the
\* quoter wakes at the latest by its timer; the reconcile loop's turn at the
\* lock comes after the quoter's (asyncio.Lock is first come, first served).
Fairness ==
    /\ WF_vars(Wake) /\ WF_vars(Quoter)
    /\ WF_vars(Snapshot) /\ SF_vars(ApplySnapshot)
    /\ WF_vars(CatchUp) /\ SF_vars(Tick)
    /\ \A tok \in Tokens : WF_vars(Settle(tok)) /\ WF_vars(HaltCancels(tok))
    /\ WF_vars(HeartbeatRecovered) /\ WF_vars(HeartbeatResynced)

Spec     == Init /\ [][Next]_vars
FairSpec == Spec /\ Fairness

-----------------------------------------------------------------------------
(* Properties.                                                             *)

\* Every variable has its type, and a call under way has something to do.
TypeOK ==
    /\ quote \in [Ids -> Quotes \cup {None}]
    /\ live \subseteq Used /\ view \subseteq Used /\ lag \in 0..MaxStale
    /\ pend \in [Ids -> SUBSET {"open", "gone", "trade"}]
    /\ orders \subseteq Used
    /\ age \in [Ids -> 0..Grace]
    /\ inflight \subseteq Tokens
    /\ dirty \in BOOLEAN
    /\ q \in [at : {"idle", "cancel", "canceled", "place", "posted", "sweep", "swept", "refresh"},
              cancel : SUBSET Ids, place : SUBSET Quotes, got : SUBSET Ids,
              todo : SUBSET Tokens, tok : Tokens \cup {None},
              verdict : {"ok", "soft", "hard"}, grace : {0, Grace}]
    /\ q.at = "cancel" => q.cancel # {}
    /\ q.at = "place" => q.place # {}
    /\ streak \in 0..SoftLimit
    /\ r \in [at : {"sleep", "lock"}, seen : SUBSET Used, age : 0..Grace, stale : 0..MaxStale]
    /\ hb \in {"up", "down", "resync"}
    /\ halted \in BOOLEAN
    /\ m \subseteq Tokens
    /\ quotable \in BOOLEAN
    /\ faults \in 0..MaxFaults

\* No slot ever has two open orders at the exchange: the DOUBLE-ORDER GUARD
\* of replace_open_orders works against every delay of a message, a read or
\* an answer shorter than the grace.
OneOrderPerSlot ==
    \A o, p \in live : quote[o].slot = quote[p].slot => o = p

\* Every open order is in the engine's view, except while the answer to the
\* post that made it is on its way.
LiveIsKnown ==
    \A o \in live : o \in orders \/ (q.at = "posted" /\ o \in q.got)

\* No wake-up is lost: a halted market whose quoter waits for its event has
\* nothing left at the exchange, without any help of the timer.
QuietHalt ==
    halted /\ m = {} /\ q.at = "idle" /\ ~dirty => live = {}

\* When failures end and orders run out, the view ends up as the truth.
ViewConverges == <>[](orders = live)

\* A market that stays halted, with a book that can be read, ends up with no
\* open order, whatever failed on the way.
HaltPulls == <>[](halted /\ quotable) => <>[](live = {})

=============================================================================
