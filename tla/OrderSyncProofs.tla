--------------------------- MODULE OrderSyncProofs ---------------------------
(***************************************************************************)
(* Proofs about OrderSync, for every set of tokens, slots, prices and      *)
(* orders and every grace: the types, and, as long as the remote calls do  *)
(* not fail and reads are younger than the grace, that every open order is *)
(* known, that no slot is quoted twice and that a halt leaves nothing.     *)
(***************************************************************************)
EXTENDS OrderSync, FiniteSetTheorems, TLAPS

\* What the quoter's task carries.
QuoterStates ==
    [at : {"idle", "cancel", "canceled", "place", "posted", "sweep", "swept", "refresh"},
     cancel : SUBSET Ids, place : SUBSET Quotes, got : SUBSET Ids,
     todo : SUBSET Tokens, tok : Tokens \cup {None},
     verdict : {"ok", "soft", "hard"}, grace : {0, Grace}]

\* So it is while the quoter waits.
LEMMA IdleTyped == Idle \in QuoterStates
BY DEF Idle, QuoterStates

\* An order that is in use quotes a slot of one of the tokens.
LEMMA UsedQuotes ==
    ASSUME TypeOK, NEW o \in Used
    PROVE  o \in Ids /\ quote[o] \in Quotes /\ TokenOf[quote[o].slot] \in Tokens
BY OrderAssumption DEF TypeOK, Used, Quotes

-----------------------------------------------------------------------------
(* What the operations on the store leave.                                 *)

\* An update of the store keeps its types.
LEMMA UpsertTyped ==
    ASSUME TypeOK, NEW os, os \subseteq Used, Upsert(os)
    PROVE  orders' \subseteq Used /\ age' \in [Ids -> 0..Grace]
BY OrderAssumption DEF TypeOK, Upsert

\* So does a removal.
LEMMA RemoveTyped ==
    ASSUME TypeOK, NEW os, Remove(os)
    PROVE  orders' \subseteq Used /\ age' \in [Ids -> 0..Grace]
BY OrderAssumption DEF TypeOK, Remove

\* A refresh keeps what it shows and what is too young to be missed.
LEMMA ReplaceKeeps ==
    ASSUME TypeOK, NEW toks, NEW seen, NEW grace, NEW shownAge,
           ReplaceOpenOrders(toks, seen, grace, shownAge),
           NEW o \in Used, o \in orders, o \in seen \/ age[o] < grace
    PROVE  o \in orders'
BY DEF ReplaceOpenOrders, Replaced, Of

\* So does a replacement by what the exchange showed.
LEMMA ReplaceTyped ==
    ASSUME TypeOK, NEW toks, NEW seen, NEW grace, NEW shownAge \in 0..Grace,
           ReplaceOpenOrders(toks, seen, grace, shownAge)
    PROVE  orders' \subseteq Used /\ age' \in [Ids -> 0..Grace]
<1>1. orders' \subseteq Used
  BY DEF ReplaceOpenOrders
<1>2. age' \in [Ids -> 0..Grace]
  BY OrderAssumption DEF ReplaceOpenOrders, TypeOK
<1> QED
  BY <1>1, <1>2

-----------------------------------------------------------------------------
(* Type correctness.  Inductive with two facts more: messages are about    *)
(* orders that exist, and what was placed exists.                          *)

\* The exchange.
ExchangeTyped ==
    /\ quote \in [Ids -> Quotes \cup {None}]
    /\ live \subseteq Used /\ view \subseteq Used /\ lag \in 0..MaxStale
    /\ pend \in [Ids -> SUBSET {"open", "gone", "trade"}]
    /\ \A o \in Ids : pend[o] # {} => o \in Used

\* The store.
StoreTyped == orders \subseteq Used /\ age \in [Ids -> 0..Grace]

\* The quoter.
QuoterTyped ==
    /\ q \in QuoterStates /\ q.got \subseteq Used
    /\ q.at = "cancel" => q.cancel # {}
    /\ q.at = "place" => q.place # {}
    /\ dirty \in BOOLEAN /\ streak \in 0..SoftLimit

\* The reconcile loop.
ReaderTyped ==
    r \in [at : {"sleep", "lock"}, seen : SUBSET Used, age : 0..Grace, stale : 0..MaxStale]

\* The flags.
FlagsTyped ==
    /\ inflight \subseteq Tokens /\ m \subseteq Tokens
    /\ hb \in {"up", "down", "resync"} /\ halted \in BOOLEAN /\ quotable \in BOOLEAN
    /\ faults \in 0..MaxFaults

\* The types together.
Typed == ExchangeTyped /\ StoreTyped /\ QuoterTyped /\ ReaderTyped /\ FlagsTyped

\* They are the types that the runs check.
LEMMA TypedTypeOK == Typed => TypeOK
BY DEF Typed, ExchangeTyped, StoreTyped, QuoterTyped, ReaderTyped, FlagsTyped, QuoterStates, TypeOK

\* The initial states are well typed.
LEMMA TypedInit == Init => Typed
<1> SUFFICES ASSUME Init PROVE Typed
  OBVIOUS
<1>1. ExchangeTyped
  BY OrderAssumption DEF Init, ExchangeTyped
<1>2. StoreTyped
  BY OrderAssumption DEF Init, StoreTyped
<1>3. QuoterTyped
  <2>1. q \in QuoterStates /\ q.got = {} /\ q.at = "idle"
    BY IdleTyped DEF Init, Idle
  <2>2. dirty \in BOOLEAN
    BY Zenon DEF Init
  <2> QED
    BY <2>1, <2>2, OrderAssumption DEF Init, QuoterTyped
<1>4. ReaderTyped
  BY OrderAssumption DEF Init, ReaderTyped, Asleep
<1>5. FlagsTyped
  <2>1. faults \in 0..MaxFaults
    BY OrderAssumption DEF Init
  <2>2. halted \in BOOLEAN /\ quotable \in BOOLEAN
    BY Zenon DEF Init
  <2> QED
    BY <2>1, <2>2 DEF Init, FlagsTyped
<1> QED
  BY <1>1, <1>2, <1>3, <1>4, <1>5 DEF Typed

\* What an action that leaves them alone says of the parts.
LEMMA Frames ==
    ASSUME Typed, quote' = quote
    PROVE  /\ UNCHANGED <<live, view, lag, pend>> => ExchangeTyped'
           /\ UNCHANGED storeVars => StoreTyped'
           /\ UNCHANGED <<q, dirty, streak>> => QuoterTyped'
           /\ UNCHANGED r => ReaderTyped'
           /\ UNCHANGED <<inflight, haltVars, quotable, faults>> => FlagsTyped'
<1>1. Used' = Used
  BY DEF Used
<1> QED
  BY <1>1 DEF Typed, ExchangeTyped, StoreTyped, QuoterTyped, ReaderTyped, FlagsTyped, storeVars, haltVars

\* Orders that leave the exchange.
LEMMA CloseTyped ==
    ASSUME Typed, NEW os, Close(os), UNCHANGED <<quote, view, lag>>
    PROVE  ExchangeTyped'
BY DEF Typed, ExchangeTyped, Used, Close

\* The budget of failures.
LEMMA FaultTyped ==
    ASSUME Typed, NEW kind, Fault(kind)
    PROVE  faults' \in 0..MaxFaults
BY OrderAssumption DEF Typed, FlagsTyped, Fault

\* The exchange, the websocket and the book keep the types.
LEMMA TypedWorld ==
    ASSUME Typed,
           \/ \E o \in Ids : Fill(o) \/ WsOpen(o) \/ WsGone(o) \/ WsMatched(o)
           \/ \E tok \in Tokens : Settle(tok)
           \/ CatchUp \/ WsLost \/ AutoCancel \/ BookBreaks \/ BookHeals
    PROVE  Typed'
<1> USE DEF exchangeVars
<1>0. TypeOK
  BY TypedTypeOK
<1>1. ASSUME NEW o \in Ids, Fill(o) PROVE Typed'
  <2>1. ExchangeTyped'
    BY <1>1 DEF Fill, Typed, ExchangeTyped, Used
  <2> QED
    BY <1>1, <2>1, Frames DEF Fill, Typed
<1>2. ASSUME NEW o \in Ids, WsOpen(o) PROVE Typed'
  <2>1. ExchangeTyped' /\ o \in Used
    BY <1>2 DEF WsOpen, Typed, ExchangeTyped, Used
  <2>2. StoreTyped'
    BY <1>0, <1>2, <2>1, UpsertTyped DEF WsOpen, StoreTyped, Used
  <2>3. QuoterTyped'
    BY <1>2 DEF WsOpen, Typed, QuoterTyped, Used
  <2> QED
    BY <1>2, <2>1, <2>2, <2>3, Frames DEF WsOpen, Typed
<1>3. ASSUME NEW o \in Ids, WsGone(o) PROVE Typed'
  <2>1. ExchangeTyped'
    BY <1>3 DEF WsGone, Typed, ExchangeTyped, Used
  <2>2. StoreTyped'
    BY <1>0, <1>3, RemoveTyped DEF WsGone, StoreTyped, Used
  <2>3. QuoterTyped'
    BY <1>3 DEF WsGone, Typed, QuoterTyped, Used
  <2> QED
    BY <1>3, <2>1, <2>2, <2>3, Frames DEF WsGone, Typed
<1>4. ASSUME NEW o \in Ids, WsMatched(o) PROVE Typed'
  <2>1. ExchangeTyped' /\ o \in Used
    BY <1>4 DEF WsMatched, Typed, ExchangeTyped, Used
  <2>2. FlagsTyped'
    BY <1>0, <1>4, <2>1, UsedQuotes DEF WsMatched, Typed, FlagsTyped, haltVars
  <2>3. QuoterTyped'
    BY <1>4 DEF WsMatched, Typed, QuoterTyped, Used
  <2> QED
    BY <1>4, <2>1, <2>2, <2>3, Frames DEF WsMatched, Typed
<1>5. ASSUME NEW tok \in Tokens, Settle(tok) PROVE Typed'
  <2>1. FlagsTyped'
    BY <1>5 DEF Settle, Typed, FlagsTyped, haltVars
  <2>2. QuoterTyped'
    BY <1>5 DEF Settle, Typed, QuoterTyped, Used
  <2> QED
    BY <1>5, <2>1, <2>2, Frames DEF Settle, Typed
<1>6. CASE CatchUp
  <2>1. ExchangeTyped'
    BY <1>6, OrderAssumption DEF CatchUp, Typed, ExchangeTyped, Used
  <2> QED
    BY <1>6, <2>1, Frames DEF CatchUp, Typed
<1>7. CASE WsLost
  <2>1. ExchangeTyped'
    BY <1>7 DEF WsLost, Typed, ExchangeTyped, Used
  <2> QED
    BY <1>7, <2>1, Frames DEF WsLost, Typed
<1>8. CASE AutoCancel
  <2>1. ExchangeTyped'
    BY <1>8, CloseTyped DEF AutoCancel
  <2>2. FlagsTyped'
    BY <1>8, FaultTyped DEF AutoCancel, Typed, FlagsTyped, haltVars
  <2> QED
    BY <1>8, <2>1, <2>2, Frames DEF AutoCancel, Typed
<1>9. CASE BookBreaks \/ BookHeals
  <2>1. FlagsTyped'
    BY <1>9, FaultTyped DEF BookBreaks, BookHeals, Typed, FlagsTyped, haltVars
  <2>2. QuoterTyped'
    BY <1>9 DEF BookBreaks, BookHeals, Typed, QuoterTyped, Used
  <2> QED
    BY <1>9, <2>1, <2>2, Frames DEF BookBreaks, BookHeals, Typed
<1> QED
  BY <1>1, <1>2, <1>3, <1>4, <1>5, <1>6, <1>7, <1>8, <1>9

\* A quoter that waits again.
LEMMA IdleStates ==
    ASSUME NEW at \in {"idle", "sweep", "refresh"}, NEW todo \in SUBSET Tokens, NEW grace \in {0, Grace}
    PROVE  /\ [Idle EXCEPT !.at = at, !.todo = todo] \in QuoterStates
           /\ [Idle EXCEPT !.at = at, !.grace = grace] \in QuoterStates
           /\ [Idle EXCEPT !.at = at] \in QuoterStates
BY DEF Idle, QuoterStates

\* A quoter that goes on to place, or to rest, is well typed.
LEMMA PlacingQuoter ==
    ASSUME Typed, NEW place \in SUBSET Quotes, NEW set \in BOOLEAN, Placing(place, set),
           UNCHANGED <<quote, streak>>
    PROVE  QuoterTyped'
<1>1. q' \in QuoterStates /\ q'.got = {} /\ q'.at \in {"idle", "place"}
      /\ (q'.at = "place" => q'.place # {})
  <2>1. \/ q' = Idle
        \/ place # {} /\ q' = [Idle EXCEPT !.at = "place", !.place = place]
    BY DEF Placing
  <2>2. CASE q' = Idle
    BY <2>2, IdleTyped DEF Idle
  <2>3. CASE place # {} /\ q' = [Idle EXCEPT !.at = "place", !.place = place]
    <3>1. [Idle EXCEPT !.at = "place", !.place = place] \in QuoterStates
      BY DEF Idle, QuoterStates
    <3> QED
      BY <2>3, <3>1 DEF Idle
  <2> QED
    BY <2>1, <2>2, <2>3
<1>2. dirty' \in BOOLEAN
  BY Zenon DEF Placing
<1> QED
  BY <1>1, <1>2 DEF QuoterTyped, Typed

\* Past the cancels there is the batch to place, or nothing.
LEMMA PlacingEnds ==
    ASSUME NEW place, NEW set, Placing(place, set)
    PROVE  q'.at \in {"idle", "place"} /\ (q'.at = "place" => q'.place = place)
<1>1. CASE q' = Idle
  BY <1>1 DEF Idle
<1>2. CASE q' = [Idle EXCEPT !.at = "place", !.place = place]
  <2>1. q'.at = "place" /\ q'.place = place
    BY <1>2 DEF Idle
  <2> QED
    BY <2>1
<1> QED
  BY <1>1, <1>2 DEF Placing

\* What the quoter makes of targets ts of which the orders k are kept.
Planned(ts, k) ==
    LET place  == ts \ {quote[o] : o \in k}
        cancel == orders \ k IN
    IF cancel = {} THEN Placing(place, FALSE)
    ELSE /\ q' = [Idle EXCEPT !.at = "cancel", !.cancel = cancel, !.place = place]
         /\ dirty' = FALSE

\* Steps of the quoter.
LEMMA TypedWake ==
    ASSUME Typed, Wake
    PROVE  Typed'
<1> USE DEF exchangeVars
<1>1. QuoterTyped'
  <2>1. CASE ~quotable
    <3>1. q' = q /\ dirty' = FALSE /\ quote' = quote /\ streak' = streak
      BY <2>1 DEF Wake
    <3> QED
      BY <3>1 DEF Typed, QuoterTyped, Used
  <2>2. CASE quotable
    <3>0. PICK ts \in Targets : \E k \in Kept(ts) : Planned(ts, k)
      BY <2>2 DEF Wake, Planned
    <3>1. PICK k \in Kept(ts) : Planned(ts, k)
      BY <3>0
    <3> DEFINE place  == ts \ {quote[o] : o \in k}
               cancel == orders \ k
    <3>2. place \in SUBSET Quotes /\ cancel \in SUBSET Ids
      BY DEF Targets, Typed, StoreTyped, Used
    <3>3. UNCHANGED <<quote, streak>>
      BY DEF Wake
    <3>4. CASE cancel = {}
      <4>1. Placing(place, FALSE)
        BY <3>1, <3>4 DEF Planned
      <4> QED
        BY <4>1, <3>2, <3>3, PlacingQuoter
    <3>5. CASE cancel # {}
      <4>1. q' = [Idle EXCEPT !.at = "cancel", !.cancel = cancel, !.place = place] /\ dirty' = FALSE
        BY <3>1, <3>5 DEF Planned
      <4>2. q' \in QuoterStates /\ q'.got = {} /\ q'.at = "cancel" /\ q'.cancel # {}
        BY <4>1, <3>2, <3>5, IdleTyped DEF Idle, QuoterStates
      <4> HIDE DEF place, cancel
      <4> QED
        BY <4>1, <4>2, <3>3 DEF Typed, QuoterTyped
    <3> QED
      BY <3>4, <3>5
  <2> QED
    BY <2>1, <2>2 DEF Typed, FlagsTyped
<1> QED
  BY <1>1, Frames DEF Wake, Typed

\* The exchange accepts some quotes under new ids.
Accepts(accepted, new) ==
    /\ Cardinality(new) = Cardinality(accepted)
    /\ \E f \in [new -> accepted] :
          /\ {f[o] : o \in new} = accepted
          /\ quote' = [o \in Ids |-> IF o \in new THEN f[o] ELSE quote[o]]
    /\ live' = live \cup new
    /\ pend' = [o \in Ids |-> IF o \in new THEN {"open"} ELSE pend[o]]
    /\ \E v \in IF accepted = q.place THEN {"ok"} ELSE {"soft", "hard"} :
          q' = [q EXCEPT !.at = "posted", !.got = new, !.verdict = v]

\* Orders that land are well typed.
LEMMA PostedOrders ==
    ASSUME Typed, PostLands
    PROVE  /\ ExchangeTyped' /\ Used \subseteq Used'
           /\ q' \in QuoterStates /\ q'.at = "posted" /\ q'.got \subseteq Used'
<1>0. PICK accepted \in SUBSET q.place, new \in SUBSET (Ids \ Used) : Accepts(accepted, new)
  BY DEF PostLands, Accepts
<1>1. PICK f \in [new -> accepted] :
        quote' = [o \in Ids |-> IF o \in new THEN f[o] ELSE quote[o]]
  BY <1>0 DEF Accepts
<1>2. q \in QuoterStates /\ accepted \subseteq Quotes
  BY DEF Typed, QuoterTyped, QuoterStates
<1>3. quote' \in [Ids -> Quotes \cup {None}]
  BY <1>1, <1>2 DEF Typed, ExchangeTyped
<1>4. \A o \in new : quote'[o] # None
  BY <1>1, <1>2, OrderAssumption DEF Quotes
<1>5. Used' = Used \cup new
  BY <1>1, <1>4 DEF Used
<1>6. pend' \in [Ids -> SUBSET {"open", "gone", "trade"}] /\ \A o \in Ids : pend'[o] # {} => o \in Used'
  BY <1>0, <1>5 DEF Accepts, Typed, ExchangeTyped
<1>7. ExchangeTyped'
  BY <1>0, <1>3, <1>5, <1>6 DEF Accepts, Typed, ExchangeTyped, PostLands
<1>8. q' \in QuoterStates /\ q'.at = "posted" /\ q'.got = new
  <2>1. PICK v \in {"ok", "soft", "hard"} : q' = [q EXCEPT !.at = "posted", !.got = new, !.verdict = v]
    BY <1>0 DEF Accepts
  <2> QED
    BY <2>1, <1>2 DEF QuoterStates
<1> QED
  BY <1>5, <1>7, <1>8

\* Every step of the quoter keeps the types.
LEMMA TypedQuoter ==
    ASSUME Typed, Quoter
    PROVE  Typed'
<1> USE DEF exchangeVars
<1>0. TypeOK /\ q \in QuoterStates
  BY TypedTypeOK DEF Typed, QuoterTyped
<1>1. CASE CancelLands
  <2>1. ExchangeTyped'
    BY <1>1, CloseTyped DEF CancelLands
  <2>2. QuoterTyped'
    BY <1>1 DEF CancelLands, Typed, QuoterTyped, QuoterStates, Used
  <2> QED
    BY <1>1, <2>1, <2>2, Frames DEF CancelLands, Typed
<1>2. CASE Canceled
  <2>1. StoreTyped'
    BY <1>0, <1>2, RemoveTyped DEF Canceled, StoreTyped, Used
  <2>2. QuoterTyped'
    <3>1. q.place \in SUBSET Quotes /\ dirty \in BOOLEAN
      BY DEF Typed, QuoterTyped, QuoterStates
    <3> QED
      BY <1>2, <3>1, PlacingQuoter DEF Canceled
  <2> QED
    BY <1>2, <2>1, <2>2, Frames DEF Canceled, Typed
<1>3. CASE CancelFails
  <2>1. FlagsTyped'
    BY <1>3, FaultTyped DEF CancelFails, Typed, FlagsTyped, haltVars
  <2>2. q' \in QuoterStates /\ q'.at = "refresh" /\ q'.got = {}
    BY <1>3, IdleStates DEF CancelFails, Idle
  <2>3. QuoterTyped'
    BY <1>3, <2>2 DEF CancelFails, Typed, QuoterTyped
  <2> QED
    BY <1>3, <2>1, <2>3, Frames DEF CancelFails, Typed
<1>4. CASE PostLands
  <2>1. ExchangeTyped' /\ QuoterTyped'
    BY <1>4, PostedOrders DEF PostLands, Typed, QuoterTyped
  <2>2. StoreTyped' /\ ReaderTyped' /\ FlagsTyped'
    BY <1>4, PostedOrders DEF PostLands, Typed, StoreTyped, ReaderTyped, FlagsTyped, storeVars, haltVars
  <2> QED
    BY <2>1, <2>2 DEF Typed
<1>5. CASE PostFails
  <2>1. FlagsTyped'
    BY <1>5, FaultTyped DEF PostFails, Typed, FlagsTyped, haltVars
  <2>2. q' \in QuoterStates /\ q'.at = "posted" /\ q'.got = {}
    BY <1>0, <1>5 DEF PostFails, QuoterStates
  <2>3. QuoterTyped'
    BY <1>5, <2>2 DEF PostFails, Typed, QuoterTyped
  <2> QED
    BY <1>5, <2>1, <2>3, Frames DEF PostFails, Typed
<1>6. CASE Posted
  <2>1. StoreTyped'
    BY <1>0, <1>6, UpsertTyped DEF Posted, Typed, QuoterTyped, StoreTyped, Used
  <2>2. q' \in QuoterStates /\ q'.at \in {"idle", "sweep", "refresh"} /\ q'.got = {}
    BY <1>6, IdleTyped, IdleStates DEF Posted, Idle
  <2>3. streak' \in 0..SoftLimit
    BY <1>6, OrderAssumption DEF Posted, Typed, QuoterTyped, Least
  <2>4. QuoterTyped'
    BY <1>6, <2>2, <2>3 DEF Posted, Typed, QuoterTyped
  <2> QED
    BY <1>6, <2>1, <2>4, Frames DEF Posted, Typed
<1>7. ASSUME NEW tok \in Tokens, SweepLands(tok) PROVE Typed'
  <2>1. ExchangeTyped'
    <3>1. CASE Close(Of(tok))
      BY <1>7, <3>1, CloseTyped DEF SweepLands
    <3>2. CASE UNCHANGED <<live, pend>>
      BY <1>7, <3>2, Frames DEF SweepLands
    <3> QED
      BY <1>7, <3>1, <3>2 DEF SweepLands
  <2>2. FlagsTyped'
    BY <1>7, FaultTyped DEF SweepLands, Typed, FlagsTyped, haltVars
  <2>3. q' \in QuoterStates /\ q'.at = "swept" /\ q'.got = q.got
    BY <1>0, <1>7 DEF SweepLands, QuoterStates
  <2>4. QuoterTyped'
    BY <1>7, <2>3 DEF SweepLands, Typed, QuoterTyped, Used
  <2> QED
    BY <1>7, <2>1, <2>2, <2>4, Frames DEF SweepLands, Typed
<1>8. CASE Swept
  <2>1. StoreTyped'
    BY <1>0, <1>8, RemoveTyped DEF Swept, StoreTyped, Used
  <2>2. q' \in QuoterStates /\ q'.at \in {"sweep", "refresh"} /\ (q'.got = {} \/ q'.got = q.got)
    <3>1. [Idle EXCEPT !.at = "refresh"] \in QuoterStates
      BY IdleStates
    <3>2. [q EXCEPT !.at = "sweep", !.tok = None] \in QuoterStates
      BY <1>0 DEF QuoterStates
    <3> QED
      BY <1>0, <1>8, <3>1, <3>2 DEF Swept, Idle, QuoterStates
  <2>3. QuoterTyped'
    BY <1>8, <2>2 DEF Swept, Typed, QuoterTyped, Used
  <2> QED
    BY <1>8, <2>1, <2>3, Frames DEF Swept, Typed
<1>9. CASE Refreshed
  <2>1. StoreTyped'
    <3>1. PICK seen : ReplaceOpenOrders(Tokens, seen, q.grace, 0)
      BY <1>9 DEF Refreshed
    <3>2. 0 \in 0..Grace
      BY OrderAssumption
    <3>3. orders' \subseteq Used /\ age' \in [Ids -> 0..Grace]
      BY <1>0, <3>1, <3>2, ReplaceTyped
    <3> QED
      BY <1>9, <3>3 DEF Refreshed, StoreTyped, Used
  <2>2. FlagsTyped'
    BY <1>9, FaultTyped DEF Refreshed, Typed, FlagsTyped, haltVars
  <2>3. q' = Idle /\ Idle.at = "idle" /\ Idle.got = {}
    BY <1>9 DEF Refreshed, Idle
  <2>4. dirty' \in BOOLEAN
    BY <1>9, Zenon DEF Refreshed
  <2>5. QuoterTyped'
    BY <1>9, <2>3, <2>4, IdleTyped DEF Refreshed, Typed, QuoterTyped
  <2> QED
    BY <1>9, <2>1, <2>2, <2>5, Frames DEF Refreshed, Typed
<1> QED
  BY <1>1, <1>2, <1>3, <1>4, <1>5, <1>6, <1>7, <1>8, <1>9 DEF Quoter

\* Steps of the reconcile loop, the heartbeat loop and the metadata refresh.
LEMMA TypedTasks ==
    ASSUME Typed, Reconcile \/ Heartbeat \/ Metadata
    PROVE  Typed'
<1> USE DEF exchangeVars
<1>0. TypeOK /\ dirty \in BOOLEAN
  BY TypedTypeOK DEF Typed, QuoterTyped
<1>1. CASE Snapshot
  <2>1. FlagsTyped'
    BY <1>1, FaultTyped DEF Snapshot, Typed, FlagsTyped, haltVars
  <2>2. PICK seen \in {view, {}} :
          r' = [at |-> "lock", seen |-> seen, age |-> 0, stale |-> IF view = live THEN 0 ELSE lag]
    BY <1>1 DEF Snapshot
  <2>3. seen \subseteq Used' /\ (IF view = live THEN 0 ELSE lag) \in 0..MaxStale /\ 0 \in 0..Grace
    BY <1>1, OrderAssumption DEF Snapshot, Typed, ExchangeTyped, Used
  <2>4. ReaderTyped'
    BY <2>2, <2>3 DEF ReaderTyped
  <2> QED
    BY <1>1, <2>1, <2>4, Frames DEF Snapshot, Typed
<1>2. CASE ApplySnapshot
  <2>1. StoreTyped'
    <3>1. r.age \in 0..Grace
      BY DEF Typed, ReaderTyped
    <3>2. orders' \subseteq Used /\ age' \in [Ids -> 0..Grace]
      BY <1>0, <1>2, <3>1, ReplaceTyped DEF ApplySnapshot
    <3> QED
      BY <1>2, <3>2 DEF ApplySnapshot, StoreTyped, Used
  <2>2. ReaderTyped'
    BY <1>2, OrderAssumption DEF ApplySnapshot, ReaderTyped, Asleep
  <2>3. dirty' \in BOOLEAN
    BY <1>0, <1>2, Zenon DEF ApplySnapshot
  <2>4. QuoterTyped'
    BY <1>2, <2>3 DEF ApplySnapshot, Typed, QuoterTyped, Used
  <2> QED
    BY <1>2, <2>1, <2>2, <2>4, Frames DEF ApplySnapshot, Typed
<1>3. CASE HeartbeatDown
  <2>1. FlagsTyped'
    BY <1>3, FaultTyped DEF HeartbeatDown, Typed, FlagsTyped
  <2>2. QuoterTyped'
    BY <1>3 DEF HeartbeatDown, Typed, QuoterTyped, Used
  <2> QED
    BY <1>3, <2>1, <2>2, Frames DEF HeartbeatDown, Typed
<1>4. CASE HeartbeatRecovered
  <2>1. StoreTyped'
    BY <1>0, <1>4, RemoveTyped DEF HeartbeatRecovered, StoreTyped, Used
  <2>2. FlagsTyped'
    BY <1>4 DEF HeartbeatRecovered, Typed, FlagsTyped
  <2> QED
    BY <1>4, <2>1, <2>2, Frames DEF HeartbeatRecovered, Typed
<1>5. CASE HeartbeatResynced
  <2>1. StoreTyped'
    <3>1. PICK seen : ReplaceOpenOrders(Tokens, seen, 0, 0)
      BY <1>5 DEF HeartbeatResynced
    <3>2. 0 \in 0..Grace
      BY OrderAssumption
    <3>3. orders' \subseteq Used /\ age' \in [Ids -> 0..Grace]
      BY <1>0, <3>1, <3>2, ReplaceTyped
    <3> QED
      BY <1>5, <3>3 DEF HeartbeatResynced, StoreTyped, Used
  <2>2. FlagsTyped'
    BY <1>5, FaultTyped DEF HeartbeatResynced, Typed, FlagsTyped
  <2>3. QuoterTyped'
    BY <1>5 DEF HeartbeatResynced, Typed, QuoterTyped, Used
  <2> QED
    BY <1>5, <2>1, <2>2, <2>3, Frames DEF HeartbeatResynced, Typed
<1>6. CASE HaltMarket
  <2>1. FlagsTyped'
    BY <1>6, FaultTyped DEF HaltMarket, Typed, FlagsTyped
  <2>2. QuoterTyped'
    BY <1>6 DEF HaltMarket, Typed, QuoterTyped, Used
  <2> QED
    BY <1>6, <2>1, <2>2, Frames DEF HaltMarket, Typed
<1>7. CASE Reopen
  <2>1. FlagsTyped'
    BY <1>7 DEF Reopen, Typed, FlagsTyped
  <2>2. QuoterTyped'
    BY <1>7 DEF Reopen, Typed, QuoterTyped, Used
  <2> QED
    BY <1>7, <2>1, <2>2, Frames DEF Reopen, Typed
<1>8. ASSUME NEW tok \in Tokens, HaltCancels(tok) PROVE Typed'
  <2>1. ExchangeTyped'
    <3>1. CASE Close(Of(tok))
      BY <1>8, <3>1, CloseTyped DEF HaltCancels
    <3>2. CASE UNCHANGED <<live, pend>>
      BY <1>8, <3>2, Frames DEF HaltCancels
    <3> QED
      BY <1>8, <3>1, <3>2 DEF HaltCancels
  <2>2. FlagsTyped'
    BY <1>8, FaultTyped DEF HaltCancels, Typed, FlagsTyped
  <2>3. dirty' \in BOOLEAN
    BY <1>8, Zenon DEF HaltCancels
  <2>4. QuoterTyped'
    BY <1>8, <2>3 DEF HaltCancels, Typed, QuoterTyped, Used
  <2> QED
    BY <1>8, <2>1, <2>2, <2>4, Frames DEF HaltCancels, Typed
<1> QED
  BY <1>1, <1>2, <1>3, <1>4, <1>5, <1>6, <1>7, <1>8 DEF Reconcile, Heartbeat, Metadata

\* The clock.
LEMMA TypedTick ==
    ASSUME Typed, Tick
    PROVE  Typed'
<1>1. Used' = Used
  BY DEF Tick, Used
<1>2. ExchangeTyped'
  BY <1>1, OrderAssumption DEF Tick, Typed, ExchangeTyped
<1>3. StoreTyped'
  <2>1. \A o \in Ids : Least(age[o] + 1, Grace) \in 0..Grace
    BY OrderAssumption DEF Typed, StoreTyped, Least
  <2>2. age' \in [Ids -> 0..Grace]
    BY <2>1, OrderAssumption DEF Tick
  <2> QED
    BY <1>1, <2>2 DEF Tick, Typed, StoreTyped
<1>4. ReaderTyped'
  <2>1. CASE r.at = "lock"
    <3>1. r' = [r EXCEPT !.age = Least(@ + 1, Grace), !.stale = @ + 1]
      BY <2>1 DEF Tick
    <3>2. Least(r.age + 1, Grace) \in 0..Grace /\ r.stale + 1 \in 0..MaxStale
      BY <2>1, OrderAssumption DEF Tick, Typed, ReaderTyped, Least
    <3> QED
      BY <1>1, <3>1, <3>2 DEF Typed, ReaderTyped
  <2>2. CASE r.at # "lock"
    BY <1>1, <2>2 DEF Tick, Typed, ReaderTyped
  <2> QED
    BY <2>1, <2>2
<1>5. QuoterTyped'
  BY <1>1 DEF Tick, Typed, QuoterTyped
<1> QED
  BY <1>2, <1>3, <1>4, <1>5, Frames DEF Tick, Typed

\* Every reachable state is well typed.
LEMMA TypedInvariant == Spec => []Typed
<1>1. Typed /\ [Next]_vars => Typed'
  <2> SUFFICES ASSUME Typed, [Next]_vars PROVE Typed'
    OBVIOUS
  <2>1. CASE UNCHANGED vars
    BY <2>1, Frames DEF vars, exchangeVars, storeVars, haltVars, Typed
  <2>2. CASE Next
    BY <2>2, TypedWorld, TypedWake, TypedQuoter, TypedTasks, TypedTick DEF Next, Websocket
  <2> QED
    BY <2>1, <2>2
<1> QED
  BY <1>1, TypedInit, PTL DEF Spec

\* Every reachable state is well typed.
THEOREM OrderTypeCorrect == Spec => []TypeOK
BY TypedInvariant, TypedTypeOK, PTL

-----------------------------------------------------------------------------
(* Without failed calls and with reads that are younger than the grace, an *)
(* open order that a read does not show is younger than the read is old.   *)

\* Of the faults only a broken book and a halt, and no read older than the
\* grace.
NoFailures == FaultKinds \subseteq {"book", "halt"} /\ MaxStale < Grace

\* The heartbeat stays up; ages are those of the view; what a read does not
\* show is younger than the read is old; what it shows and is still open, a
\* later read shows.
FreshInv ==
    /\ hb = "up"
    /\ \A o \in Ids \ orders : age[o] = 0
    /\ \A o \in live \ view : age[o] <= lag
    /\ r.at = "lock" => /\ r.seen \cap live \subseteq view
                        /\ \A o \in live \ r.seen : age[o] <= r.stale

\* A step makes no order older than it was.
AgesDrop ==
    \A o \in Ids : (o \notin orders' => age'[o] = 0) /\ age'[o] \in {0, age[o]}

\* Every step of the store lets the ages drop by one at most, unless it makes
\* an order young.
LEMMA StoreAges ==
    ASSUME Typed, FreshInv,
           \/ UNCHANGED storeVars
           \/ \E os : Upsert(os) \/ Remove(os)
           \/ \E toks, seen, grace : ReplaceOpenOrders(toks, seen, grace, 0)
    PROVE  AgesDrop
<1>1. CASE UNCHANGED storeVars
  BY <1>1 DEF AgesDrop, storeVars, FreshInv
<1>2. CASE \E os : Upsert(os) \/ Remove(os)
  BY <1>2 DEF AgesDrop, Upsert, Remove, FreshInv
<1>3. CASE \E toks, seen, grace : ReplaceOpenOrders(toks, seen, grace, 0)
  BY <1>3 DEF AgesDrop, ReplaceOpenOrders
<1> QED
  BY <1>1, <1>2, <1>3

\* New orders have no age and have been in no read.
LEMMA FreshKept ==
    ASSUME Typed, FreshInv, AgesDrop, live' \ live \subseteq Ids \ Used,
           UNCHANGED <<hb, view, lag, r>>
    PROVE  FreshInv'
<1>1. lag \in Nat /\ (r.at = "lock" => r.stale \in Nat /\ r.seen \subseteq Used)
  BY OrderAssumption DEF Typed, ExchangeTyped, ReaderTyped
<1>2. live \subseteq Ids /\ orders \subseteq Used
  BY DEF Typed, ExchangeTyped, StoreTyped, Used
<1>3. \A o \in live' \ live : age'[o] = 0
  BY <1>2 DEF AgesDrop, FreshInv
<1> QED
  BY <1>1, <1>2, <1>3 DEF FreshInv, AgesDrop

\* No other fault comes.
LEMMA NoFault ==
    ASSUME NoFailures, NEW kind, Fault(kind)
    PROVE  kind \in {"book", "halt"}
BY DEF NoFailures, Fault

\* The initial states meet FreshInv.
LEMMA FreshInit == Init => FreshInv
BY DEF Init, FreshInv, Asleep

\* Every step keeps it.
LEMMA FreshStep ==
    ASSUME NoFailures, Typed, FreshInv, [Next]_vars
    PROVE  FreshInv'
<1> USE DEF exchangeVars, haltVars
<1>1. CASE UNCHANGED vars
  BY <1>1 DEF vars, storeVars, FreshInv
<1>2. CASE \E o \in Ids : Fill(o)
  BY <1>2, StoreAges, FreshKept DEF Fill
<1>3. CASE Websocket
  <2>1. CASE WsLost
    BY <2>1, StoreAges, FreshKept DEF WsLost
  <2>2. ASSUME NEW o \in Ids, WsOpen(o) PROVE FreshInv'
    BY <2>2, StoreAges, FreshKept DEF WsOpen
  <2>3. ASSUME NEW o \in Ids, WsGone(o) PROVE FreshInv'
    BY <2>3, StoreAges, FreshKept DEF WsGone
  <2>4. ASSUME NEW o \in Ids, WsMatched(o) PROVE FreshInv'
    BY <2>4, StoreAges, FreshKept DEF WsMatched
  <2> QED
    BY <1>3, <2>1, <2>2, <2>3, <2>4 DEF Websocket
<1>4. CASE \/ \E tok \in Tokens : Settle(tok)
           \/ BookBreaks \/ BookHeals \/ Wake
  BY <1>4, StoreAges, FreshKept DEF Settle, BookBreaks, BookHeals, Wake
<1>5. CASE CatchUp
  <2>1. live \subseteq Ids /\ lag \in Nat
    BY OrderAssumption DEF Typed, ExchangeTyped, Used
  <2> QED
    BY <1>5, <2>1 DEF CatchUp, storeVars, FreshInv
<1>6. CASE AutoCancel
  BY <1>6, NoFault DEF AutoCancel, FreshInv
<1>7. CASE Quoter
  <2>1. CASE CancelLands
    BY <2>1, StoreAges, FreshKept DEF CancelLands, Close
  <2>2. CASE Canceled
    BY <2>2, StoreAges, FreshKept DEF Canceled
  <2>3. CASE CancelFails \/ PostFails
    BY <2>3, NoFault DEF CancelFails, PostFails
  <2>4. CASE PostLands
    BY <2>4, StoreAges, FreshKept DEF PostLands
  <2>5. CASE Posted
    BY <2>5, StoreAges, FreshKept DEF Posted
  <2>6. ASSUME NEW tok \in Tokens, SweepLands(tok) PROVE FreshInv'
    BY <2>6, StoreAges, FreshKept DEF SweepLands, Close
  <2>7. CASE Swept
    BY <2>7, StoreAges, FreshKept DEF Swept
  <2>8. CASE Refreshed
    <3>1. \E seen : ReplaceOpenOrders(Tokens, seen, q.grace, 0)
      BY <2>8 DEF Refreshed
    <3> QED
      BY <2>8, <3>1, StoreAges, FreshKept DEF Refreshed
  <2> QED
    BY <1>7, <2>1, <2>2, <2>3, <2>4, <2>5, <2>6, <2>7, <2>8 DEF Quoter
<1>8. CASE Snapshot
  <2>1. view' = view /\ live' = live /\ lag' = lag /\ hb' = hb /\ UNCHANGED storeVars
    BY <1>8 DEF Snapshot
  <2>2. r'.seen = view /\ r'.stale = IF view = live THEN 0 ELSE lag
    BY <1>8, NoFault DEF Snapshot, Read
  <2> QED
    BY <2>1, <2>2 DEF FreshInv, storeVars
<1>9. CASE ApplySnapshot
  <2>1. ReplaceOpenOrders(ReconciledTokens, r.seen, Grace, r.age) /\ r' = Asleep /\ r.at = "lock"
        /\ UNCHANGED <<view, live, lag, hb>>
    BY <1>9 DEF ApplySnapshot
  <2>2. \A o \in Ids : o \notin orders' => age'[o] = 0
    BY <2>1 DEF ReplaceOpenOrders
  <2>3. ASSUME NEW o \in live \ view PROVE age'[o] <= lag
    <3>1. o \in Ids /\ o \notin r.seen /\ age[o] <= lag /\ lag \in Nat
      BY <2>1, OrderAssumption DEF FreshInv, Typed, ExchangeTyped, Used
    <3>2. age'[o] \in {0, age[o]}
      BY <2>1, <3>1 DEF ReplaceOpenOrders
    <3> QED
      BY <3>1, <3>2
  <2> QED
    BY <2>1, <2>2, <2>3 DEF FreshInv, Asleep
<1>10. CASE Heartbeat
  BY <1>10, NoFault DEF Heartbeat, HeartbeatDown, HeartbeatRecovered, HeartbeatResynced, FreshInv
<1>11. CASE Metadata
  <2>1. live' \subseteq live /\ UNCHANGED <<hb, view, lag, r>> /\ UNCHANGED storeVars
    BY <1>11 DEF Metadata, HaltMarket, Reopen, HaltCancels, Close
  <2> QED
    BY <2>1, StoreAges, FreshKept
<1>12. CASE Tick
  <2>1. orders' = orders /\ live' = live /\ view' = view /\ hb' = hb
    BY <1>12 DEF Tick
  <2>2. ASSUME NEW o \in Ids PROVE /\ o \notin orders => age'[o] = 0
                                   /\ age'[o] \in Nat /\ age[o] \in Nat /\ age'[o] <= age[o] + 1
    BY <1>12, OrderAssumption DEF Tick, Least, Typed, StoreTyped
  <2>3. ASSUME NEW o \in live \ view PROVE age'[o] <= lag'
    <3>1. lag' = lag + 1 /\ lag \in Nat /\ o \in Ids
      BY <1>12, OrderAssumption DEF Tick, Typed, ExchangeTyped, Used
    <3> QED
      BY <2>2, <3>1 DEF FreshInv
  <2>4. ASSUME r'.at = "lock", NEW o \in live \ r'.seen PROVE age'[o] <= r'.stale
    <3>1. r.at = "lock" /\ r'.seen = r.seen /\ r'.stale = r.stale + 1 /\ r.stale \in Nat /\ o \in Ids
      BY <1>12, <2>4, OrderAssumption DEF Tick, Typed, ReaderTyped, ExchangeTyped, Used
    <3> QED
      BY <2>2, <2>4, <3>1 DEF FreshInv
  <2>5. r'.at = "lock" => r'.seen \cap live \subseteq view
    BY <1>12 DEF Tick, Typed, ReaderTyped, FreshInv
  <2> QED
    BY <2>1, <2>2, <2>3, <2>4, <2>5 DEF FreshInv
<1> QED
  BY <1>1, <1>2, <1>3, <1>4, <1>5, <1>6, <1>7, <1>8, <1>9, <1>10, <1>11, <1>12
  DEF Next, Reconcile

-----------------------------------------------------------------------------
(* Every open order is known.  Inductive with what the quoter knows of its *)
(* cancels: those that landed have closed the orders, and a sweep has left *)
(* no order of a token it is through with.                                 *)

\* A resting order is in the store; while the quoter cancels, the orders it
\* waits for are gone.
KnownInv ==
    /\ \A o \in Ids : "gone" \in pend[o] => o \notin live
    /\ LiveIsKnown
    /\ q.at = "canceled" => q.cancel \cap live = {}
    /\ q.at \in {"sweep", "swept"} => \A o \in live : TokenOf[quote[o].slot] \in q.todo
    /\ q.at = "swept" => q.tok \notin q.todo
    /\ q.at = "refresh" /\ q.grace = 0 => live = {}

\* Steps that are not the quoter's.
Others ==
    \/ \E o \in Ids : Fill(o)
    \/ \E tok \in Tokens : Settle(tok)
    \/ CatchUp \/ AutoCancel \/ BookBreaks \/ BookHeals
    \/ Websocket \/ Reconcile \/ Heartbeat \/ Metadata \/ Tick

\* They announce the end of orders that have ended, and forget none that is open.
Tame ==
    /\ UNCHANGED <<q, quote>>
    /\ live' \subseteq live
    /\ \A o \in Ids : "gone" \in pend'[o] => "gone" \in pend[o] \/ o \notin live'
    /\ live' \cap orders \subseteq orders'

\* Orders that are closed are gone for good.
LEMMA CloseTame ==
    ASSUME Typed, NEW os, Close(os)
    PROVE  /\ live' \subseteq live
           /\ \A o \in Ids : "gone" \in pend'[o] => "gone" \in pend[o] \/ o \notin live'
BY DEF Typed, ExchangeTyped, Close

\* A snapshot that is applied is younger than the grace, so that what it does
\* not show and is open is younger as well.
LEMMA ApplyTame ==
    ASSUME NoFailures, Typed, FreshInv, ApplySnapshot
    PROVE  live \cap orders \subseteq orders'
<1>1. ReplaceOpenOrders(ReconciledTokens, r.seen, Grace, r.age) /\ r.at = "lock"
  BY DEF ApplySnapshot
<1>2. ASSUME NEW o \in live \cap orders PROVE o \in orders'
  <2>1. o \in Used
    BY DEF Typed, ExchangeTyped
  <2>2. o \in r.seen \/ age[o] < Grace
    <3>1. CASE o \notin r.seen
      <4>1. age[o] <= r.stale /\ r.stale \in 0..MaxStale /\ age[o] \in 0..Grace
        BY <1>1, <2>1, <3>1 DEF FreshInv, Typed, ReaderTyped, StoreTyped, Used
      <4> QED
        BY <4>1, OrderAssumption DEF NoFailures
    <3> QED
      BY <3>1
  <2> QED
    BY <1>1, <2>1, <2>2, ReplaceKeeps, TypedTypeOK
<1> QED
  BY <1>2

\* What is not the quoter is tame: it adds no order and forgets none that
\* rests.
LEMMA OthersTame ==
    ASSUME NoFailures, Typed, FreshInv, KnownInv, Others
    PROVE  Tame
<1> USE DEF exchangeVars, storeVars, haltVars
<1>1. CASE \E o \in Ids : Fill(o)
  BY <1>1 DEF Fill, Tame, Typed, ExchangeTyped
<1>2. CASE \/ \E tok \in Tokens : Settle(tok)
           \/ CatchUp \/ BookBreaks \/ BookHeals
  BY <1>2 DEF Settle, CatchUp, BookBreaks, BookHeals, Tame
<1>3. CASE AutoCancel \/ Heartbeat
  BY <1>3, NoFault DEF AutoCancel, Heartbeat, HeartbeatDown, HeartbeatRecovered, HeartbeatResynced, FreshInv
<1>4. CASE Websocket
  <2>1. CASE WsLost
    BY <2>1 DEF WsLost, Tame
  <2>2. ASSUME NEW o \in Ids, WsOpen(o) PROVE Tame
    BY <2>2 DEF WsOpen, Upsert, Tame, Typed, ExchangeTyped
  <2>3. ASSUME NEW o \in Ids, WsGone(o) PROVE Tame
    BY <2>3 DEF WsGone, Remove, Tame, KnownInv, Typed, ExchangeTyped
  <2>4. ASSUME NEW o \in Ids, WsMatched(o) PROVE Tame
    BY <2>4 DEF WsMatched, Tame, Typed, ExchangeTyped
  <2> QED
    BY <1>4, <2>1, <2>2, <2>3, <2>4 DEF Websocket
<1>5. CASE Reconcile
  <2>1. CASE Snapshot
    BY <2>1 DEF Snapshot, Tame
  <2>2. CASE ApplySnapshot
    BY <2>2, ApplyTame DEF ApplySnapshot, Tame
  <2> QED
    BY <1>5, <2>1, <2>2 DEF Reconcile
<1>6. CASE Metadata
  <2>1. CASE HaltMarket \/ Reopen
    BY <2>1 DEF HaltMarket, Reopen, Tame
  <2>2. ASSUME NEW tok \in Tokens, HaltCancels(tok) PROVE Tame
    <3>1. Close(Of(tok)) \/ UNCHANGED <<live, pend>>
      BY <2>2 DEF HaltCancels
    <3> QED
      BY <2>2, <3>1, CloseTame DEF HaltCancels, Tame
  <2> QED
    BY <1>6, <2>1, <2>2 DEF Metadata
<1>7. CASE Tick
  BY <1>7 DEF Tick, Tame
<1> QED
  BY <1>1, <1>2, <1>3, <1>4, <1>5, <1>6, <1>7 DEF Others

\* A tame step keeps KnownInv.
LEMMA KnownTame ==
    ASSUME Typed, KnownInv, Tame
    PROVE  KnownInv'
<1>1. live \subseteq Ids
  BY DEF Typed, ExchangeTyped, Used
<1> QED
  BY <1>1 DEF KnownInv, Tame, LiveIsKnown

\* A wake-up ends idle, or before the cancels or the post of a plan.
LEMMA WakeEnds ==
    ASSUME Wake
    PROVE  \/ q'.at = "idle"
           \/ \E ts \in Targets : \E k \in SUBSET orders :
                 /\ k \in Kept(ts)
                 /\ \/ /\ q'.at = "cancel" /\ q'.cancel = orders \ k
                       /\ q'.place = ts \ {quote[o] : o \in k}
                    \/ /\ q'.at = "place" /\ orders = k
                       /\ q'.place = ts \ {quote[o] : o \in k}
<1>1. CASE q' = q
  BY <1>1 DEF Wake
<1>2. CASE \E ts \in Targets : \E k \in Kept(ts) : Planned(ts, k)
  <2>1. PICK ts \in Targets : \E k \in Kept(ts) : Planned(ts, k)
    BY <1>2
  <2>2. PICK k \in Kept(ts) : Planned(ts, k)
    BY <2>1
  <2>3. k \in SUBSET orders
    BY <2>2 DEF Kept
  <2>4. CASE orders \ k = {}
    <3>1. Placing(ts \ {quote[o] : o \in k}, FALSE) /\ orders = k
      BY <2>2, <2>3, <2>4 DEF Planned
    <3> QED
      BY <2>2, <2>3, <3>1, PlacingEnds
  <2>5. CASE orders \ k # {}
    <3>1. q' = [Idle EXCEPT !.at = "cancel", !.cancel = orders \ k,
                            !.place = ts \ {quote[o] : o \in k}]
      BY <2>2, <2>5 DEF Planned
    <3>2. q'.at = "cancel" /\ q'.cancel = orders \ k /\ q'.place = ts \ {quote[o] : o \in k}
      BY <3>1 DEF Idle
    <3> QED
      BY <2>2, <2>3, <3>2
  <2> QED
    BY <2>4, <2>5
<1> QED
  BY <1>1, <1>2 DEF Wake, Planned

\* The quoter after an answer to its post.
LEMMA PostedEnds ==
    ASSUME Posted
    PROVE  /\ q'.at \in {"sweep", "refresh", "idle"}
           /\ q'.at = "sweep" => q'.todo = Tokens
           /\ q'.at = "refresh" => q'.grace = Grace
<1>1. CASE q' = [Idle EXCEPT !.at = "sweep", !.todo = Tokens]
  <2>1. q'.at = "sweep" /\ q'.todo = Tokens
    BY <1>1 DEF Idle
  <2> QED
    BY <2>1
<1>2. CASE q' = [Idle EXCEPT !.at = "refresh", !.grace = Grace]
  <2>1. q'.at = "refresh" /\ q'.grace = Grace
    BY <1>2 DEF Idle
  <2> QED
    BY <2>1
<1>3. CASE q' = Idle
  BY <1>3 DEF Idle
<1> QED
  BY <1>1, <1>2, <1>3 DEF Posted

\* So does a step of the quoter.
LEMMA KnownQuoter ==
    ASSUME NoFailures, Typed, FreshInv, KnownInv, Wake \/ Quoter
    PROVE  KnownInv'
<1> USE DEF exchangeVars, storeVars
<1>0. live \subseteq Used /\ orders \subseteq Used /\ Used \subseteq Ids /\ q \in QuoterStates
  BY DEF Typed, ExchangeTyped, StoreTyped, QuoterTyped, Used
<1>1. CASE Wake
  <2>1. UNCHANGED <<quote, live, pend, orders>> /\ q.at = "idle" /\ q'.at \in {"idle", "cancel", "place"}
    BY <1>1, WakeEnds DEF Wake
  <2> QED
    BY <2>1 DEF KnownInv, LiveIsKnown
<1>2. CASE CancelLands
  <2>1. q' = [q EXCEPT !.at = "canceled"] /\ q.at = "cancel" /\ Close(q.cancel)
        /\ UNCHANGED <<quote, orders>>
    BY <1>2 DEF CancelLands
  <2>2. q'.at = "canceled" /\ q'.cancel = q.cancel /\ q'.cancel \cap live' = {}
    BY <1>0, <2>1 DEF Close, QuoterStates
  <2> QED
    BY <1>0, <2>1, <2>2, CloseTame DEF KnownInv, LiveIsKnown
<1>3. CASE Canceled
  <2>1. Remove(q.cancel) /\ q.at = "canceled" /\ UNCHANGED <<quote, live, pend>>
        /\ q'.at \in {"idle", "place"}
    BY <1>3, PlacingEnds DEF Canceled
  <2> QED
    BY <2>1 DEF KnownInv, LiveIsKnown, Remove
<1>4. CASE CancelFails \/ PostFails
  BY <1>4, NoFault DEF CancelFails, PostFails
<1>5. CASE PostLands
  <2>1. PICK accepted \in SUBSET q.place, new \in SUBSET (Ids \ Used) : Accepts(accepted, new)
    BY <1>5 DEF PostLands, Accepts
  <2>2. q.at = "place" /\ orders' = orders
    BY <1>5 DEF PostLands
  <2>3. q'.at = "posted" /\ q'.got = new
    <3>1. PICK v \in {"ok", "soft", "hard"} : q' = [q EXCEPT !.at = "posted", !.got = new, !.verdict = v]
      BY <2>1 DEF Accepts
    <3> QED
      BY <1>0, <3>1 DEF QuoterStates
  <2>4. \A o \in Ids : "gone" \in pend'[o] => o \notin live'
    BY <1>0, <2>1 DEF Accepts, KnownInv
  <2>5. LiveIsKnown'
    BY <2>1, <2>2, <2>3 DEF Accepts, KnownInv, LiveIsKnown
  <2> QED
    BY <2>3, <2>4, <2>5 DEF KnownInv
<1>6. CASE Posted
  <2>1. orders' = orders \cup q.got /\ UNCHANGED <<quote, live, pend>> /\ q.at = "posted"
    BY <1>6 DEF Posted, Upsert
  <2>2. live \subseteq orders'
    BY <2>1 DEF KnownInv, LiveIsKnown
  <2>3. /\ q'.at \in {"sweep", "refresh", "idle"}
        /\ q'.at = "sweep" => q'.todo = Tokens
        /\ q'.at = "refresh" => q'.grace # 0
    BY <1>6, PostedEnds, OrderAssumption
  <2>5. \A o \in live : TokenOf[quote[o].slot] \in Tokens
    BY <1>0, UsedQuotes, TypedTypeOK
  <2> QED
    BY <2>1, <2>2, <2>3, <2>5 DEF KnownInv, LiveIsKnown
<1>7. ASSUME NEW tok \in Tokens, SweepLands(tok) PROVE KnownInv'
  <2>1. /\ q.at = "sweep" /\ tok \in q.todo /\ UNCHANGED <<quote, orders>>
        /\ q' = [q EXCEPT !.at = "swept", !.tok = tok, !.todo = @ \ {tok}]
    BY <1>7 DEF SweepLands
  <2>2. Close(Of(tok))
    BY <1>7, NoFault DEF SweepLands
  <2>3. q'.at = "swept" /\ q'.tok = tok /\ q'.todo = q.todo \ {tok}
    BY <1>0, <2>1 DEF QuoterStates
  <2>4. live' = live \ Of(tok)
    BY <2>2 DEF Close
  <2>5. \A o \in live' : TokenOf[quote[o].slot] \in q.todo \ {tok}
    BY <1>0, <2>1, <2>4 DEF KnownInv, Of
  <2> QED
    BY <2>1, <2>2, <2>3, <2>4, <2>5, CloseTame DEF KnownInv, LiveIsKnown
<1>8. CASE Swept
  <2>1. q.at = "swept" /\ UNCHANGED <<quote, live, pend>> /\ orders' = orders \ Of(q.tok)
    BY <1>8 DEF Swept, Remove
  <2>2. live \subseteq orders'
    BY <2>1 DEF KnownInv, LiveIsKnown, Of
  <2>3. CASE q.todo = {}
    <3>1. q'.at = "refresh" /\ live = {}
      BY <1>8, <2>1, <2>3 DEF Swept, Idle, KnownInv
    <3> QED
      BY <2>1, <2>2, <3>1 DEF KnownInv, LiveIsKnown
  <2>4. CASE q.todo # {}
    <3>1. q'.at = "sweep" /\ q'.todo = q.todo
      BY <1>0, <1>8, <2>4 DEF Swept, QuoterStates
    <3> QED
      BY <2>1, <2>2, <3>1 DEF KnownInv, LiveIsKnown
  <2> QED
    BY <2>3, <2>4
<1>9. CASE Refreshed
  <2>1. q.at = "refresh" /\ q'.at = "idle" /\ UNCHANGED <<quote, live, pend>>
    BY <1>9 DEF Refreshed, Idle
  <2>2. ReplaceOpenOrders(Tokens, view, q.grace, 0)
    BY <1>9, NoFault DEF Refreshed, Read
  <2>3. ASSUME NEW o \in live PROVE o \in orders'
    <3>1. o \in Used /\ o \in orders /\ q.grace = Grace
      BY <1>0, <2>1, <2>3 DEF KnownInv, LiveIsKnown, QuoterStates
    <3>2. o \in view \/ age[o] < q.grace
      <4>1. CASE o \notin view
        <5>1. age[o] <= lag /\ lag \in 0..MaxStale /\ age[o] \in 0..Grace
          BY <3>1, <4>1, <2>3 DEF FreshInv, Typed, ExchangeTyped, StoreTyped, Used
        <5> QED
          BY <3>1, <5>1, OrderAssumption DEF NoFailures
      <4> QED
        BY <4>1
    <3> QED
      BY <2>2, <3>1, <3>2, ReplaceKeeps, TypedTypeOK
  <2> QED
    BY <2>1, <2>3 DEF KnownInv, LiveIsKnown
<1> QED
  BY <1>1, <1>2, <1>3, <1>4, <1>5, <1>6, <1>7, <1>8, <1>9 DEF Quoter

\* Without failures every reachable state meets it.
LEMMA KnownInvariant ==
    ASSUME NoFailures
    PROVE  Spec => [](Typed /\ FreshInv /\ KnownInv)
<1>1. Init => Typed /\ FreshInv /\ KnownInv
  BY TypedInit, FreshInit DEF Init, KnownInv, LiveIsKnown, Idle
<1>2. Typed /\ FreshInv /\ KnownInv /\ [Next]_vars => (FreshInv /\ KnownInv)'
  <2> SUFFICES ASSUME Typed, FreshInv, KnownInv, [Next]_vars PROVE KnownInv'
    BY FreshStep
  <2>1. CASE UNCHANGED vars
    BY <2>1 DEF vars, exchangeVars, storeVars, KnownInv, LiveIsKnown
  <2>2. CASE Others
    BY <2>2, OthersTame, KnownTame
  <2>3. CASE Wake \/ Quoter
    BY <2>3, KnownQuoter
  <2> QED
    BY <2>1, <2>2, <2>3 DEF Next, Others
<1> QED
  BY <1>1, <1>2, TypedInvariant, PTL DEF Spec

\* As long as remote calls do not fail and no read is as old as the grace, no
\* open order is forgotten: no delayed message and no refresh drops one.
THEOREM OrdersAreKnown ==
    ASSUME NoFailures
    PROVE  Spec => []LiveIsKnown
<1>1. KnownInv => LiveIsKnown
  BY DEF KnownInv
<1> QED
  BY <1>1, KnownInvariant, PTL

-----------------------------------------------------------------------------
(* One order for a slot: what is about to be placed is in the way neither  *)
(* of itself nor of what stays open.                                       *)

\* No order of os has the slot of a quote to place.
Apart(os, place) == \A o \in os : \A s \in place : quote[o].slot # s.slot

\* One order in a slot, and none where the quoter is about to place.
SlotInv ==
    /\ OneOrderPerSlot
    /\ q.at \in {"cancel", "canceled", "place"} => \A s, t \in q.place : s.slot = t.slot => s = t
    /\ q.at \in {"cancel", "canceled"} => Apart(live \ q.cancel, q.place)
    /\ q.at = "place" => Apart(live, q.place)

\* Orders that go, and a quoter that stays where it is or has no plan.
LEMMA SlotKept ==
    ASSUME SlotInv, live' \subseteq live, quote' = quote,
           q' = q \/ q'.at \notin {"cancel", "canceled", "place"}
    PROVE  SlotInv'
BY DEF SlotInv, OneOrderPerSlot, Apart

\* What a plan keeps and what it places are of the same targets.
LEMMA SlotPlan ==
    ASSUME NEW ts \in Targets, NEW k \in Kept(ts)
    PROVE  /\ \A s, t \in ts \ {quote[o] : o \in k} : s.slot = t.slot => s = t
           /\ Apart(k, ts \ {quote[o] : o \in k})
BY DEF Targets, Kept, Apart

\* A quoter that wakes plans so.
LEMMA SlotWake ==
    ASSUME Typed, KnownInv, SlotInv, Wake
    PROVE  SlotInv'
<1>1. UNCHANGED <<quote, live, orders>> /\ live \subseteq orders
  BY DEF Wake, exchangeVars, storeVars, KnownInv, LiveIsKnown
<1>2. CASE q'.at = "idle"
  BY <1>1, <1>2, SlotKept
<1>3. CASE q'.at # "idle"
  <2>1. PICK ts \in Targets : \E k \in SUBSET orders :
              /\ k \in Kept(ts)
              /\ \/ /\ q'.at = "cancel" /\ q'.cancel = orders \ k
                    /\ q'.place = ts \ {quote[o] : o \in k}
                 \/ /\ q'.at = "place" /\ orders = k
                    /\ q'.place = ts \ {quote[o] : o \in k}
    BY <1>3, WakeEnds
  <2>2. PICK k \in SUBSET orders :
              /\ k \in Kept(ts)
              /\ \/ /\ q'.at = "cancel" /\ q'.cancel = orders \ k
                    /\ q'.place = ts \ {quote[o] : o \in k}
                 \/ /\ q'.at = "place" /\ orders = k
                    /\ q'.place = ts \ {quote[o] : o \in k}
    BY <2>1
  <2>3. /\ \A s, t \in q'.place : s.slot = t.slot => s = t
        /\ Apart(k, q'.place)
    BY <2>2, SlotPlan
  <2>4. q'.at = "cancel" => live' \ q'.cancel \subseteq k
    BY <1>1, <2>2
  <2>5. q'.at = "place" => live' \subseteq k
    BY <1>1, <2>2
  <2> QED
    BY <1>1, <2>2, <2>3, <2>4, <2>5 DEF SlotInv, OneOrderPerSlot, Apart
<1> QED
  BY <1>2, <1>3

\* As many new orders as accepted quotes, and one for each: no two for one.
LEMMA OneEach ==
    ASSUME NEW new \in SUBSET Ids, NEW accepted, NEW f \in [new -> accepted],
           {f[o] : o \in new} = accepted, Cardinality(new) = Cardinality(accepted)
    PROVE  \A o, p \in new : f[o] = f[p] => o = p
<1>1. IsFiniteSet(new)
  BY OrderAssumption, FS_Subset
<1>2. f \in Surjection(new, accepted)
  BY DEF Surjection
<1>3. IsFiniteSet(accepted)
  BY <1>1, <1>2, FS_Surjection
<1>4. f \in Injection(new, accepted)
  BY <1>1, <1>2, <1>3, FS_SurjSameCardinalityImpliesInj
<1> QED
  BY <1>4 DEF Injection, IsInjective

\* Orders that land keep it.
LEMMA SlotPost ==
    ASSUME Typed, SlotInv, PostLands
    PROVE  SlotInv'
<1>1. PICK accepted \in SUBSET q.place, new \in SUBSET (Ids \ Used) : Accepts(accepted, new)
  BY DEF PostLands, Accepts
<1>2. PICK f \in [new -> accepted] :
            /\ {f[o] : o \in new} = accepted
            /\ quote' = [o \in Ids |-> IF o \in new THEN f[o] ELSE quote[o]]
  BY <1>1 DEF Accepts
<1>3. \A o, p \in new : f[o] = f[p] => o = p
  BY <1>1, <1>2, OneEach DEF Accepts
<1>4. q.at = "place" /\ live' = live \cup new /\ live \subseteq Ids /\ live \cap new = {}
  BY <1>1 DEF PostLands, Accepts, Typed, ExchangeTyped, Used
<1>5. /\ \A o \in live : quote'[o] = quote[o]
      /\ \A o \in new : quote'[o] = f[o] /\ f[o] \in q.place
  BY <1>1, <1>2, <1>4
<1>6. \A o, p \in live' : quote'[o].slot = quote'[p].slot => o = p
  <2> SUFFICES ASSUME NEW o \in live', NEW p \in live', quote'[o].slot = quote'[p].slot
               PROVE  o = p
    OBVIOUS
  <2>1. CASE o \in live /\ p \in live
    BY <1>5, <2>1 DEF SlotInv, OneOrderPerSlot
  <2>2. CASE o \in new /\ p \in new
    BY <1>3, <1>4, <1>5, <2>2 DEF SlotInv
  <2>3. CASE o \in live /\ p \in new
    BY <1>4, <1>5, <2>3 DEF SlotInv, Apart
  <2>4. CASE o \in new /\ p \in live
    BY <1>4, <1>5, <2>4 DEF SlotInv, Apart
  <2> QED
    BY <1>4, <2>1, <2>2, <2>3, <2>4
<1>7. q'.at = "posted"
  <2>1. PICK v \in {"ok", "soft", "hard"} : q' = [q EXCEPT !.at = "posted", !.got = new, !.verdict = v]
    BY <1>1 DEF Accepts
  <2> QED
    BY <2>1 DEF Typed, QuoterTyped, QuoterStates
<1> QED
  BY <1>6, <1>7 DEF SlotInv, OneOrderPerSlot

\* So does every step of the quoter.
LEMMA SlotQuoter ==
    ASSUME NoFailures, Typed, FreshInv, KnownInv, SlotInv, Quoter
    PROVE  SlotInv'
<1> USE DEF exchangeVars, storeVars
<1>0. q \in QuoterStates
  BY DEF Typed, QuoterTyped
<1>1. CASE CancelLands
  <2>1. /\ q.at = "cancel" /\ q'.at = "canceled" /\ q'.cancel = q.cancel /\ q'.place = q.place
        /\ quote' = quote /\ live' = live \ q.cancel
    BY <1>0, <1>1 DEF CancelLands, Close, QuoterStates
  <2> QED
    BY <2>1 DEF SlotInv, OneOrderPerSlot, Apart
<1>2. CASE Canceled
  <2>1. q.at = "canceled" /\ UNCHANGED <<quote, live>>
        /\ q'.at \in {"idle", "place"} /\ (q'.at = "place" => q'.place = q.place)
    BY <1>2, PlacingEnds DEF Canceled
  <2>2. live \ q.cancel = live
    BY <2>1 DEF KnownInv
  <2> QED
    BY <2>1, <2>2 DEF SlotInv, OneOrderPerSlot, Apart
<1>3. CASE CancelFails \/ PostFails
  BY <1>3, NoFault DEF CancelFails, PostFails
<1>4. CASE PostLands
  BY <1>4, SlotPost
<1>5. CASE Posted
  BY <1>5, PostedEnds, SlotKept DEF Posted
<1>6. ASSUME NEW tok \in Tokens, SweepLands(tok) PROVE SlotInv'
  <2>1. live' \subseteq live /\ quote' = quote
    BY <1>6 DEF SweepLands, Close
  <2>2. q'.at = "swept"
    BY <1>0, <1>6 DEF SweepLands, QuoterStates
  <2> QED
    BY <2>1, <2>2, SlotKept
<1>7. CASE Swept
  <2>1. UNCHANGED <<quote, live>>
    BY <1>7 DEF Swept
  <2>2. q'.at \in {"refresh", "sweep"}
    BY <1>0, <1>7 DEF Swept, Idle, QuoterStates
  <2> QED
    BY <2>1, <2>2, SlotKept
<1>8. CASE Refreshed
  BY <1>8, SlotKept DEF Refreshed, Idle
<1> QED
  BY <1>1, <1>2, <1>3, <1>4, <1>5, <1>6, <1>7, <1>8 DEF Quoter

\* Without failures every reachable state meets it.
LEMMA SlotInvariant ==
    ASSUME NoFailures
    PROVE  Spec => []SlotInv
<1>1. Init => SlotInv
  BY DEF Init, Idle, SlotInv, OneOrderPerSlot
<1>2. Typed /\ FreshInv /\ KnownInv /\ SlotInv /\ [Next]_vars => SlotInv'
  <2> SUFFICES ASSUME Typed, FreshInv, KnownInv, SlotInv, [Next]_vars PROVE SlotInv'
    OBVIOUS
  <2>1. CASE UNCHANGED vars
    BY <2>1, SlotKept DEF vars, exchangeVars
  <2>2. CASE Others
    BY <2>2, OthersTame, SlotKept DEF Tame
  <2>3. CASE Wake
    BY <2>3, SlotWake
  <2>4. CASE Quoter
    BY <2>4, SlotQuoter
  <2> QED
    BY <2>1, <2>2, <2>3, <2>4 DEF Next, Others
<1> QED
  BY <1>1, <1>2, KnownInvariant, PTL DEF Spec

\* Under the same assumptions no slot has two open orders: the quoter never
\* places beside an order it has forgotten or not yet cancelled.
THEOREM OneOrderEach ==
    ASSUME NoFailures
    PROVE  Spec => []OneOrderPerSlot
<1>1. SlotInv => OneOrderPerSlot
  BY DEF SlotInv
<1> QED
  BY <1>1, SlotInvariant, PTL

-----------------------------------------------------------------------------
(* When only halts disturb, a halted market whose cancels are out, and     *)
(* whose quoter is not to be woken, holds no order, or the quoter is at    *)
(* cancelling them.                                                        *)

\* Of the faults only a halt, and no read older than the grace.
OnlyHalts == FaultKinds \subseteq {"halt"} /\ MaxStale < Grace

\* Halted, looked at, and with nothing left to do.
Settled == halted /\ m = {} /\ ~dirty

\* Nothing rests, or the quoter cancels all that does.
Pulled ==
    \/ q.at = "idle" /\ live = {}
    \/ q.at = "cancel" /\ q.place = {} /\ live \subseteq q.cancel
    \/ q.at = "canceled" /\ q.place = {} /\ live = {}

\* What is halted and settled is pulled.
HaltInv == quotable /\ (Settled => Pulled)

\* No other fault comes.
LEMMA HaltFault ==
    ASSUME OnlyHalts, NEW kind, Fault(kind)
    PROVE  kind = "halt"
BY DEF OnlyHalts, Fault

\* Nobody but the quoter's wake-up takes a wake-up back.
LEMMA Unsettled ==
    ASSUME OnlyHalts, Typed, Others \/ Quoter
    PROVE  Settled' => Settled
<1> USE DEF haltVars, Settled
<1>0. dirty \in BOOLEAN /\ Tokens # {}
  BY OrderAssumption DEF Typed, QuoterTyped
<1>1. CASE Quoter
  BY <1>0, <1>1 DEF Quoter, CancelLands, Canceled, Placing, CancelFails, PostLands, PostFails, Posted,
     SweepLands, Swept, Refreshed
<1>2. CASE Websocket \/ Reconcile \/ Tick \/ (\E tok \in Tokens : Settle(tok))
  BY <1>0, <1>2 DEF Websocket, WsLost, WsOpen, WsGone, WsMatched, Reconcile, Snapshot, ApplySnapshot,
     Tick, Settle
<1>3. CASE (\E o \in Ids : Fill(o)) \/ CatchUp \/ AutoCancel \/ BookBreaks \/ BookHeals
  BY <1>0, <1>3 DEF Fill, CatchUp, AutoCancel, BookBreaks, BookHeals
<1>4. CASE Heartbeat
  BY <1>0, <1>4 DEF Heartbeat, HeartbeatDown, HeartbeatRecovered, HeartbeatResynced
<1>5. CASE Metadata
  BY <1>0, <1>5 DEF Metadata, HaltMarket, Reopen, HaltCancels
<1> QED
  BY <1>1, <1>2, <1>3, <1>4, <1>5 DEF Others

\* The book stays quotable.
LEMMA Quotable ==
    ASSUME OnlyHalts, HaltInv, Next
    PROVE  quotable'
<1>1. ~BookBreaks
  BY HaltFault DEF BookBreaks
<1> QED
  BY <1>1 DEF Next, HaltInv, Fill, Settle, CatchUp, AutoCancel, BookHeals, Websocket, WsLost, WsOpen,
     WsGone, WsMatched, Wake, Quoter, CancelLands, Canceled, CancelFails, PostLands, PostFails, Posted,
     SweepLands, Swept, Refreshed, Reconcile, Snapshot, ApplySnapshot, Heartbeat, HeartbeatDown,
     HeartbeatRecovered, HeartbeatResynced, Metadata, HaltMarket, Reopen, HaltCancels, Tick

\* A quoter that wakes up in a halted market cancels all it knows.
LEMMA HaltWake ==
    ASSUME Typed, KnownInv, HaltInv, Wake, Settled'
    PROVE  Pulled'
<1>1. Blind /\ UNCHANGED live /\ live \subseteq orders /\ quotable
  BY DEF Wake, Blind, Settled, haltVars, exchangeVars, KnownInv, LiveIsKnown, HaltInv
<1>2. PICK ts \in Targets : \E k \in Kept(ts) : Planned(ts, k)
  BY <1>1 DEF Wake, Planned
<1>3. PICK k \in Kept(ts) : Planned(ts, k)
  BY <1>2
<1>4. ts = {} /\ k = {}
  BY <1>1 DEF Targets, Kept
<1>5. CASE orders = {}
  <2>1. Placing({}, FALSE)
    BY <1>3, <1>4, <1>5 DEF Planned
  <2>2. q'.at = "idle"
    BY <2>1 DEF Placing, Idle
  <2> QED
    BY <1>1, <1>5, <2>2 DEF Pulled
<1>6. CASE orders # {}
  <2>1. q' = [Idle EXCEPT !.at = "cancel", !.cancel = orders, !.place = {}]
    BY <1>3, <1>4, <1>6 DEF Planned
  <2>2. q'.at = "cancel" /\ q'.cancel = orders /\ q'.place = {}
    BY <2>1 DEF Idle
  <2> QED
    BY <1>1, <2>2 DEF Pulled
<1> QED
  BY <1>5, <1>6

\* And one that is at it does nothing else.
LEMMA HaltQuoter ==
    ASSUME OnlyHalts, Typed, Pulled, Quoter
    PROVE  Pulled'
<1>0. q \in QuoterStates
  BY DEF Typed, QuoterTyped
<1>1. CASE CancelLands
  <2>1. q.at = "cancel" /\ live' = live \ q.cancel /\ q'.at = "canceled" /\ q'.place = q.place
    BY <1>0, <1>1 DEF CancelLands, Close, QuoterStates
  <2> QED
    BY <2>1 DEF Pulled
<1>2. CASE Canceled
  <2>1. q.at = "canceled" /\ q.place = {} /\ live' = {}
    BY <1>2 DEF Canceled, exchangeVars, Pulled
  <2>2. q'.at = "idle"
    BY <1>2, <2>1 DEF Canceled, Placing, Idle
  <2> QED
    BY <2>1, <2>2 DEF Pulled
<1>3. ~CancelFails /\ ~PostFails
  BY HaltFault DEF CancelFails, PostFails
<1> QED
  BY <1>1, <1>2, <1>3 DEF Quoter, Pulled, PostLands, Posted, SweepLands, Swept, Refreshed

\* With halts only every reachable state meets it.
LEMMA HaltInvariant ==
    ASSUME OnlyHalts
    PROVE  Spec => []HaltInv
<1>0. NoFailures
  BY DEF OnlyHalts, NoFailures
<1>1. Init => HaltInv
  BY DEF Init, HaltInv, Settled
<1>2. Typed /\ FreshInv /\ KnownInv /\ HaltInv /\ [Next]_vars => HaltInv'
  <2> SUFFICES ASSUME Typed, FreshInv, KnownInv, HaltInv, [Next]_vars PROVE HaltInv'
    OBVIOUS
  <2>1. CASE UNCHANGED vars
    BY <2>1 DEF vars, exchangeVars, haltVars, HaltInv, Settled, Pulled
  <2>2. CASE Others
    <3>1. Pulled => Pulled'
      BY <1>0, <2>2, OthersTame DEF Tame, Pulled
    <3> QED
      BY <2>2, <3>1, Unsettled, Quotable DEF HaltInv, Next, Others
  <2>3. CASE Wake
    BY <2>3, HaltWake, Quotable DEF HaltInv, Next
  <2>4. CASE Quoter
    BY <2>4, HaltQuoter, Unsettled, Quotable DEF HaltInv, Next
  <2> QED
    BY <2>1, <2>2, <2>3, <2>4 DEF Next, Others
<1> QED
  BY <1>0, <1>1, <1>2, KnownInvariant, PTL DEF Spec

\* As long as nothing but halts disturbs, no wake-up of a halt is lost: when
\* the cancels are out and the quoter sleeps with its event clear, nothing is
\* left at the exchange.
THEOREM HaltIsQuiet ==
    ASSUME OnlyHalts
    PROVE  Spec => []QuietHalt
<1>1. HaltInv => QuietHalt
  BY DEF HaltInv, QuietHalt, Settled, Pulled
<1> QED
  BY <1>1, HaltInvariant, PTL

=============================================================================
