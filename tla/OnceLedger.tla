----------------------------- MODULE OnceLedger -----------------------------
(***************************************************************************)
(* What the position ledger promises for every trade, whatever its user    *)
(* websocket repeats, reorders or drops: the fill is counted at most once, *)
(* a counted fill may be taken back once, and nothing brings it back after *)
(* that.  A crash at the wrong moment may lose a fill before it is counted *)
(* (its id is recorded, its shares are not), which is final as well.       *)
(***************************************************************************)
CONSTANT Trades
VARIABLE entry

Entries == {"unseen", "counted", "reversed", "lost"}

Init == entry = [t \in Trades |-> "unseen"]

Move(t, from, to) == entry[t] = from /\ entry' = [entry EXCEPT ![t] = to]

Count(t)   == Move(t, "unseen", "counted")
Lose(t)    == Move(t, "unseen", "lost")
Reverse(t) == Move(t, "counted", "reversed")

Next == \E t \in Trades : Count(t) \/ Lose(t) \/ Reverse(t)

Spec == Init /\ [][Next]_entry
=============================================================================
