---------------------------- MODULE MCFillLedger ----------------------------
(***************************************************************************)
(* Instances of FillLedger for TLC, and what the comments of the code say  *)
(* of the ledger that the code does not do.                                *)
(***************************************************************************)
EXTENDS FillLedger, FiniteSetsExt

CONSTANTS yes, b1, s1

\* One token that is bought and sold; 2 shares exceed the tolerance of 1.
OneToken    == {yes}
BuySell     == {b1, s1}
AllOnYes    == [t \in Trades |-> yes]
TwoShares   == [t \in Trades |-> IF t = s1 THEN -2 ELSE 2]
TwoHeld     == [tok \in Tokens |-> 2]

-----------------------------------------------------------------------------
\* "We apply the fill optimistically at MATCHED and reverse it on FAILED"
\* (state/tracker.py:11): the cash that MATCHED booked with the risk manager
\* is that of the fills counted and not reversed, in a process that has never
\* crashed.
CashFollowsFills ==
    crashes = 0 =>
        netCash = MapThenSumSet(LAMBDA t : -Signed[t],
                                {t \in Trades : credits[t] = 1 /\ reversals[t] = 0})

\* "only for tokens with no in-flight trades (optimistic state is newer)"
\* (engine.py:800).
AuditSparesInFlight ==
    [][CorrectDivergence =>
         \A tok \in Tokens : positions'[tok] # positions[tok] => inflight[tok] = 0]_vars
=============================================================================
