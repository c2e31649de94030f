--------------------------- MODULE MCOrderScenes ---------------------------
(***************************************************************************)
(* Two scenes of OrderSync checked by one run.  All their machinery at     *)
(* once, two tokens, two prices, two ids and two halts, is more than TLC   *)
(* can finish; each scene keeps what its question needs and leaves out     *)
(* what the other one is about.  A scene is drawn with the initial state   *)
(* and a step that leads out of it is not taken, so every behaviour of a   *)
(* scene is one of OrderSync.                                              *)
(*                                                                         *)
(*   replace  one slot, replaced over and over, with two prices and two    *)
(*            order ids: an order is cancelled and placed anew while reads *)
(*            lag and answers overtake each other                          *)
(*   halt     two tokens, a batch of two orders at one price with one id,  *)
(*            and two halts: the wake-up of a halt against a post under    *)
(*            way; soft rejections do not follow on one another here       *)
(***************************************************************************)
EXTENDS MCOrderSync

VARIABLE scene

InScene ==
    /\ scene = "replace" => faults = 0 /\ \A t \in q.place : t.slot = bid
    /\ scene = "halt" =>
          /\ Cardinality({t.price : t \in q.place}) <= 1
          /\ Cardinality(Used) <= 1
          /\ q.at = "posted" /\ q.verdict = "soft" => streak = 0

ScenesInit == Init /\ scene \in {"replace", "halt"}
ScenesNext == Next /\ UNCHANGED scene /\ InScene'
ScenesSpec == ScenesInit /\ [][ScenesNext]_<<vars, scene>>
=============================================================================
