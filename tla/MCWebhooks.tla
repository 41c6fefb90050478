------------------------------ MODULE MCWebhooks ------------------------------
(* An instance of Webhooks for TLC.                                           *)
EXTENDS Webhooks

CONSTANTS e1, w1, w2, t1

\* Hooks are told apart by their ids alone: let w1 be the one that is changed.
ChangesFirst == hooks[w2].version = 0
=============================================================================
