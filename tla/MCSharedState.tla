--------------------------- MODULE MCSharedState ---------------------------
(* Instances of SharedState for TLC.                                       *)
EXTENDS SharedState, TLC

CONSTANTS w1, w2, hub, slack, lease, click, event, record

OneEach == w1 :> hub @@ w2 :> slack

=============================================================================
