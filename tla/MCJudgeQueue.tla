----------------------------- MODULE MCJudgeQueue -----------------------------
(* Finite instances of the judge queue for TLC.                            *)
EXTENDS JudgeQueueProps, TLC

CONSTANTS w1, w2, w1a, w1b, w2a, w2b, web, emb, none

\* One worker of concurrency 1 has two slots: one task judged, one fetched ahead.
OneWorker == w1a :> w1 @@ w1b :> w1
TwoWorkers == OneWorker @@ w2a :> w2 @@ w2b :> w2
=============================================================================
