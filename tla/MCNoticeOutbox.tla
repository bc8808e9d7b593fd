--------------------------- MODULE MCNoticeOutbox ---------------------------
(* Constants for model-checking NoticeOutbox. *)
EXTENDS NoticeOutbox, TLC

CONSTANTS d1, d2, w1, w2

\* Two runs of one process, which share an owner.
OneProcess == (d1 :> w1) @@ (d2 :> w1)
=============================================================================
