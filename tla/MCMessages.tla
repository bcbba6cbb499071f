----------------------------- MODULE MCMessages -----------------------------
(***************************************************************************)
(* Small instances of Messages for TLC. Executions of the send worker      *)
(* behave alike, so they may be permuted where only safety is checked.     *)
(***************************************************************************)
EXTENDS Messages, TLC

CONSTANTS w1, w2

TwoChannels   == {"sms", "email"}
ThreeChannels == {"sms", "email", "whatsapp"}
Marketing     == {"marketing"}
BothPurposes  == {"transactional", "marketing"}
MCWorker      == {w1}
MCWorkers     == {w1, w2}
MCSymmetry    == Permutations(MCWorkers)
=============================================================================
