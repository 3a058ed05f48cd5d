---------------------------- MODULE MCCardReader ----------------------------
(* TLC's instance of CardReader: every kind of card there is.              *)
EXTENDS CardReader

MCCards == CardType
=============================================================================
