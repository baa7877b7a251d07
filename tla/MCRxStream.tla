----------------------------- MODULE MCRxStream -----------------------------
EXTENDS RxStream
MCEncoded == [a |-> <<9, 1, 0, 5>>, b |-> <<9, 1, 4, 9, 1, 0, 9, 5>>]
=============================================================================
