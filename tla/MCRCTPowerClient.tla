-------------------------- MODULE MCRCTPowerClient ----------------------------
(* The instance of RCTPowerClient for TLC: values and checksums that have  *)
(* to be escaped, in places where the decoder can and cannot tell.         *)
EXTENDS RCTPowerClient

TwoIds == {Minus, 1}
TwoValues == {<<Plus>>, <<2>>}

\* 45 ends with an escaped '-'; 2 with a '+' after it.
EscapedChecksums ==
    [id \in TwoIds |-> [value \in TwoValues |-> IF value = <<2>> THEN Plus ELSE id]]

\* An unexpected command, and an unexpected length, with bytes that have to be escaped.
OtherFrames == {<<6, Minus, 3, Plus>>, <<Response, Plus, Response, Length>>}
=============================================================================
