------------------------------ MODULE MCRBUDP -------------------------------
(* One flow, and one terminal that sends to two.                           *)
EXTENDS RBUDP

OneFlow == {<<"a", "b">>}
FanOut == {<<"a", "b">>, <<"a", "c">>}
=============================================================================
