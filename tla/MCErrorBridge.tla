----------------------------- MODULE MCErrorBridge -----------------------------
(* The code of one answer is the one that an error without a code has.     *)
EXTENDS ErrorBridge

MCCodes == {NoCode, 2}
=============================================================================
