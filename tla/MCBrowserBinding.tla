-------------------------- MODULE MCBrowserBinding --------------------------
(* Small instances of BrowserBinding for TLC. *)
EXTENDS BrowserBinding

CONSTANTS c1, c2, r1, d1, d2

TwoCallbacks == {c1, c2}
OneRequest == {r1}
TwoDeliveries == {d1, d2}
=============================================================================
