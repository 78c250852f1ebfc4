------------------------------ MODULE MCOutbox ------------------------------
(* Small instances of Outbox.                                              *)
EXTENDS Outbox, TLC

CONSTANTS d1, d2

\* Three events, one per way of protecting a handler; the oldest two may
\* fail whenever they are tried.
MCGuards == <<"exists", "unique", "none">>
MCGoodLast == <<"sometimes", "sometimes", "never">>

\* Two events, the older of which may fail.
MCTwoGuards == <<"exists", "unique">>
MCHeadFails == <<"sometimes", "never">>

\* One event.
MCOneGuard == <<"exists">>
MCOneNever == <<"never">>
=============================================================================
