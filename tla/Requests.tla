------------------------------ MODULE Requests -------------------------------
(***************************************************************************)
(* A web request that changes something: the view fetches a row and the    *)
(* service checks what it read, in one step; the service writes and the    *)
(* transaction commits in a later one.  No row is locked in between, so    *)
(* the writes of other requests may come first.  An exception, or the end  *)
(* of the process, leaves nothing behind.                                  *)
(***************************************************************************)

CONSTANT Sessions   \* requests in progress at the same time

VARIABLE req        \* what each session has checked and is about to write

Idle == [op |-> "idle"]

NoRequests == req = [s \in Sessions |-> Idle]

\* The checks passed: remember what the writes will be made from.
Begin(s, r) ==
    /\ req[s] = Idle
    /\ req' = [req EXCEPT ![s] = r]

Finish(s) == req' = [req EXCEPT ![s] = Idle]

Rollback(s) == req[s] # Idle /\ Finish(s)
=============================================================================
