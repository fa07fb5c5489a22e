---------------------------- MODULE RequestPool -----------------------------
(***************************************************************************)
(* What the orchestrator promises about a request, whatever goroutines,    *)
(* channels and timeouts stand behind it: a request moves through its life *)
(* one hop at a time and never back, each hop at most once, and once the   *)
(* pool has closed nothing new is accepted, worked on or answered; only    *)
(* the answers that are already there may still be taken.                  *)
(***************************************************************************)
CONSTANT Requests

VARIABLES
  place,   \* where each request is
  closed   \* whether the pool has closed

vars == <<place, closed>>

Places == {"new", "queued", "working", "answered", "taken", "dropped"}

Init == /\ place = [r \in Requests |-> "new"]
        /\ closed = FALSE

Hop(r, from, to) == /\ place[r] = from
                    /\ place' = [place EXCEPT ![r] = to]
                    /\ UNCHANGED closed

Accept(r) == ~closed /\ Hop(r, "new", "queued")
Claim(r)  == ~closed /\ Hop(r, "queued", "working")
Answer(r) == ~closed /\ Hop(r, "working", "answered")
Drop(r)   == ~closed /\ Hop(r, "working", "dropped")
Take(r)   == Hop(r, "answered", "taken")

Close == /\ ~closed
         /\ \A r \in Requests : place[r] # "working"
         /\ closed' = TRUE
         /\ UNCHANGED place

Next == \/ \E r \in Requests : Accept(r) \/ Claim(r) \/ Answer(r) \/ Drop(r) \/ Take(r)
        \/ Close

Spec == Init /\ [][Next]_vars
=============================================================================
