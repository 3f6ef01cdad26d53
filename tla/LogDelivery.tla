----------------------------- MODULE LogDelivery -----------------------------
(***************************************************************************)
(* What the log path of one command promises its control plane             *)
(* (docs/LOGGING.md, docs/AGENT_API.md): lines are numbered in the order   *)
(* the reporter accepts them; every line is stored at most once, and the   *)
(* stored lines are a prefix of the accepted ones.  When a caller is       *)
(* dropped in the middle of a delivery the prefix may get gaps and its     *)
(* last request may be overtaken, but no line is ever stored twice.        *)
(***************************************************************************)
EXTENDS Naturals, Sequences

VARIABLES
    accepted,   \* number of lines accepted so far
    stored,     \* the lines at the control plane, in its order
    closed,     \* delivery has stopped for good
    gapped      \* a delivery was given up half way

vars == <<accepted, stored, closed, gapped>>

\* The lines m to n, in order.
Lines(m, n) == [i \in 1..(n + 1 - m) |-> m + i - 1]

Init == accepted = 0 /\ stored = <<>> /\ closed = FALSE /\ gapped = FALSE

Accept ==
    /\ ~closed
    /\ accepted' = accepted + 1
    /\ UNCHANGED <<stored, closed, gapped>>

\* The next lines are stored; after the end only what was on its way can be.
Deliver(n) ==
    /\ ~gapped /\ n > Len(stored) /\ n <= accepted
    /\ stored' = stored \o Lines(Len(stored) + 1, n)
    /\ UNCHANGED <<accepted, closed, gapped>>

\* Some lines nobody has stored yet.
DeliverLoose(m, n) ==
    /\ gapped /\ 0 < m /\ m <= n /\ n <= accepted
    /\ \A i \in 1..Len(stored) : stored[i] \notin m..n
    /\ stored' = stored \o Lines(m, n)
    /\ UNCHANGED <<accepted, closed, gapped>>

Close  == closed' = TRUE /\ UNCHANGED <<accepted, stored, gapped>>
GiveUp == gapped' = TRUE /\ UNCHANGED <<accepted, stored, closed>>

Next ==
    \/ Accept \/ Close \/ GiveUp
    \/ \E n \in 1..accepted : Deliver(n) \/ \E m \in 1..n : DeliverLoose(m, n)

Spec == Init /\ [][Next]_vars

\* At most once, and a prefix in order unless a delivery was given up.
StoredOnceInOrder ==
    /\ \A i, j \in 1..Len(stored) : stored[i] = stored[j] => i = j
    /\ ~gapped => \A i \in 1..Len(stored) : stored[i] = i
==============================================================================
