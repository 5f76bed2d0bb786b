--------------------------- MODULE DeliverySource ---------------------------
(***************************************************************************)
(* What the receiver may expect of a DeliverySource (the trait of          *)
(* source.rs), however it is implemented: a scan lists or reports all that *)
(* was owed for as long as it ran, and nothing that was never owed         *)
(* meanwhile; only a refused delivery is reported instead of listed; an    *)
(* acknowledgement the receiver was told of is never undone.               *)
(***************************************************************************)
CONSTANTS
  Deliveries,
  Refused      \* deliveries a scan may report as an issue instead

VARIABLES
  owed,       \* deliveries on offer that nobody acknowledged
  acked,
  watch,      \* the running scan: on, and what it must and may mention
  listed,     \* what the last scan listed, and what it reported as issues
  reported,
  got,        \* payloads the receiver has in whole
  confirmed   \* acknowledgements the receiver was told of

vars == <<owed, acked, watch, listed, reported, got, confirmed>>

NoScan == [on |-> FALSE, must |-> {}, may |-> {}]

Init ==
  /\ owed = {} /\ acked = {} /\ watch = NoScan
  /\ listed = {} /\ reported = {} /\ got = {} /\ confirmed = {}

\* A running scan while the owed deliveries become now.
Watched(w, now) ==
  IF w.on THEN [w EXCEPT !.must = @ \cap now, !.may = @ \cup now] ELSE w

Offer(d) ==
  /\ d \notin owed \cup acked
  /\ owed' = owed \cup {d}
  /\ watch' = Watched(watch, owed')
  /\ UNCHANGED <<acked, listed, reported, got, confirmed>>

\* By this receiver or by another one.
Acknowledge(d) ==
  /\ d \in owed
  /\ owed' = owed \ {d} /\ acked' = acked \cup {d}
  /\ watch' = Watched(watch, owed')
  /\ UNCHANGED <<listed, reported, got, confirmed>>

BeginScan ==
  /\ watch' = [on |-> TRUE, must |-> owed, may |-> owed]
  /\ listed' = {} /\ reported' = {}
  /\ UNCHANGED <<owed, acked, got, confirmed>>

EndScan(S, R) ==
  /\ watch.on
  /\ watch.must \subseteq S \cup R /\ S \subseteq watch.may
  /\ R \subseteq Refused \cap (watch.may \cup acked)
  /\ watch' = NoScan /\ listed' = S /\ reported' = R
  /\ UNCHANGED <<owed, acked, got, confirmed>>

\* The scan failed or the receiver stopped. A power failure may also undo
\* acknowledgements, as long as the receiver was not told of them.
Abandon(U) ==
  /\ U \subseteq acked \ confirmed
  /\ owed' = owed \cup U /\ acked' = acked \ U
  /\ watch' = NoScan /\ listed' = {} /\ reported' = {}
  /\ UNCHANGED <<got, confirmed>>

ReadPayload(d) ==
  /\ d \in listed /\ d \notin got
  /\ got' = got \cup {d}
  /\ UNCHANGED <<owed, acked, watch, listed, reported, confirmed>>

Confirm(d) ==
  /\ d \in got \cap acked
  /\ confirmed' = confirmed \cup {d}
  /\ UNCHANGED <<owed, acked, watch, listed, reported, got>>

Next ==
  \/ \E d \in Deliveries :
       Offer(d) \/ Acknowledge(d) \/ ReadPayload(d) \/ Confirm(d)
  \/ BeginScan
  \/ \E U \in SUBSET Deliveries : Abandon(U)
  \/ \E S, R \in SUBSET Deliveries : EndScan(S, R)

Spec == Init /\ [][Next]_vars
=============================================================================
