---------------------------- MODULE ResponseCache ----------------------------
(***************************************************************************)
(* What a response cache promises to the request pipeline, with no files,  *)
(* no metadata and no persistence: a lookup is answered by nothing, or by  *)
(* what was fetched for the same key, complete, with a body that is at     *)
(* least as new as the headers.  Entries may vanish at any time.           *)
(***************************************************************************)
EXTENDS Naturals, Sequences

CONSTANTS Keys, Workers, None

VARIABLES
    fetched,   \* the key of every response fetched so far
    shown      \* the hit each task holds, or None

Fetch(k) ==
    /\ fetched' = Append(fetched, k)
    /\ UNCHANGED shown

\* A lookup of k is answered with stored headers h and stored body b.
Hit(w, k, h, b) ==
    /\ shown[w] = None
    /\ fetched[h] = k
    /\ fetched[b] = k
    /\ h <= b
    /\ shown' = [shown EXCEPT ![w] = [key |-> k, headers |-> h, body |-> b,
                                      complete |-> TRUE]]
    /\ UNCHANGED fetched

\* The pipeline takes the answer, or the process restarts.
Forget ==
    /\ \E S \in SUBSET Workers :
          shown' = [w \in Workers |-> IF w \in S THEN None ELSE shown[w]]
    /\ UNCHANGED fetched

Init == fetched = <<>> /\ shown = [w \in Workers |-> None]

Next ==
    \/ \E k \in Keys : Fetch(k)
    \/ \E w \in Workers, k \in Keys, h, b \in DOMAIN fetched : Hit(w, k, h, b)
    \/ Forget

Spec == Init /\ [][Next]_<<fetched, shown>>
=============================================================================
