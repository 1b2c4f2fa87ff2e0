-------------------------- MODULE MCRequestPipeline --------------------------
(* Instances of RequestPipeline for TLC. *)
EXTENDS RequestPipeline, TLC

\* A field is taken out, one is replaced, one is added.
MCModifiers == <<[kind |-> "remove", names |-> {"server"}],
                 [kind |-> "upsert", names |-> {"etag"}],
                 [kind |-> "upsert", names |-> {"via"}]>>

Symmetry == Permutations(Requests) \cup Permutations(Keys)
=============================================================================
