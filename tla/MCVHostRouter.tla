---------------------------- MODULE MCVHostRouter ----------------------------
(* Instances of VHostRouter for TLC. *)
EXTENDS VHostRouter

CONSTANTS a, b, com

Labels == {a, b, com}

\* Every host of up to four labels.
HostsTo4 == UNION {[1 .. n -> Labels] : n \in 1 .. 4}

\* Every domain of up to four labels alone; and domains that overlap: exact
\* name, parent, wildcards.
Single ==
    {{name} : name \in {m \in UNION {[1 .. n -> Labels \cup {Star}] : n \in 1 .. 4} : Valid(m)}}
Overlapping == {{<<a, com>>, <<Star, a, com>>, <<Star, com>>},
                {<<a, com>>, <<b, a, com>>, <<Star, Star, com>>}}
AllConfigs == Single \cup Overlapping
=============================================================================
