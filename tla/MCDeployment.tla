---------------------------- MODULE MCDeployment ----------------------------
EXTENDS Deployment

Views(a, b) == [source |-> a, dest |-> b]

\* The addresses of two hosts in either order, of one host, and of two hosts
\* behind a translation after which each sees a higher one than its own, or each
\* a lower one (NobodyFirst).
Networks ==
    {[g \in Gateway |-> Views(IF g = first THEN 1 ELSE 2, IF g = first THEN 2 ELSE 1)] : first \in Gateway}
        \cup {[g \in Gateway |-> Views(a, b)] : a \in {1, 2}, b \in {1, 2}}

Keys == [g \in Gateway |-> IF g = "client" THEN {1, 2} ELSE {3}]

Anybody == SUBSET Gateway
=============================================================================
