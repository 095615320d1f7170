----------------------------- MODULE MCConverge -----------------------------
(* Small instances of Converge.                                            *)
EXTENDS Converge, TLC

CONSTANTS r1, r2, r3, r4, r5, r6, r7, l1, l2, l3, l4, l5, l6, l7, l8

MCRouters == {r1, r2, r3, r4, r5, r6, r7}
MCLans == {l1, l2, l3, l4, l5, l6, l7, l8}

\* Nothing is masqueraded.
Plain(lans) ==
    LET routers == DOMAIN lans IN
    [lans |-> lans,
     routers |-> [l \in UNION {lans[r] : r \in routers} |-> {r \in routers : l \in lans[r]}],
     masquerade |-> [r \in routers |-> {}]]

\* Every way of attaching three routers to three LANs, with a change of the
\* topology before, between or during two calls.
Every ==
    LET lans == {l1, l2, l3} IN
    {[topology |-> [Plain(attached) EXCEPT !.routers =
                      [l \in lans |-> {r \in DOMAIN attached : l \in attached[r]}]],
      calls |-> 2, changes |-> 1] : attached \in [{r1, r2, r3} -> SUBSET lans]}

\* Four routers in a ring, a LAN behind one of them, and at most one of the
\* attachments masqueraded.
Ring == Plain(r4 :> {l4, l7, l8} @@ r5 :> {l4, l5} @@ r6 :> {l5, l6} @@ r7 :> {l6, l7})

Rings ==
    {[topology |-> t, calls |-> 1, changes |-> 0] :
       t \in {Ring} \cup {[Ring EXCEPT !.masquerade[r] = {l}] :
                          <<r, l>> \in {p \in (DOMAIN Ring.lans) \X MCLans : p[2] \in Ring.lans[p[1]]}}}

MCWorkloads == Every \cup Rings

MCSymmetry == Permutations({r1, r2, r3}) \cup Permutations({l1, l2, l3})
=============================================================================
