-------------------------- MODULE MCTerminalServer --------------------------
(* Three requests that fit both of two services, so that they are          *)
(* ambiguous while both exist.  One service limits its queue and its       *)
(* admissions, the other its starts.                                       *)
EXTENDS TerminalServer, TLC

CONSTANTS r1, r2, r3, guarded, metered

MCRequests == {r1, r2, r3}
MCServices == {guarded, metered}
MCOptions ==
    guarded :> ("concurrent" :> 1 @@ "pending" :> 1 @@ "ingress" :> 2 @@ "egress" :> 0)
    @@ metered :> ("concurrent" :> 1 @@ "pending" :> 0 @@ "ingress" :> 0 @@ "egress" :> 1)
MCAccepts == [r \in MCRequests |-> MCServices]
=============================================================================
