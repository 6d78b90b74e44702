----------------------------- MODULE NatArbiter -----------------------------
(***************************************************************************)
(* NatSystem with a history variable: how many outbound requests the table *)
(* has answered since the inbound rewriter began to wait for it.           *)
(***************************************************************************)
EXTENDS NatSystem

VARIABLE overtaken

ArbiterInit == SystemInit /\ overtaken = 0

ArbiterTick ==
    /\ Tick
    /\ overtaken' = IF ~rx'.tuple_valid THEN 0
                    ELSE IF conn_valid_0' THEN overtaken + 1 ELSE overtaken

ArbiterSpec == ArbiterInit /\ [][ArbiterTick]_<<systemVars, overtaken>>

\* "a Round Robin Arbiter is employed in the NAT IP ... Each ready signal is unset
\* only in the next cycle after the end of service for the corresponding
\* requester, ensuring fair access" (src/report/section-texs/system_design.tex:61):
\* the inbound side waits for one outbound service at most, the one under way or
\* the one that wins the tie.
RoundRobin == overtaken <= 1
=============================================================================
