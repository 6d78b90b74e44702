----------------------------- MODULE NatService -----------------------------
(***************************************************************************)
(* What the connection table promises its two clients: a partial, one to   *)
(* one map from outbound connections to public ports.  An outbound request *)
(* is answered with the port bound to the connection, which is bound on    *)
(* first use and never rebound; an inbound request is answered with the    *)
(* inner port of the one connection it is a reply to.  Only a reset        *)
(* forgets bindings.  Entries, probing and the two searches are hidden.    *)
(***************************************************************************)
EXTENDS Functions

CONSTANTS Conns, PublicPorts, None

VARIABLES
    bindings,   \* connection -> public port
    txAnswer,   \* the answer shown to the outbound client, or None
    rxAnswer    \* the answer shown to the inbound client, or None

serviceVars == <<bindings, txAnswer, rxAnswer>>

Bound == DOMAIN bindings

\* The key a reply to connection c carries.
ReplyTo(c) == [c EXCEPT !.iport = bindings[c]]

NoBindings == [c \in {} |-> None]

Init == bindings = NoBindings /\ txAnswer = None /\ rxAnswer = None

Silent == txAnswer' = None /\ rxAnswer' = None /\ UNCHANGED bindings

Bind(c) ==
    /\ c \notin Bound
    /\ \E p \in PublicPorts \ Range(bindings) :
          /\ bindings' = [d \in Bound \cup {c} |-> IF d = c THEN p ELSE bindings[d]]
          /\ txAnswer' = [conn |-> c, port |-> p]
    /\ rxAnswer' = None

AnswerTx(c) ==
    /\ c \in Bound
    /\ txAnswer' = [conn |-> c, port |-> bindings[c]]
    /\ rxAnswer' = None
    /\ UNCHANGED bindings

AnswerRx(c) ==
    /\ c \in Bound
    /\ txAnswer' = None
    /\ UNCHANGED bindings
    /\ rxAnswer' = [reply |-> ReplyTo(c), port |-> c.iport]

Clear == bindings' = NoBindings /\ txAnswer' = None /\ rxAnswer' = None

Next ==
    \/ Silent
    \/ Clear
    \/ \E c \in Conns : Bind(c) \/ AnswerTx(c) \/ AnswerRx(c)

Spec == Init /\ [][Next]_serviceVars
=============================================================================
