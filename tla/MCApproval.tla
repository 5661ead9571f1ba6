----------------------------- MODULE MCApproval -----------------------------
(* Finite instances of Approval; the .cfg files choose the definition.       *)
EXTENDS Approval

CONSTANTS anna, ben, cab, c1, c2, sweep

TwoUsers  == {anna, ben}
OneGroup  == {cab}
Board     == [g \in {cab} |-> {ben}]
TwoClients == {c1, c2}

MCStage(mode, quorum, approvers, onTimeout) ==
    [mode |-> mode, quorum |-> quorum, approvers |-> approvers, due |-> TRUE,
     onTimeout |-> onTimeout]

\* Two of three, one of whom answers twice through the group, then one more;
\* in sequence, held at the deadline; together, rejected at the deadline.
Quorum     == <<MCStage("quorum", 2, <<anna, ben, cab>>, "auto_approve"),
                MCStage("parallel", 1, <<anna>>, "hold")>>
Sequential == <<MCStage("sequential", 1, <<anna, ben>>, "hold")>>
Together   == <<MCStage("parallel", 1, <<anna, cab>>, "auto_reject")>>

MCSpecs    == {Quorum, Sequential, Together}
=============================================================================
