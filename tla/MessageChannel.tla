---------------------------- MODULE MessageChannel ----------------------------
(***************************************************************************)
(* What the receiving half of a connection promises its caller: the        *)
(* panel's messages, each once, in order, none that it did not send; a     *)
(* refusal only of what is no message; and an end.                         *)
(***************************************************************************)
EXTENDS Naturals, Sequences

CONSTANTS Frame, Valid(_)

VARIABLES sent, got, end

Init == sent = <<>> /\ got = <<>> /\ end = "open"

More == end = "open" /\ Len(got) < Len(sent)
Due == sent[Len(got) + 1]

Send(f) == sent' = Append(sent, f) /\ UNCHANGED <<got, end>>

Deliver == More /\ Valid(Due) /\ got' = Append(got, Due) /\ UNCHANGED <<sent, end>>

Refuse == More /\ ~Valid(Due) /\ end' = "refused" /\ UNCHANGED <<sent, got>>

Ends == end = "open" /\ end' = "gone" /\ UNCHANGED <<sent, got>>

Next == (\E f \in Frame : Send(f)) \/ Deliver \/ Refuse \/ Ends

Spec == Init /\ [][Next]_<<sent, got, end>>
==============================================================================
