---------------------------- MODULE MessagePipe ----------------------------
(***************************************************************************)
(* What the loop of LspServer takes the pipe from the editor to be: whole  *)
(* messages in the order they were sent, and an end that comes when the    *)
(* editor is gone and everything is taken, or at a message whose header is *)
(* of no use.                                                              *)
(***************************************************************************)
EXTENDS Naturals, Sequences

CONSTANTS Messages, Unreadable

VARIABLES sent, taken, open, running

vars == <<sent, taken, open, running>>

Init == sent = << >> /\ taken = << >> /\ open = TRUE /\ running = TRUE

Send(m) ==
    /\ open
    /\ sent' = Append(sent, m)
    /\ UNCHANGED <<taken, open, running>>

Close == open /\ open' = FALSE /\ UNCHANGED <<sent, taken, running>>

AllTaken == Len(taken) = Len(sent)
NextToTake == sent[Len(taken) + 1]

Take ==
    /\ running /\ ~AllTaken /\ NextToTake # Unreadable
    /\ taken' = Append(taken, NextToTake)
    /\ UNCHANGED <<sent, open, running>>

End ==
    /\ running
    /\ IF AllTaken THEN ~open ELSE NextToTake = Unreadable
    /\ running' = FALSE
    /\ UNCHANGED <<sent, taken, open>>

Next == (\E m \in Messages : Send(m)) \/ Close \/ Take \/ End

Spec == Init /\ [][Next]_vars
=============================================================================
