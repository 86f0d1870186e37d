---------------------------- MODULE AnalyzeCalls ----------------------------
(***************************************************************************)
(* What an analysis service promises its callers (spec section 7): every   *)
(* call returns exactly one fully formed result, and a returned result is  *)
(* never replaced.  Answers is the set of well-formed results.             *)
(***************************************************************************)
CONSTANTS Calls, Answers, NoAnswer

VARIABLE answer

Init == answer = [c \in Calls |-> NoAnswer]

(* The call c returns: its answer goes from none to a well-formed result   *)
(* and no other call's answer moves.                                       *)
Return(c) ==
    /\ answer[c] = NoAnswer
    /\ answer' = [answer EXCEPT ![c] = answer'[c]]
    /\ answer'[c] \in Answers

Next == \E c \in Calls : Return(c)

(* Every call eventually returns.                                         *)
EventuallyReturns == \A c \in Calls : <>(answer[c] # NoAnswer)

Spec == Init /\ [][Next]_answer /\ EventuallyReturns
=============================================================================
