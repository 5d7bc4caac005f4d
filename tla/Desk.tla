-------------------------------- MODULE Desk --------------------------------
(***************************************************************************)
(* What a client of ./myhttpd is promised: a connection that was accepted  *)
(* is answered, and answered once.  A desk that has closed may still       *)
(* answer; one that is gone promises nothing.                              *)
(***************************************************************************)
EXTENDS Naturals

CONSTANTS
  Client,
  Sure      \* those who will be answered

VARIABLES
  accepted,
  answers,  \* how many answers each connection has got
  desk      \* "open", "closed" or "gone"

vars == <<accepted, answers, desk>>

Init == accepted \cap Client = {} /\ answers = [c \in Client |-> 0] /\ desk = "open"

Accept(c) == /\ desk # "gone" /\ c \notin accepted
             /\ accepted' = accepted \cup {c}
             /\ UNCHANGED <<answers, desk>>

Answer(c) == /\ desk # "gone" /\ c \in accepted /\ answers[c] = 0
             /\ answers' = [answers EXCEPT ![c] = 1]
             /\ UNCHANGED <<accepted, desk>>

Close == /\ desk = "open" /\ desk' = "closed"
         /\ UNCHANGED <<accepted, answers>>

Leave == desk' = "gone"

Next == Close \/ Leave \/ \E c \in Client : Accept(c) \/ Answer(c)

SafeSpec == Init /\ [][Next]_vars

Spec == SafeSpec /\ \A c \in Sure : WF_vars(desk = "open" /\ Answer(c))
=============================================================================
