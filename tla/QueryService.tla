---------------------------- MODULE QueryService ----------------------------
(***************************************************************************)
(* What the user of ./jobExecutor is promised, without pipes, signals or   *)
(* polling: a command is put to every worker, every worker replies to that *)
(* command once, and only when all have replied is the command finished    *)
(* and the next one accepted.                                              *)
(*                                                                         *)
(* QueryExchange implements this module in the circumstances stated there  *)
(* (no "-d" timeout, answers of one line).                                 *)
(***************************************************************************)
EXTENDS Naturals

CONSTANT Worker    \* the worker processes

VARIABLES
  asked,           \* number of commands accepted so far
  serving,         \* TRUE while a command is being answered
  replied          \* workers whose reply to the present command has arrived

vars == <<asked, serving, replied>>

Init == /\ asked = 0
        /\ serving = FALSE
        /\ replied = {}

Ask == /\ ~serving
       /\ asked' = asked + 1
       /\ serving' = TRUE
       /\ UNCHANGED replied

Reply(w) == /\ serving
            /\ w \notin replied
            /\ replied' = replied \cup {w}
            /\ UNCHANGED <<asked, serving>>

Finish == /\ serving
          /\ replied = Worker
          /\ serving' = FALSE
          /\ replied' = {}
          /\ UNCHANGED asked

Next == Ask \/ (\E w \in Worker : Reply(w)) \/ Finish

SafeSpec == Init /\ [][Next]_vars

Spec == SafeSpec /\ WF_vars(Finish) /\ \A w \in Worker : WF_vars(Reply(w))
=============================================================================
