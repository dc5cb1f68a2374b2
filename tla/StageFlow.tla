----------------------------- MODULE StageFlow -----------------------------
(***************************************************************************)
(* What a workflow promises the people who handle a case, with no word of  *)
(* tasks, requests or deadlines: the case goes through its stages one by   *)
(* one, and at every moment exactly one piece of work is waiting, that of  *)
(* the stage it is at.  A case may leave the flow, and then nothing is     *)
(* promised of it any more.  SiapHistory says when one does.               *)
(***************************************************************************)
EXTENDS Naturals

CONSTANTS Case, LastStage

Draft == 0
Done == LastStage + 1
Left == LastStage + 2

VARIABLES
  opened,   \* the cases that exist
  stage,    \* where each case is
  waiting   \* waiting[c]: the stages whose work is waiting in case c

vars == <<opened, stage, waiting>>

Init ==
  /\ opened = {}
  /\ stage = [c \in Case |-> Draft]
  /\ waiting = [c \in Case |-> {}]

Open(c) ==
  /\ opened' = opened \cup {c}
  /\ UNCHANGED <<stage, waiting>>

Move(c) ==
  /\ c \in opened
  /\ stage[c] \notin {Done, Left}
  /\ stage' = [stage EXCEPT ![c] = @ + 1]
  /\ waiting' = [waiting EXCEPT ![c] = IF stage'[c] = Done THEN {} ELSE {stage'[c]}]
  /\ UNCHANGED opened

Leave(c) ==
  /\ stage[c] # Left
  /\ stage' = [stage EXCEPT ![c] = Left]
  /\ waiting' = [waiting EXCEPT ![c] = {}]
  /\ UNCHANGED opened

Next == \E c \in Case : Open(c) \/ Move(c) \/ Leave(c)

Spec == Init /\ [][Next]_vars

=============================================================================
