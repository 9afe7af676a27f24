------------------------- MODULE DiagnosisService -------------------------
(***************************************************************************)
(* What the diagnostics runtime promises its two clients, LspCoordinator   *)
(* and LspTool: the calls of one key are served one at a time and in the   *)
(* order they were asked, each settles once, only a call that was served   *)
(* answers, and once the service is closed no further call is served.      *)
(* Sessions, processes and the reasons of a failure are not visible here.  *)
(***************************************************************************)
CONSTANTS Calls, CallKey, Outcomes

VARIABLES open,     \* calls are admitted
          stage,    \* idle, asked, served or settled
          ahead,    \* the unsettled calls that were asked before this one
          outcome

vars == <<open, stage, ahead, outcome>>

Init ==
  /\ open = TRUE
  /\ stage = [c \in Calls |-> "idle"]
  /\ ahead = [c \in Calls |-> {}]
  /\ outcome = [c \in Calls |-> "none"]

Unsettled(k) == {d \in Calls : CallKey[d] = k /\ stage[d] \in {"asked", "served"}}

Ask(c) ==
  /\ open /\ stage[c] = "idle"
  /\ stage' = [stage EXCEPT ![c] = "asked"]
  /\ ahead' = [ahead EXCEPT ![c] = Unsettled(CallKey[c])]
  /\ UNCHANGED <<open, outcome>>

Serve(c) ==
  /\ open /\ stage[c] = "asked" /\ ahead[c] = {}
  /\ stage' = [stage EXCEPT ![c] = "served"]
  /\ UNCHANGED <<open, ahead, outcome>>

\* Also a call that is refused when it is asked, or gives up before its turn.
Settle(c) ==
  /\ stage[c] # "settled"
  /\ stage' = [stage EXCEPT ![c] = "settled"]
  /\ \E o \in Outcomes : /\ o = "ok" => stage[c] = "served"
                         /\ outcome' = [outcome EXCEPT ![c] = o]
  /\ ahead' = [d \in Calls |-> IF d = c THEN {} ELSE ahead[d] \ {c}]
  /\ UNCHANGED open

Close == open /\ open' = FALSE /\ UNCHANGED <<stage, ahead, outcome>>

Next ==
  \/ \E c \in Calls : Ask(c) \/ Serve(c) \/ Settle(c)
  \/ Close

Spec == Init /\ [][Next]_vars
=============================================================================
