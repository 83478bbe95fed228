------------------------------- MODULE MCProcess -------------------------------
(***************************************************************************)
(* What must end: expansions and the process.  The two share no state; a   *)
(* behaviour is of one of them, chosen at the start, so that their states  *)
(* add.                                                                    *)
(***************************************************************************)
EXTENDS AiExpansion, Shutdown

VARIABLE side

endVars == <<aiVars, processVars, side>>

EndInit == side \in {"ai", "process"} /\ AiInit /\ ProcessInit

OfAi(A) == side = "ai" /\ A /\ UNCHANGED <<processVars, side>>
OfProcess(A) == side = "process" /\ A /\ UNCHANGED <<aiVars, side>>

\* tokio polls every task that can run, timers fire, and a statement ends.  What a client
\* does is left to it.
EndSpec ==
  /\ EndInit /\ [][OfAi(AiNext) \/ OfProcess(ProcessNext)]_endVars
  /\ \A t \in AiTasks : WF_endVars(OfAi(Expand(t)))
  /\ \A l \in Loops : WF_endVars(OfProcess(LoopStep(l)))
  /\ \A q \in Requests : WF_endVars(OfProcess(RequestStep(q)))
  /\ WF_endVars(OfProcess(MainStep))
=============================================================================
