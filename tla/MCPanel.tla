---- MODULE MCPanel ----
(* The chat tab, the checklist, the feedback tab, the comparison of a conflict's  *)
(* texts and the deployment of plugins side by side: a behaviour moves one of     *)
(* them; they share no document.                                                  *)
EXTENDS Chat, PluginDeploy, Routines, Feedback, LineDiff
VARIABLE part
vars == <<chatVars, deployVars, routinesVars, feedbackVars, diffVars, part>>
Moves(name, action, others) == part = name /\ action /\ UNCHANGED <<others, part>>
AnyText == CHOOSE lines \in Text : TRUE
Init == /\ part \in {"chat", "deploy", "routines", "feedback", "diff"}
        /\ ChatInit /\ DeployInit /\ RoutinesInit /\ FeedbackInit
        /\ IF part = "diff" THEN LineDiffInit ELSE Opened(AnyText, AnyText)
        /\ part # "chat" => rooms = {} /\ \A c \in Channels : messages[c] = CHOOSE ids \in FirstMessages : TRUE
        /\ part # "routines" => routine = {}
        /\ part # "feedback" => active = Elsewhere /\ \A r \in Remarks : remarks[r].rev = 0
Next == \/ Moves("chat", ChatNext, <<deployVars, routinesVars, feedbackVars, diffVars>>)
        \/ Moves("deploy", DeployNext, <<chatVars, routinesVars, feedbackVars, diffVars>>)
        \/ Moves("routines", RoutinesNext, <<chatVars, deployVars, feedbackVars, diffVars>>)
        \/ Moves("feedback", FeedbackNext, <<chatVars, deployVars, routinesVars, diffVars>>)
        \/ Moves("diff", LineDiffNext, <<chatVars, deployVars, routinesVars, feedbackVars>>)
Deploys(action) == Moves("deploy", action, <<chatVars, routinesVars, feedbackVars, diffVars>>)
Spec == /\ Init /\ [][Next]_vars
        /\ WF_vars(Deploys(DeployStep)) /\ WF_vars(Deploys(StartSession)) /\ SF_vars(Deploys(EndSession))
====
