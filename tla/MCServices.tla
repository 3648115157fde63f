----------------------------- MODULE MCServices ------------------------------
(***************************************************************************)
(* The services around the index and the agent, checked side by side.      *)
(* They share no rows and take no step together: service picks the one     *)
(* that runs.                                                              *)
(***************************************************************************)
EXTENDS Conversations, Feedback, ModelGate, RateLimit, TagReview, Access, SourceChecks, TLC

CONSTANTS c1, c2, q1, q2, m1, k1, k2, k3, t1, t2, x1, x2, u1, u2, Services

VARIABLE service

serviceVars == <<service, conversationVars, feedbackVars, gateVars, limitVars, tagVars,
                 accessVars, sourceVars>>

MCInit ==
    /\ service \in Services
    /\ ConversationInit /\ FeedbackInit /\ ModelGateInit /\ TagInit /\ SourceInit
    /\ RateLimitInit /\ (service # "limit" => \A s \in Servers : primary[s])
    /\ AccessInit /\ (service # "access" => database = "postgresql")

ConversationRuns == service = "conversation" /\ ConversationNext
FeedbackRuns == service = "feedback" /\ FeedbackNext
GateRuns == service = "gate" /\ ModelGateNext
LimitRuns == service = "limit" /\ RateLimitNext
TagsRun == service = "tags" /\ TagNext
AccessRuns == service = "access" /\ AccessNext
SourcesRun == service = "sources" /\ SourceNext

MCNext ==
    /\ UNCHANGED service
    /\ \/ /\ ConversationRuns
          /\ UNCHANGED <<feedbackVars, gateVars, limitVars, tagVars, accessVars, sourceVars>>
       \/ /\ FeedbackRuns
          /\ UNCHANGED <<conversationVars, gateVars, limitVars, tagVars, accessVars, sourceVars>>
       \/ /\ GateRuns
          /\ UNCHANGED <<conversationVars, feedbackVars, limitVars, tagVars, accessVars, sourceVars>>
       \/ /\ LimitRuns
          /\ UNCHANGED <<conversationVars, feedbackVars, gateVars, tagVars, accessVars, sourceVars>>
       \/ /\ TagsRun
          /\ UNCHANGED <<conversationVars, feedbackVars, gateVars, limitVars, accessVars, sourceVars>>
       \/ /\ AccessRuns
          /\ UNCHANGED <<conversationVars, feedbackVars, gateVars, limitVars, tagVars, sourceVars>>
       \/ /\ SourcesRun
          /\ UNCHANGED <<conversationVars, feedbackVars, gateVars, limitVars, tagVars, accessVars>>

\* The fairness of the service that runs.
MCFairness ==
    /\ \A q \in Questions : WF_conversationVars(service = "conversation" /\ ServerStep(q))
    /\ \A c \in Calls : /\ WF_gateVars(service = "gate" /\ CallStep(c))
                        /\ WF_gateVars(service = "gate" /\ EndLease(c))
    /\ \A p \in Pages : WF_sourceVars(service = "sources" /\ GrowOld(p))
    /\ \A c \in Checkers : WF_sourceVars(service = "sources" /\ CheckStep(c))
    /\ \A p \in Pages : SF_sourceVars(service = "sources" /\
          \E c \in Checkers, batch \in SUBSET Pages : p \in batch /\ ClaimDue(c, batch))

MCSpec == MCInit /\ [][MCNext]_serviceVars /\ MCFairness

-----------------------------------------------------------------------------
(* Values for the constants.                                               *)

Item(id, cost, short) == [id |-> id, cost |-> cost, short |-> short]
\* Nothing; all fits; the second is cut; the second is too large, the third is not.
FourFindings ==
    {<<>>, <<Item("a", 50, 40), Item("b", 40, 40)>>,
     <<Item("a", 50, 40), Item("b", 90, 60), Item("c", 40, 40)>>,
     <<Item("a", 50, 40), Item("b", 120, 100), Item("c", 40, 40)>>}

CallHomes == (k1 :> "s1") @@ (k2 :> "s1") @@ (k3 :> "s2")
TagNames == (x1 :> {t1, t2}) @@ (x2 :> {})
=============================================================================
