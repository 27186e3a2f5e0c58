------------------------------ MODULE MCServices ------------------------------
(***************************************************************************)
(* The smaller services in one run.  They share no state, and no property  *)
(* relates two of them, so that their product would only repeat each one's *)
(* states: `part` is the service that is checked, the others stay where    *)
(* they begin, and the reachable states are the sum of the services' own.  *)
(***************************************************************************)
EXTENDS ProviderFallback, GatewayProcess, WeComAIBot, MediaStore, ChannelFeedback,
        ChatHub, MCPManager, SubAgentLifecycle, ToolDiscovery

CONSTANTS c1, c2, m1, m2, m3, p1, p2, t1, t2, x1, x2, s1, s2, f1, d1, d2, r1, a1, a2, l1, l2, h1

\* Two models of one provider and one of another; the first is configured twice.
TwoCalls == {c1, c2}
ThreeModels == {m1, m2, m3}
TwoProviders == {p1, p2}
ByProvider == [m \in ThreeModels |-> IF m = m3 THEN p2 ELSE p1]
Chain == ResolveCandidates(<<m1, m2, m1, m3>>)
OnlyLast == {m3}

TwoTurns == {t1, t2}
TwoMessages == {x1, x2}
TwoSenders == {s1, s2}
TwoScopes == {s1, s2}
TwoServers == {s1, s2}
TwoDownloads == {d1, d2}
OneFile == {f1}
OneRequest == {r1}
TwoAgents == {a1, a2}
TwoCallers == {l1, l2}
OneHidden == {h1}

VARIABLE part

Parts ==
  {"fallback", "gateway", "wecom", "media", "feedback", "chat",
   "mcp", "lifecycle", "discovery"}

ServicesInit ==
  /\ part \in Parts
  /\ Init /\ GatewayInit /\ WeComInit /\ MediaInit /\ FeedbackInit /\ ChatHubInit
  /\ MCPInit /\ LifecycleInit /\ DiscoveryInit

ServicesNext ==
  /\ UNCHANGED part
  /\ \/ /\ part = "fallback" /\ Next
        /\ UNCHANGED <<gatewayVars, wecomVars, mediaVars, feedbackVars,
                       chatHubVars, mcpVars, lifecycleVars, discoveryVars>>
     \/ /\ part = "gateway" /\ GatewayNext
        /\ UNCHANGED <<vars, wecomVars, mediaVars, feedbackVars,
                       chatHubVars, mcpVars, lifecycleVars, discoveryVars>>
     \/ /\ part = "wecom" /\ WeComNext
        /\ UNCHANGED <<vars, gatewayVars, mediaVars, feedbackVars,
                       chatHubVars, mcpVars, lifecycleVars, discoveryVars>>
     \/ /\ part = "media" /\ MediaNext
        /\ UNCHANGED <<vars, gatewayVars, wecomVars, feedbackVars,
                       chatHubVars, mcpVars, lifecycleVars, discoveryVars>>
     \/ /\ part = "feedback" /\ FeedbackNext
        /\ UNCHANGED <<vars, gatewayVars, wecomVars, mediaVars,
                       chatHubVars, mcpVars, lifecycleVars, discoveryVars>>
     \/ /\ part = "chat" /\ ChatHubNext
        /\ UNCHANGED <<vars, gatewayVars, wecomVars, mediaVars,
                       feedbackVars, mcpVars, lifecycleVars, discoveryVars>>
     \/ /\ part = "mcp" /\ MCPNext
        /\ UNCHANGED <<vars, gatewayVars, wecomVars, mediaVars,
                       feedbackVars, chatHubVars, lifecycleVars, discoveryVars>>
     \/ /\ part = "lifecycle" /\ LifecycleNext
        /\ UNCHANGED <<vars, gatewayVars, wecomVars, mediaVars,
                       feedbackVars, chatHubVars, mcpVars, discoveryVars>>
     \/ /\ part = "discovery" /\ DiscoveryNext
        /\ UNCHANGED <<vars, gatewayVars, wecomVars, mediaVars,
                       feedbackVars, chatHubVars, mcpVars, lifecycleVars>>

ServicesSpec ==
  ServicesInit /\ [][ServicesNext]_<<part, vars, gatewayVars, wecomVars, mediaVars, feedbackVars,
                                     chatHubVars, mcpVars, lifecycleVars, discoveryVars>>

=============================================================================
