------------------------------- MODULE MCChat -------------------------------
EXTENDS Chat, TLC

CONSTANTS r1, r2, u1, u2, s1, e1, e2, e3, e4, e5

Ask(user, session, policy, reasons, evidence) ==
  [user |-> user, chats |-> TRUE, session |-> session, found |-> TRUE,
   policy |-> policy, reasons |-> reasons, evidence |-> evidence]

\* Two users and a guest over one session id; reasons with more evidence than may
\* be cited and one item twice, with evidence that is gone, and no evidence at all.
MCInputs ==
  {Ask(u1, s1, "allowed", <<e2, e1, e2, e3, e4, e5>>, <<e1, e2, e3, e4, e5>>),
   Ask(u2, s1, "allowed", <<e5, e2>>, <<e1, e2>>),
   Ask(Guest, NoSession, "allowed", <<>>, <<>>),
   Ask(u1, NoSession, "blocked", <<e1>>, <<e2>>),
   [Ask(u2, s1, "allowed", <<>>, <<>>) EXCEPT !.found = FALSE],
   [Ask(u2, s1, "allowed", <<>>, <<>>) EXCEPT !.chats = FALSE]}

Says(text, cites, flaw) ==
  [text |-> text, cites |-> cites, unsafe |-> flaw = "unsafe",
   hidden |-> flaw = "hidden", loose |-> flaw = "loose"]

\* One answer for each way a guard, or normalisation, can treat it.
MCAnswers ==
  {Says(TRUE, {e1, e2}, "none"), Says(TRUE, {e5}, "none"), Says(TRUE, {}, "none"),
   Says(FALSE, {}, "none"), Says(TRUE, {e1}, "unsafe"), Says(TRUE, {e1}, "hidden"),
   Says(TRUE, {e1, e5}, "loose")}

MCDeployments ==
  {[provider |-> "bedrock", valid |-> v, dev |-> FALSE] : v \in BOOLEAN}
    \cup {[provider |-> "agentcore", valid |-> TRUE, dev |-> d] : d \in BOOLEAN}
    \cup {[provider |-> p, valid |-> TRUE, dev |-> FALSE] : p \in {"mock", "other"}}
=============================================================================
