---------------------------- MODULE CompactionMC ----------------------------
(***************************************************************************)
(* Histories of up to MaxUnits units, with or without a system prompt.     *)
(* Every message carries its position as tag.                              *)
(***************************************************************************)
EXTENDS Compaction

CONSTANT MaxUnits

tags == 1 .. (3 * MaxUnits + 1)

\* The last but one is an orphaned result, which a caller's history may hold.
units ==
  {<<UserMessage>>,
   <<AssistantMessage(<<>>)>>,
   <<AssistantMessage(<<"a">>), ToolMessage("a")>>,
   <<AssistantMessage(<<"b", "a">>), ToolMessage("b"), ToolMessage("a")>>,
   <<ToolMessage("a")>>,
   <<PlainMessage("user", "injection")>>}

\* Tools inject: an injection follows a tool result or another injection.
InjectionsPlaced(s) ==
  \A i \in DOMAIN s : IsInjection(s[i]) =>
     i > 1 /\ (s[i - 1].role = "tool" \/ IsInjection(s[i - 1]))

Tagged(s) == [ i \in DOMAIN s |-> [s[i] EXCEPT !.tag = i] ]

histories ==
  { Tagged(s) : s \in { t \in { system \o FlattenSeq(body) :
                                  system \in {<<>>, <<SystemMessage>>},
                                  body \in SeqOf(units, MaxUnits) \ {<<>>} } :
                        InjectionsPlaced(t) } }

\* A counter: the price of a message by role, and what counting a unit on its
\* own adds to or takes off the sum of its messages.
counters ==
  [user : {1}, assistant : {0, 1}, tool : {1, 2}, skew : {-1, 0, 2}]

Price(c, message) ==
  CASE message.role = "assistant" -> c.assistant
    [] message.role = "tool" -> c.tool
    [] message.role \in {"user", "system"} -> c.user

Total(c, s) == FoldLeft(LAMBDA sum, message : sum + Price(c, message), 0, s)

UnitTotal(c, s) == IF Total(c, s) + c.skew > 0 THEN Total(c, s) + c.skew ELSE 0
=============================================================================
