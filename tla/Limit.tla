-------------------------------- MODULE Limit --------------------------------
(***************************************************************************)
(* limit.go: which part of an over-budget transcript may be evicted.       *)
(* Positions are 1-based; 0 stands for the code's -1 ("none").             *)
(***************************************************************************)
EXTENDS Transcript

IsUserTurn(message) == message.role = "user" /\ ~IsInjection(message)

lastConversationalUserIndex(messages) ==
  SelectLastInSeq(messages, IsUserTurn)

lastAnsweringAssistantIndex(messages) ==
  SelectLastInSeq(messages,
                  LAMBDA m : m.role = "assistant" /\ ~IsInjection(m))

\* The exchange of the latest message with calls is live until the user
\* speaks again.
isLiveToolExchange(messages, i) ==
  LET latestAssistant == SelectLastInSeq(messages, HasCalls)
  IN  /\ latestAssistant > 0
      /\ latestAssistant >= lastConversationalUserIndex(messages)
      /\ i \in latestAssistant .. (unitEnd(messages, latestAssistant) - 1)

IsLeadingSystem(messages, i) ==
  i = 1 /\ messages[1].role = "system" /\ ~IsInjection(messages[1])

IsPinned(messages, i) ==
  \/ IsLeadingSystem(messages, i)
  \/ IsInjection(messages[i]) /\ i > lastAnsweringAssistantIndex(messages)
  \/ i = lastConversationalUserIndex(messages)
  \/ isLiveToolExchange(messages, i)

\* Fault: the live exchange and fresh injections are not spared.
dropUnpinned(messages) ==
  LET droppable == { i \in DOMAIN messages :
                       ~IsLeadingSystem(messages, i)
                         /\ i # lastConversationalUserIndex(messages) }
  IN  IF droppable = {} THEN 0 ELSE Min(droppable)

firstDroppableUnit(messages) ==
  LET droppable == { i \in DOMAIN messages : ~IsPinned(messages, i) }
  IN  IF droppable = {} THEN 0 ELSE Min(droppable)

\* The first message behind the system prompt is droppable and no user turn:
\* what is left of an exchange whose question is gone.
startsMidExchange(messages) ==
  LET front == IF messages # <<>> /\ IsLeadingSystem(messages, 1) THEN 2 ELSE 1
  IN  /\ front <= Len(messages)
      /\ ~IsUserTurn(messages[front])
      /\ firstDroppableUnit(messages) = front

DropUnit(messages, i) ==
  SubSeq(messages, 1, i - 1)
    \o SubSeq(messages, unitEnd(messages, i), Len(messages))
=============================================================================
