---------------------------- MODULE TranscriptMC ----------------------------
(* All histories of at most MaxLength messages of nine shapes. *)
EXTENDS TranscriptCheck

shapes ==
  {SystemMessage, UserMessage, PlainMessage("unknown", "turn"),
   AssistantMessage(<<>>), AssistantMessage(<<"a">>),
   AssistantMessage(<<"a", "b">>), AssistantMessage(<<"a", "a">>),
   ToolMessage("a"), ToolMessage("b")}
=============================================================================
