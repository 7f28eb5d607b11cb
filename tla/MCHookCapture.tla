---------------------------- MODULE MCHookCapture ----------------------------
(* A small instance of HookCapture: the payloads a stop hook can bring.     *)
EXTENDS HookCapture, TLC

CONSTANTS h1, h2, s1, s2

AnswerAndTool == [NoPayload EXCEPT !.assistant = TRUE, !.tool = TRUE]
Conversation == [NoPayload EXCEPT !.turns = TRUE]
PromptOnly == [NoPayload EXCEPT !.prompt = TRUE]

Symmetry == Permutations(Hooks) \cup Permutations(Sessions)

MCStopPayloads == {NoPayload, AnswerAndTool, Conversation, PromptOnly}
=============================================================================
