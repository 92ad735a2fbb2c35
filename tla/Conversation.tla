----------------------------- MODULE Conversation -----------------------------
(***************************************************************************)
(* How a stored chat history is rendered as a provider request             *)
(* (conversation() in pkg/chat/engine.go).  A message is a role and the    *)
(* blocks that matter to the protocols: tool calls and their results; any  *)
(* other content is one text block.                                        *)
(***************************************************************************)
EXTENDS Naturals, Sequences, SequencesExt

Text == [kind |-> "text"]
Call(id) == [kind |-> "tool_use", id |-> id]
Result(id) == [kind |-> "tool_result", id |-> id]

UserMessage(blocks) == [role |-> "user", content |-> blocks]
AssistantMessage(blocks) == [role |-> "assistant", content |-> blocks]

\* The ids a message calls.
CallsOf(m) == {b.id : b \in {x \in ToSet(m.content) : x.kind = "tool_use"}}

\* The ids a message answers (alreadyAnswered collects them over a history).
AnsweredIn(m) == {b.id : b \in {x \in ToSet(m.content) : x.kind = "tool_result"}}

AnsweredBy(messages) == UNION {AnsweredIn(m) : m \in ToSet(messages)}

IsUserAt(messages, i) == i \in DOMAIN messages /\ messages[i].role = "user"

\* Mutant: only a conversation that ends in unanswered calls is repaired.
MadeUpAtTheEnd(messages, i) ==
    IF i < Len(messages) THEN <<>>
    ELSE SetToSeq({Result(id) : id \in CallsOf(messages[i])})

\* The answers made up for the calls of an assistant turn that the user turn right
\* after it does not answer (orphanedToolResult, one per missing call; their order
\* tells no property anything).
MadeUp(messages, i) ==
    LET answered == IF IsUserAt(messages, i + 1) THEN AnsweredIn(messages[i + 1]) ELSE {}
    IN  SetToSeq({Result(id) : id \in CallsOf(messages[i]) \ answered})

\* repairUnansweredToolCalls: made-up answers go in front of the user turn that
\* follows, or become a user turn of their own.
RepairedAt(messages, i) ==
    LET m == messages[i] IN
    IF m.role = "assistant"
    THEN IF MadeUp(messages, i) = <<>> \/ IsUserAt(messages, i + 1)
         THEN <<m>>
         ELSE <<m, UserMessage(MadeUp(messages, i))>>
    ELSE IF i > 1 /\ messages[i - 1].role = "assistant"
         THEN <<UserMessage(MadeUp(messages, i - 1) \o m.content)>>
         ELSE <<m>>

RepairUnansweredToolCalls(messages) ==
    FlattenSeq([i \in DOMAIN messages |-> RepairedAt(messages, i)])

\* A message joins the request: a user message after a user message becomes part
\* of it.
AddTurn(out, m) ==
    IF out # <<>> /\ m.role = "user" /\ Last(out).role = "user"
    THEN Append(Front(out), UserMessage(Last(out).content \o m.content))
    ELSE Append(out, m)

\* coalesceUserTurns: consecutive user messages become one.
CoalesceUserTurns(messages) ==
    LET out[n \in 0 .. Len(messages)] ==
            IF n = 0 THEN <<>> ELSE AddTurn(out[n - 1], messages[n])
    IN  out[Len(messages)]

Render(messages) == CoalesceUserTurns(RepairUnansweredToolCalls(messages))

-----------------------------------------------------------------------------
(* What the native protocols accept (the comments of repairUnansweredToolCalls *)
(* and appendToolResults), of which the rendering sees to the first two: no    *)
(* two user turns are adjacent, every call is answered in the turn right after *)
(* it, and a user turn answers only calls of the assistant turn before it,     *)
(* each once.  Adjacent assistant turns are not repaired, nor asked about here. *)

TimesAnswered(m, id) == Len(SelectSeq(m.content, LAMBDA b : b = Result(id)))

NoAdjacentUserTurns(request) ==
    \A i \in 1 .. Len(request) - 1 : ~(IsUserAt(request, i) /\ IsUserAt(request, i + 1))

EveryCallAnswered(request) ==
    \A i \in DOMAIN request :
        request[i].role = "assistant" =>
            \A id \in CallsOf(request[i]) :
                i < Len(request) /\ id \in AnsweredIn(request[i + 1])

NothingElseAnswered(request) ==
    \A i \in DOMAIN request :
        \A id \in AnsweredIn(request[i]) :
            /\ i > 1 /\ id \in CallsOf(request[i - 1])
            /\ TimesAnswered(request[i], id) = 1

Acceptable(request) ==
    NoAdjacentUserTurns(request) /\ EveryCallAnswered(request) /\ NothingElseAnswered(request)
=============================================================================
