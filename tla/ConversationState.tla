------------------------- MODULE ConversationState -------------------------
(* What is kept of one employee's conversation with the shop assistant, and  *)
(* what must be true of it whatever SlackOperator does.                      *)
EXTENDS Naturals

CONSTANTS
    Requests,       \* ids that Slack gives its events
    NoPlan          \* no plan

VARIABLES
    mode,           \* of slack_operator_config
    member,         \* what identity() finds for the Slack user
    request,        \* status in slack_operator_requests
    plan,           \* what each request asks for, once it is planned
    saved,          \* the plan pending in slack_operator_threads
    fresh,          \* it has not expired
    outdated,       \* plans whose job has a later revision
    turn,           \* what the handler of a request is doing
    writes,         \* changes made on behalf of a request
    carried,        \* times a plan was carried out
    lost            \* quotes drafted by a handler that died before its save

(* A request is carried out once, however often Slack delivers it.           *)
RequestOnce == \A r \in Requests : writes[r] <= 1

(* A plan is carried out once, and again only where a quote was drafted and  *)
(* the process died before its conversation was saved.                       *)
PlanOnce == \A p \in Requests : carried[p] <= 1 + lost[p]
=============================================================================
