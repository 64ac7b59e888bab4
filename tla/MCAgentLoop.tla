----------------------------- MODULE MCAgentLoop -----------------------------
(* Small instances of AgentLoop for TLC. *)
EXTENDS AgentLoop, TLC

CONSTANTS chat,     \* a user's message
          system,   \* a message to the "system" channel, whose override names the user's session
          command,  \* "/new" or "/help" in the user's session
          stop,     \* "/stop" in the user's session
          hook,     \* an agent_end hook of the user's chat
          direct,   \* a call of ProcessDirect
          user, other, hooks

MCKeyOf == [r \in Runner |-> CASE r = hook   -> hooks
                               [] r = direct -> other
                               [] OTHER      -> user]

MCKindOf == [r \in Runner |-> CASE r = system  -> "system"
                                [] r = hook    -> "hook"
                                [] r = command -> "command"
                                [] r = stop    -> "stop"
                                [] OTHER       -> "chat"]
=============================================================================
