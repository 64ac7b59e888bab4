------------------------------ MODULE MCPrompt ------------------------------
(* A small instance of Prompt for TLC. *)
EXTENDS Prompt

CONSTANTS plain, always, secret, read, search, post

MCToolsOf == [s \in Skill |-> CASE s = plain  -> {search}
                                [] s = always -> {post}
                                [] s = secret -> {search, post, read}]
=============================================================================
