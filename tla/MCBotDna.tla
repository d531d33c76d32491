------------------------------ MODULE MCBotDna ------------------------------
(* An agent and its backup, with the changes its memory may make to them. *)
EXTENDS BotDna

MCRoles == {"MEM_WATCH", "QUARANTINE"}
=============================================================================
