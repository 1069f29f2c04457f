--------------------------- MODULE MCBotLifecycle ---------------------------
(* Up to two requests of the embedded API, or up to two commands of an IPC    *)
(* client; the process dies at most once.                                     *)
EXTENDS BotLifecycle

CONSTANTS h1, h2, c1, c2
=============================================================================
