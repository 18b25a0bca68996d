------------------------------ MODULE MCDocker ------------------------------
(* Two runners on one daemon; the first, which has an attempt, is started a  *)
(* second time, before or after its first process has died.                 *)
EXTENDS Docker, TLC

CONSTANTS p1, p2, p3, n1

MCNameOf == (p1 :> "a") @@ (p2 :> "a") @@ (p3 :> "b")
MCProcOf == n1 :> p1
MCBundle == <<1, 2>>
=============================================================================
