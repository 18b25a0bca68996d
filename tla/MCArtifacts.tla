----------------------------- MODULE MCArtifacts -----------------------------
(***************************************************************************)
(* The instance of Artifacts, and the view TLC tells states apart by.  It  *)
(* leaves out what no step and no property reads again: of a delivery, all *)
(* once it is answered and its runner does not wait for it; of a runner,   *)
(* the delivery when it does not wait, and file and errors when it is done *)
(* with its files.                                                         *)
(***************************************************************************)
EXTENDS Artifacts

Awaited(n) == \E a \in Attempts : up[a].at = "waiting" /\ up[a].conn = n

Seen ==
  <<job, stored, sent, overlaid,
    [n \in 1..MaxSends |-> IF hd[n].pc \in Busy \/ Awaited(n) THEN hd[n] ELSE hd[n].pc = "none"],
    [a \in Attempts |-> IF up[a].at = "waiting" THEN up[a]
                        ELSE IF up[a].at = "ready" THEN [up[a] EXCEPT !.conn = 0]
                        ELSE up[a].at]>>
=============================================================================
