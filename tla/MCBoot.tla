------------------------------- MODULE MCBoot -------------------------------
EXTENDS Boot, TLC

MCModules == {tty, lcd}

(* The largest heap has room for everything, the others for a part. *)
MCNeed == (tty :> 2) @@ (lcd :> 3) @@ ("stdout" :> 1)
=============================================================================
