----------------------------- MODULE MCDesktop ------------------------------
(***************************************************************************)
(* Instances of DesktopSession: channels are model values.                 *)
(***************************************************************************)
EXTENDS DesktopSession

CONSTANT r1
=============================================================================
