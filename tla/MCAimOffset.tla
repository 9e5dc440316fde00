---------------------------- MODULE MCAimOffset -----------------------------
(* A grid on which every branch has angles.                                *)
EXTENDS AimOffset
=============================================================================
