------------------------------ MODULE MCCloudSync ------------------------------
(***************************************************************************)
(* Two devices that sync one platform setting and the preferences.         *)
(***************************************************************************)
EXTENDS CloudSync

CONSTANTS a, b, font
================================================================================
