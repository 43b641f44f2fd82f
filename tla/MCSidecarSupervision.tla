------------------------ MODULE MCSidecarSupervision ------------------------
(* Instances of SidecarSupervision for TLC.                                *)
EXTENDS SidecarSupervision
=============================================================================
