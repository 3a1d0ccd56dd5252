------------------------- MODULE MCWarningDocuments -------------------------
(* Small instances of WarningDocuments for TLC. *)
EXTENDS WarningDocuments

OneLevel == <<1>>
=============================================================================
