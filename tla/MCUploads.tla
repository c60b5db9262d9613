------------------------------ MODULE MCUploads ------------------------------
(***************************************************************************)
(* A small instance of the workspace with its object store.                *)
(***************************************************************************)
EXTENDS UploadStorage, MCWorkspace
=============================================================================
