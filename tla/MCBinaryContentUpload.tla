----------------------- MODULE MCBinaryContentUpload -----------------------
(* Small instances of BinaryContentUpload for TLC. *)
EXTENDS BinaryContentUpload

CONSTANT empty  \* the file without bytes

=============================================================================
