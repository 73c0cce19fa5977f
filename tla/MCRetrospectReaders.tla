------------------------ MODULE MCRetrospectReaders ------------------------
(***************************************************************************)
(* Small instances of RetrospectReaders.                                   *)
(***************************************************************************)
EXTENDS RetrospectReaders

=============================================================================
