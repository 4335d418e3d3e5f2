----------------------------- MODULE MCReaders -----------------------------
(***************************************************************************)
(* An instance of Readers for TLC.                                         *)
(***************************************************************************)
EXTENDS MCAccess, Readers

SwapDocs == {NamedDoc, {Allow({1}, {"put"})}}
=============================================================================
