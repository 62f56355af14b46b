---------------------------- MODULE MCDraftStream ----------------------------
(* DraftStream with one page. *)
EXTENDS DraftStream

CONSTANTS page

MCPages == {page}
=============================================================================
