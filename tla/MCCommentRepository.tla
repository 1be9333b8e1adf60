------------------------- MODULE MCCommentRepository -------------------------
(* Model-checking instances of CommentRepository.                          *)
EXTENDS CommentRepository
=============================================================================
