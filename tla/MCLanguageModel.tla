--------------------------- MODULE MCLanguageModel ---------------------------
(* Small instances of LanguageModel: the .cfg files give the constants.      *)
EXTENDS LanguageModel

\* Bound of units.cfg: a host program that has replaced cursors goes on with a
\* reset or a restore.
OverriddenIsReplaced == foreign => ~foreign'
=============================================================================
