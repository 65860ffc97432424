---------------------------- MODULE MCThesisStore ----------------------------
(* ThesisStore alone, on the cases of ThesisCases.                         *)
EXTENDS ThesisStore

CONSTANTS a, b

INSTANCE ThesisCases
==============================================================================
