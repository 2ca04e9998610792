------------------------------- MODULE NoValue -------------------------------
(* The value of a column, field or record that is not there (Python's None), *)
(* shared by the modules that one model checks together.                      *)
CONSTANT None
==============================================================================
