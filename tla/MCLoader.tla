------------------------------- MODULE MCLoader -------------------------------
(* Instances of Loader for TLC. *)
EXTENDS Loader

\* ":8080", which has no host and is taken as it is, and two that are refused:
\* the empty one and one whose port is not a number.
MCUrls ==
  { [host |-> "empty", port |-> "valid"], [host |-> "empty", port |-> "absent"],
    [host |-> "given", port |-> "unparsable"] }
===============================================================================
