------------------------------- MODULE MCHost -------------------------------
(* A small instance of Host for TLC. *)
EXTENDS HostProps, TLC

CONSTANTS small, big

\* A version that can be read at once and edited, and one that cannot.
Sizes == small :> 1 @@ big :> 3

\* Trees of one to three files with up to two matching lines each: every kind
\* of file, more files than are scanned, more hits than are reported.
Has(n, kind) == [matches |-> n, kind |-> kind]
SomeTrees ==
    { <<Has(1, k)>> : k \in {"text", "large", "binary", "shut", "aside"} }
    \cup { <<Has(1, "text"), Has(1, "text")>>,
           <<Has(2, "text"), Has(1, "text")>>,
           <<Has(0, "large"), Has(0, "text"), Has(1, "text")>>,
           <<Has(1, "aside"), Has(0, "text"), Has(1, "text")>> }

\* Requests of two agents; a request and an update; updates alone.
SomeLoads ==
    { [jobs |-> 2, releases |-> 0, crashes |-> 0, faults |-> 0],
      [jobs |-> 1, releases |-> 1, crashes |-> 1, faults |-> 1],
      [jobs |-> 0, releases |-> 2, crashes |-> 1, faults |-> 2] }
=============================================================================
