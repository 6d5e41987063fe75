--------------------------- MODULE MCMockExecutor ---------------------------
(***************************************************************************)
(* Two nodes without an order between them, one of them dispatched twice,  *)
(* over the executor that sgh builds by default (Fn set).                  *)
(***************************************************************************)
EXTENDS MockExecutor

Dispatches == {1, 2, 3}
OnTwoNodes == <<"a", "b", "b">>
OneFailure == [n \in {"a", "b"} |-> 1]

=============================================================================
