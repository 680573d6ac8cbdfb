---------------------------- MODULE MCPagination ----------------------------
(* Small instances of Pagination.                                             *)
EXTENDS Pagination, TLC

\* Creation times: all different, and two or three rows created together.
MCTables == {<<1, 2, 3, 4>>, <<1, 2, 2, 4>>, <<1, 2, 3, 3, 3>>}
=============================================================================
