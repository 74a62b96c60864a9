----------------------------- MODULE MCRestList -----------------------------
(* Model-checking instance of RestList.                                    *)
EXTENDS RestList, TLC

CONSTANTS a, b, c, d, e

ThreeRecords == <<a, b, c>>

ManyQueries ==
    {UnboundedQuery(0, 2), UnboundedQuery(1, 2), UnboundedQuery(0, 1), UnboundedQuery(5, 2)}
        \cup {PaginatedQuery(0, 2, m) : m \in 0..4} \cup {PaginatedQuery(2, 1, 1)}

AllWorkloads == {{"insert", "create"}, {"delete"}, {"insert", "delete"}, {"faulty"}}
=============================================================================
