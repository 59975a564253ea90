------------------------- MODULE MCCloudflareWrite -------------------------
(* A small instance of CloudflareWrite: pages of two records and a zone of *)
(* none or three at the start, so that listings have several pages.        *)
EXTENDS CloudflareWrite, TLC

CONSTANTS c1, c2, kA, kB, x, y

MCCalls == {c1, c2}
Interchangeable == Permutations(MCCalls)
MCPuts == {{x}, {x, y}}
R(i, k, d) == [id |-> i, key |-> k, data |-> d]
MCInitialRecords ==
    { << >>, << R(1, kB, x), R(2, kB, y), R(3, kA, y) >> }
=============================================================================
