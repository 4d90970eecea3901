---------------------------- MODULE MCLlamaServer ----------------------------
(* Two callers of Start, one model path, two worker lists, three launches:   *)
(* the least in which a stale waiter, a lost flag and an orphan all occur.   *)
EXTENDS LlamaServer

CONSTANTS c1, c2, path, w1
MCCallers == {c1, c2}
MCPaths == {path}
MCRpcLists == {<<>>, <<w1>>}
=============================================================================
