----------------------------- MODULE MCApiServer -----------------------------
(* Two handlers and one load goroutine at a time.  The model requests run    *)
(* with two launches, so that loads, reloads and unloads race; the worker    *)
(* requests with one launch and one browser, so that a reader, a writer and  *)
(* a broadcast to a client meet.                                             *)
EXTENDS ApiServer, TLC

CONSTANTS h1, h2, l1, ws1, path, w1
MCHandlers == {h1, h2}
MCLoaders == {l1}
MCConns == {ws1}
MCPaths == {path}
MCWorkers == {w1}
MCConfiguredLists == {<<w1>>}
NoLists == {}
NoConns == {}
Symmetry == Permutations(Handlers)

\* A load names a path, an unload does not: so does the dashboard.
DashboardRequests ==
  AllRequests \ ([kind : {"load", "setModel"}, arg : {NoPath}]
                   \cup [kind : {"unload"}, arg : MCPaths])
OfKind(kinds) == {r \in DashboardRequests : r.kind \in kinds}

ModelRequests == OfKind({"getModel", "load", "unload", "deleteModel", "v1"})
WorkerRequests ==
  OfKind({"getModel", "setModel", "load", "addWorker", "deleteWorker"})
LiveRequests == OfKind({"getModel", "load", "unload", "deleteWorker"})
=============================================================================
