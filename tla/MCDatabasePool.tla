--------------------------- MODULE MCDatabasePool ---------------------------
(***************************************************************************)
(* An update, a query of high priority and two transactions of two         *)
(* requests, as the creation of a character is, on two connections.        *)
(***************************************************************************)
EXTENDS DatabasePool, TLC

CONSTANTS update, query, create1, create2

MCKindOf == (update :> "update") @@ (query :> "query")
            @@ (create1 :> "transaction") @@ (create2 :> "transaction")
MCSizeOf == (update :> 1) @@ (query :> 0) @@ (create1 :> 2) @@ (create2 :> 2)
MCPriorityOf == (update :> 0) @@ (query :> 2) @@ (create1 :> 0) @@ (create2 :> 0)
=============================================================================
