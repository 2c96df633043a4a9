--------------------------- MODULE MCArrowExport ---------------------------
(* Small instances of ArrowExport: results of no, one and three chunks.    *)
EXTENDS ArrowExport

Some == {<<>>, <<2>>, <<2, 2, 1>>}

Any == {"fopen", "query", "empty", "malloc", "schema", "stream", "writer",
        "encode", "write", "close", "view", "convert"}
==============================================================================
