------------------------ MODULE MCGenerationElection ------------------------
EXTENDS GenerationElection, TLC
CONSTANTS kb, graph, k1, k2, g1

MCKeyOf == (k1 :> kb) @@ (k2 :> kb) @@ (g1 :> graph)
=============================================================================
