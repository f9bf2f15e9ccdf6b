------------------------- MODULE MCRequestPipeline -------------------------
(***************************************************************************)
(* RequestPipeline for TLC.  Two patterns: one matches both paths, one     *)
(* matches one of them.  "x" is an origin that no configuration lists.     *)
(***************************************************************************)
EXTENDS RequestPipeline

MCMatch == ("/:id" :> {"/a", "/b"}) @@ ("/a:x" :> {"/a"})
MCOrigin == {"", "a", "b", "x"}
FewOrigins == {"a", "x"}
MCConfig == {<<>>, <<"*">>, <<"a", "b">>}
FewConfig == {<<>>, <<"a">>}
HandlerSymmetry == Permutations(Handler)
=============================================================================
