------------------------- MODULE MCRequestHandling --------------------------
(***************************************************************************)
(* The instance of RequestHandling that TLC checks.  The order of the      *)
(* characters is that of ASCII: "-" is before "/", "a" after it.  "/a-"    *)
(* and "/a/a" can come between a path and the key that matches it.         *)
(***************************************************************************)
EXTENDS RequestHandling

Dash == 45
A    == 97

Keys == {<<Slash, A>>, <<Slash, A, Slash>>, <<Slash, A, Dash>>, <<Slash, A, Slash, A>>}

MCPaths ==
  Keys \cup {<<>>, <<Slash>>, <<Slash, A, A>>, <<Slash, A, Slash, Dash>>,
              <<Slash, A, Slash, A, A>>, <<Slash, A, Slash, A, Slash>>, <<A>>}

MCRoutes == ({"GET"} \X Keys) \cup {<<"POST", <<Slash, A>>>>}

MCFileOf ==
  [p \in MCPaths |->
     IF p \in {<<Slash>>, <<Slash, A, A>>} THEN "index.html" ELSE Outside]
=============================================================================
